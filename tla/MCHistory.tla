----------------------------- MODULE MCHistory -----------------------------
EXTENDS History, TLC

CONSTANTS u1, u2

MCUrls == {u1, u2}
MCSymmetry == Permutations(MCUrls)
=============================================================================
