---------------------------- MODULE MCVisitBatch ----------------------------
EXTENDS VisitBatch, TLC

CONSTANTS o1, o2, o3, o4

MCObs == {o1, o2, o3, o4}
MCSymmetry == Permutations(MCObs)
=============================================================================
