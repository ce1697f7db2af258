CONSTANTS
    f = f
    c1 = c1
    c2 = c2
    FolderGuids <- MCFolderGuids
    LeafGuids <- MCLeafGuids
    ChildLists <- MCChildLists
    Hrefs <- MCHrefs
    Tags <- MCTags
    NoUrl = NoUrl
    BadUrl = BadUrl
    NoTag = NoTag
    NoRow = NoRow
    URL_LENGTH_MAX = 3
    TAG_LENGTH_MAX = 2
    TagPrefixLen = 1
    ExclLen = 1

SYMMETRY MCSymmetry

INIT Init
NEXT Next

INVARIANTS
    StructureMatchesLastPayload
