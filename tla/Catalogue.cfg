SPECIFICATION CatalogueSpec
CONSTANTS
    l1 = l1
    l2 = l2
    w1 = w1
    w2 = w2
    Uuids = {w1, w2}
    Paths = {"p1", "p2"}
    Content <- IndexContent
    Filename <- Names
    TextIndices = {"t1"}
    Loaders = {l1, l2}
    Commands <- SomeCommands
    MaxCommands = 3
    Faults = {"crash", "index_fails", "commit_fails", "file_fails", "datacite_fails"}
SYMMETRY Symmetry
INVARIANTS CatalogueTypeOK PidsResolve CleanLoadAgrees RegisteredAtDataCite
CHECK_DEADLOCK FALSE
