SPECIFICATION CatalogueSpec
CONSTANTS
    l1 = l1
    l2 = l2
    w1 = w1
    w2 = w2
    Uuids = {w1, w2}
    Paths = {"p1", "p2"}
    Content <- IndexContent
    Filename <- Names
    TextIndices = {"t1"}
    Loaders = {l1}
    Commands <- SomeCommands
    MaxCommands = 3
    Faults = {}
SYMMETRY Symmetry
INVARIANT OnlineIsOnDisk
CHECK_DEADLOCK FALSE
