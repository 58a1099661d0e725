SPECIFICATION Spec
CONSTANTS
    Uuids = {"w1", "w2"}
    Paths = {"p1", "p2", "up"}
    Content <- IndexContent
    Filename <- Names
    TextIndices = {}
    Loaders = {"l1"}
    Commands <- SomeCommands
    MaxCommands = 2
    Faults = {"crash"}
    Ignored = {"up"}
    BatchSize = 2
    Opened = {"p1"}
    DumpFaults = {"batch_fails", "update_fails"}
INVARIANTS DumpCovered PathsHeld
PROPERTIES OnlyFailuresDouble CataloguedIsMapped
CHECK_DEADLOCK FALSE
