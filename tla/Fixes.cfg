SPECIFICATION Spec
CONSTANTS
    Releases = {"r1", "r2"}
    Uploads <- SomeUploads
    Existing <- AlreadyThere
    Others <- SomeOthers
    Datasets = {"d"}
    Slugs = {"s1", "s2", "s3"}
    Images = {"im"}
    Uris = {"u1", "u2", "u3", "u4"}
    Tree <- SmallTree
    Stored = {}
    DidTitle <- Titles
    DidFiles <- Files
    Suffixes = {"x", "y", "z"}
    Enabled <- AllChecks
    Production = TRUE
    Overlap = FALSE
    Faults = {"rucio_fails", "listing_fails"}
    MaxPresses = 4
INVARIANTS TypeOK NumbersStayApart FixIsEnough
PROPERTY PressesKeepFiles
CHECK_DEADLOCK FALSE
