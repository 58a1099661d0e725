SPECIFICATION Spec
CONSTANTS
    a = a
    b = b
    s1 = s1
    s2 = s2
    Bad = Bad
    Curators = {c1, c2}
    Slugs = {s1, s2}
    Names = {a, b}
    Uploads <- MCUploads
    FirstDocs <- MCFirstDocs
    Faults = {"save_fails", "dies", "rmtree_fails"}
    MaxDocs = 2
    MaxRequests = 4
SYMMETRY CuratorSymmetry
INVARIANTS TypeOK Stored NoneHidden GoneWithRelease
PROPERTIES PicturesSurvive
\* The curators may have sent their last request.
CHECK_DEADLOCK FALSE
