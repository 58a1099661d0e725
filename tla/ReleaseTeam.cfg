SPECIFICATION FairSpec
CONSTANTS
    a1 = a1
    a2 = a2
    d1 = d1
    x1 = x1
    Records = {a1}
    Docs = {}
    Existing = {}
    Qualities = {"ok"}
    Curators = {c1, c2}
    Tasks = {t1, t2}
    Handlers = {"update_records", "add_records", "stage", "publish", "rollback", "delete", "update_release"}
    ViaPage = TRUE
    Faults = {"stage_fails", "publish_fails", "request_fails"}
PROPERTY TransitionsEnd
CHECK_DEADLOCK FALSE
