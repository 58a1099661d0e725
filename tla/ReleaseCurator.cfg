SPECIFICATION Spec
CONSTANTS
    a1 = a1
    a2 = a2
    d1 = d1
    x1 = x1
    Records = {a1, x1}
    Docs = {d1}
    Existing = {x1}
    Qualities = {"bad", "odd", "ok", "doi"}
    Curators = {c1}
    Tasks = {t1, t2, t3}
    Handlers <- EveryHandler
    ViaPage = TRUE
    Faults = {"stage_fails", "publish_fails", "doi_fails", "request_fails", "task_lost"}
SYMMETRY ProcSymmetry
INVARIANTS TypeOK StagedIsRegistered PublishedIsPublic NoOrphans OnlyValidated OneTask
PROPERTY LifecycleSpec
CHECK_DEADLOCK FALSE
