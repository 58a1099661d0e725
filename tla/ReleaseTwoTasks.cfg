SPECIFICATION Spec
CONSTANTS
    a1 = a1
    a2 = a2
    d1 = d1
    x1 = x1
    Records = {a1}
    Docs = {}
    Existing = {}
    Qualities = {"bad", "ok"}
    Curators = {c1, c2}
    Tasks = {t1, t2}
    Handlers <- EveryHandler
    ViaPage = TRUE
    Faults = {}
SYMMETRY ProcSymmetry
INVARIANT OneTask
CHECK_DEADLOCK FALSE
