SPECIFICATION Spec
CONSTANTS
    r1 = r1
    r2 = r2
    f1 = f1
    f2 = f2
    Records = {r1}
    Files = {f1, f2}
    RecordOf <- OneRecord
    Requests = {q1, q2}
    Jobs = {j1, j2}
    Beats = {b1}
    Operators = {o1}
    CliOps = {"clear_hot", "archive"}
    CliOptions <- Registering
    CliLimits = {0}
    Threshold = 2
    Faults = {"job_fails"}
    None = None
SYMMETRY FullSymmetry
INVARIANT OnlineMeansHot
