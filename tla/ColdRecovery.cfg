SPECIFICATION Spec
CONSTANTS
    r1 = r1
    r2 = r2
    f1 = f1
    f2 = f2
    Records = {r1}
    Files = {f1, f2}
    RecordOf <- OneRecord
    Requests = {q1, q2}
    Jobs = {j1, j2}
    Beats = {b1}
    Operators = {}
    CliOps = {}
    CliOptions <- Registering
    CliLimits = {0}
    Threshold = 2
    Faults = {"crash", "delete_record", "job_fails", "poll_fails", "submit_fails", "job_canceled"}
    None = None
SYMMETRY FullSymmetry
INVARIANTS RequestedWhileStaging NoDuplicateTransfer
PROPERTY SettledWhenCompleted
