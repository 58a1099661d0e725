SPECIFICATION FairSpec
CONSTANTS
    r1 = r1
    r2 = r2
    f1 = f1
    f2 = f2
    Records = {r1}
    Files = {f1, f2}
    RecordOf <- OneRecord
    Requests = {q1, q2}
    Jobs = {j1, j2, j3}
    Beats = {b1}
    Operators = {}
    CliOps = {}
    CliOptions <- Registering
    CliLimits = {0}
    Threshold = 1
    Faults = {"job_fails", "job_canceled"}
    None = None
INVARIANT ThresholdRespected
PROPERTIES RequestsComplete RequestedFilesArrive
