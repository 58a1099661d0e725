SPECIFICATION Spec
CONSTANTS
    r1 = r1
    r2 = r2
    f1 = f1
    f2 = f2
    Records = {r1}
    Files = {f1}
    RecordOf <- OneFile
    Requests = {q1}
    Jobs = {j1}
    Beats = {b1}
    Operators = {o1}
    CliOps = {"stage", "archive", "clear_hot", "process_requests", "process_transfers"}
    CliOptions <- AllOptions
    CliLimits = {0, 1}
    Threshold = 1
    Faults = {"job_fails", "submit_fails", "poll_fails", "remove_fails", "job_canceled", "crash", "delete_record"}
    None = None
SYMMETRY IdSymmetry
INVARIANTS TypeOK NoDataLoss ColdIsOnTape JsonPromisesNoMore
PROPERTY TieredSpec
