SPECIFICATION Spec
CONSTANTS
    Messages = {m1}
    Trees = {t1, t2}
    Configured = {{"before_model", "before_tool", "work_batch_boundary"}}
    BatchLimit = 1
    MaxIterations = 2
    MaxInvocations = 2
    MaxCrashes = 0
    MaxEdits = 0
    ReplanAt = 1
    HumanAt = 2
INVARIANTS CompleteIsDurable
CHECK_DEADLOCK FALSE
