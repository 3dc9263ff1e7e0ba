SPECIFICATION Spec
CONSTANTS
    Messages = {m1}
    Trees = {t1, t2}
    Configured = {{"before_model", "before_tool", "work_batch_boundary"}, {"before_model"}}
    BatchLimit = 1
    MaxIterations = 2
    MaxInvocations = 2
    MaxCrashes = 1
    MaxEdits = 1
    ReplanAt = 1
    HumanAt = 2
INVARIANTS  StepKeysFresh AnsweredUntouched
CHECK_DEADLOCK FALSE
