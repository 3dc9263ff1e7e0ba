SPECIFICATION FairSpec
CONSTANTS
    Messages = {m1, m2}
    Trees = {t1, t2}
    Configured = {{"work_batch_boundary"}, {"before_model", "before_tool", "work_batch_boundary"}}
    BatchLimit = 1
    MaxIterations = 2
    MaxInvocations = 1
    MaxCrashes = 0
    MaxEdits = 0
    ReplanAt = 1
    HumanAt = 2
PROPERTIES CompletionServesSteering ReviewedBeforeComplete InvocationEnds
CHECK_DEADLOCK FALSE
