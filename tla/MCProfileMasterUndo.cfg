SPECIFICATION Spec
CONSTANTS
    Callers = {a, b}
    Timeout = 2
    MaxGap = 1
    MaxGen = 2
    PromptUndo = FALSE
    Nobody = Nobody
INVARIANT AdmissionCounts
CHECK_DEADLOCK FALSE
