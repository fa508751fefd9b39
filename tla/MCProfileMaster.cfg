SPECIFICATION Spec
CONSTANTS
    Callers = {a, b}
    Timeout = 2
    MaxGap = 1
    MaxGen = 2
    PromptUndo = TRUE
    Nobody = Nobody
INVARIANTS MasterIsSafe
PROPERTIES TimeoutIsFull CallsReturn CallSpec
CHECK_DEADLOCK FALSE
