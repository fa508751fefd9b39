SPECIFICATION FairSpec
CONSTANTS
    Goals = {"OPERATION_ENABLED", "QUICK_STOP_ACTIVE"}
    TransitionTimeout = 2
    FeedbackTimeout = 2
    MaxStep = 1
    MaxTime = 3
    Banks = {1, 2}
    AnyEdges = {1}
    RisingEdges = {2}
    FallingEdges = {}
    Raw = {0, 1, 2, 3}
    MinValue = 0
    MaxValue = 3
    Conditionings <- MCConditionings
    Triggers = {{"delta"}, {"upper", "negative"}}
    Upper = 3
    Lower = 0
    Delta = 1
    NegativeDelta = 0
    PositiveDelta = 0
    Outputs = {1, 2}
    ErrorMode <- MCErrorMode
    Params = {1, 2}
    NoMode = "none"
    Other = "other"
    Consoles = {"msh1", "msh2"}
    ShellCommands = {"devent", "pv", "status"}
    Nobody = "nobody"
    MaxNumber = 255
    Half = 31
    Ranges <- MCRanges
    MaxPosition = 2
    StatusBits = {12}
    ControlBits = {4}
INVARIANTS InputEventsLast OutputStateIsSafe RetriesAreAccounted MotionIsSafe ConsoleIsSafe
PROPERTIES ProductComesFirst EdgesAreReal ProfilesSettle
CHECK_DEADLOCK FALSE
