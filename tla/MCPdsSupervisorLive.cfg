SPECIFICATION FairSpec
CONSTANTS
    CyclicModes = {}
    ProfileModes = {pp}
    NoMode = NoMode
    Unsupported = Unsupported
    Faults = {f1}
    NoFault = NoFault
PROPERTY
    AxisComesToRest
