SPECIFICATION Spec
CONSTANTS
    CyclicModes = {}
    ProfileModes = {pp}
    NoMode = NoMode
    Unsupported = Unsupported
    Faults = {f1, f2}
    NoFault = NoFault
INVARIANT
    EmcyBitKeepsMeaning
