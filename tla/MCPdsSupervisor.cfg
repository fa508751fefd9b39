SPECIFICATION Spec
CONSTANTS
    CyclicModes = {csp}
    ProfileModes = {pp}
    NoMode = NoMode
    Unsupported = Unsupported
    Faults = {f1, f2}
    NoFault = NoFault
INVARIANTS
    OwnershipIsClear
    FaultsAreCoherent
PROPERTY
    EdgesAreEarned
