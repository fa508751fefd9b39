SPECIFICATION Spec
CONSTANTS
    Nodes = {n1, noNode}
    Rates = {r1, r2}
    NoNode = noNode
    StartNode = n1
    StartRate = r1
    Refused = {r2}
    EntryCount = 2
    Values = {v0, v1}
    Default = v0
    Torn = Torn
    Missing = Missing
    None = None
PROPERTIES RegisterSpec StartIsHonest
