SPECIFICATION FairSpec
CONSTANTS
  Ext = {e1, e2}
  Requesters = {r1}
  SemMax = 2
  MaxGen = 3
INVARIANTS ObjectsOutliveUse WakeNotLatched FreshBaseline
PROPERTIES QuiescedAfterDrain PinSpec DrainSpec ResetIsLive
