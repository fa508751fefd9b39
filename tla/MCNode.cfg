SPECIFICATION FairSpec
CONSTANTS
    Manual = {"m1", "m2"}
    Automatic = {"a1", "a2"}
    Binders = {"m1", "a1", "a2"}
    Orders = {1, 2}
    SlotCount = 3
    Products <- MCProducts
    MaxForeign = 1
    MaxCount = 11
    TickLength = 2
    MaxWait = 5
    CompatPoll = 3
    MaxBusy = 1
    TimeInterval = 4
    Natives = {0, 5, 11}
    LssDelays <- MCLssDelays
    Width = 3
    SlotRules <- MCSlotRules
    BankCount = 2
    Configurers = {"co_main", "other"}
    Main = "co_main"
    Nobody = "nobody"
    NoRule = NoRule
    Buffers = {"pdo"}
    SyncBuffers = {"pdo"}
    Directions = {"tx"}
    Span = 4
    SendErrors = {256}
    ReceiveErrors = {0}
    Unregistered = "none"
INVARIANTS StartIsSound MainlineIsSafe DriverIsSafe
PROPERTIES StartIsUndone FilterCatchesUp
CHECK_DEADLOCK FALSE
