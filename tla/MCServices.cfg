SPECIFICATION FairSpec
CONSTANTS
    Batch = 2
    FifoMax = 3
    SemMax = 2
    MaxSize = 6
    Page = 2
    Values = {0, 255}
    Zero = 0
    FF = 255
    Length = 2
    Timeout = 1
    MaxGap = 1
    Payload = 3
    Chunk = 2
    Fifo = 3
    SdoMaxSeq = 2
    Cells = 2
    MaxLength = 2
    NoBackup = NoBackup
    Words = 2
    MaxMessages = 3
    MaxRetries = 3
    SafetyMaxSeq = 1
    Size = 2
    Contents = {base, one}
    BaseByte = base
    Streams = {server, client}
INVARIANTS RxPathIsSafe StorageIsSafe TestsAreSound 
PROPERTIES DrainSpec TestsStartClean ServicesSettle
CHECK_DEADLOCK FALSE
