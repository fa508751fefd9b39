---------------------------- MODULE SdoBlockTest -----------------------------
(***************************************************************************)
(* The DOMAIN behind object 16#2304 (demo/CO_demo_sdo_block.c), a buffer   *)
(* that an SDO download overwrites piece by piece and an upload reads.     *)
(* There is one buffer: a download that is aborted halfway has destroyed   *)
(* the payload before it.  The SDO server reaches it through a stream of   *)
(* its own, and so does the node's SDO client when it is told to transfer  *)
(* with its own node: their pieces can come in any order.                  *)
(*                                                                         *)
(* The bytes of a payload are told from those of another one by its        *)
(* content; two downloads may well bring the same.                         *)
(***************************************************************************)
EXTENDS Integers

CONSTANTS
    Size,                  \* CO_DEMO_SDO_BLOCK_MAX_PAYLOAD_SIZE
    Contents, BaseByte,    \* of payloads; CO_DEMO_SDO_BLOCK_BASELINE_BYTE
    Streams                \* the SDO server, the local SDO client

SdoBlockTestAssumption == Size \in Nat \ {0} /\ BaseByte \in Contents

VARIABLES
    data, validLength, writeInProgress,     \* CO_demo_sdo_block_t
    transfer,                               \* of each stream: "none", "upload", "download"
    dataOffset, dataLength,                 \* OD_stream_t
    content,        \* of the payload a stream downloads
    committed,      \* <<content, length>> of the payload committed last
    authors,        \* the streams that have written since the newest piece at offset 0
    uploaded        \* contents of the bytes a stream has read, in its newest upload and
                    \* since the newest piece was written

bufferVars == <<data, validLength, writeInProgress, committed, authors>>
streamVars == <<transfer, dataOffset, dataLength, content>>
vars == <<bufferVars, streamVars, uploaded>>

Lengths == 0 .. Size

Init ==
    /\ data = [i \in 1 .. Size |-> BaseByte] /\ validLength = 1 /\ writeInProgress = FALSE
    /\ transfer = [s \in Streams |-> "none"]
    /\ dataOffset = [s \in Streams |-> 0] /\ dataLength = [s \in Streams |-> 0]
    /\ content = [s \in Streams |-> BaseByte] /\ committed = <<BaseByte, 1>>
    /\ authors = {} /\ uploaded = [s \in Streams |-> {}]
-----------------------------------------------------------------------------
(* A stream is opened, for a download with the length the client announces *)
(* or 0 when it announces none.                                            *)
OpenUpload(s) ==
    /\ transfer[s] = "none" /\ transfer' = [transfer EXCEPT ![s] = "upload"]
    /\ uploaded' = [uploaded EXCEPT ![s] = {}]
    /\ UNCHANGED <<bufferVars, dataOffset, dataLength, content>>

OpenDownload(s, length) ==
    /\ transfer[s] = "none" /\ transfer' = [transfer EXCEPT ![s] = "download"]
    /\ dataLength' = [dataLength EXCEPT ![s] = length]
    /\ \E c \in Contents : content' = [content EXCEPT ![s] = c]
    /\ UNCHANGED <<bufferVars, dataOffset, uploaded>>

(* A transfer ends, and nothing of its stream is used again, or it is      *)
(* aborted between two pieces: timeout, client, CRC.                       *)
Close(s) ==
    /\ transfer' = [transfer EXCEPT ![s] = "none"]
    /\ dataOffset' = [dataOffset EXCEPT ![s] = 0] /\ dataLength' = [dataLength EXCEPT ![s] = 0]
    /\ content' = [content EXCEPT ![s] = BaseByte]

Abort(s) == transfer[s] # "none" /\ Close(s) /\ UNCHANGED <<bufferVars, uploaded>>
-----------------------------------------------------------------------------
AnyPayload(s) == validLength # 0 /\ dataOffset[s] <= validLength
Readable(s)   == ~writeInProgress /\ validLength # 0 /\ dataOffset[s] <= validLength

Smaller(m, n) == IF m < n THEN m ELSE n

(* One piece of an upload; the stream is closed after the last.            *)
Read(s, count) ==
    /\ transfer[s] = "upload"
    /\ IF Readable(s)
       THEN LET end == Smaller(dataOffset[s] + count, validLength)
            IN  /\ uploaded' = [uploaded EXCEPT ![s] = @ \cup {data[i] : i \in dataOffset[s] + 1 .. end}]
                /\ IF end < validLength
                   THEN /\ dataOffset' = [dataOffset EXCEPT ![s] = end]
                        /\ dataLength' = [dataLength EXCEPT ![s] = validLength]
                        /\ UNCHANGED <<transfer, content>>
                   ELSE Close(s)
       ELSE Close(s) /\ UNCHANGED uploaded
    /\ UNCHANGED bufferVars

Fits(s, count) ==
    /\ dataLength[s] <= Size /\ count <= Size - dataOffset[s]
    /\ dataLength[s] # 0 => dataOffset[s] + count <= dataLength[s]

Store(s, count) ==
    data' = [i \in 1 .. Size |-> IF i \in dataOffset[s] + 1 .. dataOffset[s] + count
                                 THEN content[s] ELSE data[i]]

(* The piece at offset 0 begins a transaction, whatever was left undone.   *)
Begins(s) == dataOffset[s] = 0

Complete(s, end) == dataLength[s] # 0 /\ end >= dataLength[s]

(* One piece of a download.  The length, if the client has not announced   *)
(* one, is told with the last piece.                                       *)
Write(s, count) ==
    /\ transfer[s] = "download"
    /\ IF ~Fits(s, count)
       THEN Close(s) /\ UNCHANGED <<bufferVars, uploaded>>
       ELSE LET end == dataOffset[s] + count
            IN  /\ Store(s, count)
                /\ authors' = IF Begins(s) THEN {s} ELSE authors \cup {s}
                /\ uploaded' = [t \in Streams |-> {}]
                /\ IF Complete(s, end)
                   THEN /\ validLength' = end /\ writeInProgress' = FALSE
                        /\ committed' = <<content[s], end>>
                        /\ Close(s)
                   ELSE /\ writeInProgress' = (writeInProgress \/ Begins(s))
                        /\ dataOffset' = [dataOffset EXCEPT ![s] = end]
                        /\ UNCHANGED <<validLength, committed, transfer, dataLength, content>>

TellLength(s) ==
    /\ transfer[s] = "download" /\ dataLength[s] = 0 /\ dataOffset[s] < Size
    /\ \E n \in 1 .. Size - dataOffset[s] : dataLength' = [dataLength EXCEPT ![s] = dataOffset[s] + n]
    /\ UNCHANGED <<bufferVars, transfer, dataOffset, content, uploaded>>

(* A communication reset drops the transfers; the bind replaces a payload  *)
(* that was left undone.                                                   *)
Reset ==
    /\ transfer' = [s \in Streams |-> "none"] /\ dataOffset' = [s \in Streams |-> 0]
    /\ dataLength' = [s \in Streams |-> 0] /\ content' = [s \in Streams |-> BaseByte]
    /\ IF writeInProgress
       THEN /\ data' = [data EXCEPT ![1] = BaseByte] /\ validLength' = 1 /\ writeInProgress' = FALSE
            /\ committed' = <<BaseByte, 1>> /\ authors' = {}
            /\ uploaded' = [s \in Streams |-> {}]
       ELSE UNCHANGED <<bufferVars, uploaded>>

Next ==
    \/ \E s \in Streams :
        \/ OpenUpload(s) \/ Abort(s) \/ TellLength(s)
        \/ \E length \in Lengths : OpenDownload(s, length)
        \/ \E count \in 1 .. Size : Read(s, count) \/ Write(s, count)
    \/ Reset

Spec == Init /\ [][Next]_vars
-----------------------------------------------------------------------------
TypeOK ==
    /\ data \in [1 .. Size -> Contents] /\ validLength \in Lengths /\ writeInProgress \in BOOLEAN
    /\ transfer \in [Streams -> {"none", "upload", "download"}]
    /\ dataOffset \in [Streams -> Lengths] /\ dataLength \in [Streams -> Lengths]
    /\ content \in [Streams -> Contents] /\ committed \in Contents \X Lengths
    /\ authors \subseteq Streams /\ uploaded \in [Streams -> SUBSET Contents]

IsCommitted ==
    validLength = committed[2] /\ \A i \in 1 .. validLength : data[i] = committed[1]

OneAuthor == \E s \in Streams : authors \subseteq {s}

(* As long as the pieces since the newest beginning of a download are of   *)
(* one stream, whatever was aborted, reset or announced before: outside of *)
(* a transaction the buffer holds the payload committed last, and what an  *)
(* upload reads between two pieces is of that payload.                     *)
UploadIsOnePayload ==
    OneAuthor =>
        /\ ~writeInProgress => IsCommitted
        /\ \A s \in Streams : uploaded[s] \subseteq {committed[1]}
=============================================================================
