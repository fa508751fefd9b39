---------------------------- MODULE SdoClientTest ----------------------------
(***************************************************************************)
(* CO_demo_sdo_client.c: a client of the node writes a request to 16#2303, *)
(* commits it with a new request_seq, and polls complete_seq; the node     *)
(* carries it out against another node, one step in every pass of co_main. *)
(* The client does not wait for the end of a request before it commits the *)
(* next one, and communication resets come at any time.                    *)
(*                                                                         *)
(* The SDO client object and its FIFO are CANopenNode's.  It says how many *)
(* bytes the other node has served, and how many that node announced; what *)
(* the other node does is its own affair: it ends a transfer when it likes *)
(* and announces what it likes.                                            *)
(***************************************************************************)
EXTENDS Naturals

CONSTANTS
    Payload,   \* bytes of a transfer
    Chunk,     \* CO_DEMO_SDO_CLIENT_CHUNK_SIZE
    Fifo,      \* bytes the FIFO of the SDO client takes
    MaxSeq     \* bound: requests of a behaviour

SdoClientTestAssumption ==
    Payload \in Nat \ {0} /\ Chunk \in Nat \ {0} /\ Fifo \in Nat \ {0} /\ MaxSeq \in Nat

(* A request: what is transferred, or why it cannot be.                    *)
Kinds == {"upload", "download", "unsupported", "noNode"}

VARIABLES
    requestSeq, request,      \* 16#2303: request_seq and what comes with it
    lastConsumed, activeSeq, completeSeq, result,
    latched,                  \* the request being carried out
    running,                  \* demo->phase is not IDLE
    byteOffset,               \* bytes put into the FIFO or taken from it
    inFifo, atServer,         \* bytes in the FIFO; sizeTransferred, served by the other node
    announced,                \* sizeIndicated of an upload, 0 when the other node gives none
    published,                \* active_seq, complete_seq, result of 16#2303
    stage,                    \* "pass", "first" within a pass, "reset", "bind"
    generation, committedIn,  \* of the stack: now, and when request_seq was written
    startedIn                 \* and of the request carried out last

requestVars == <<requestSeq, request, committedIn>>
seqVars     == <<lastConsumed, activeSeq, completeSeq, result, latched, running>>
moveVars    == <<byteOffset, inFifo, atServer, announced>>
seenVars    == <<published, startedIn>>
vars == <<requestVars, seqVars, moveVars, seenVars, stage, generation>>

Least(a, b) == IF a < b THEN a ELSE b

(* CO_demo_sdo_client_publish(), the last call of every handler            *)
Publish == published' = [active |-> activeSeq', complete |-> completeSeq', result |-> result']

(* CO_demo_sdo_client_init() *)
Init ==
    /\ requestSeq = 0 /\ request \in Kinds /\ committedIn = 0
    /\ lastConsumed = 0 /\ activeSeq = 0 /\ completeSeq = 0 /\ result = "NONE"
    /\ latched = request /\ running = FALSE
    /\ byteOffset = 0 /\ inFifo = 0 /\ atServer = 0 /\ announced = 0
    /\ published = [active |-> 0, complete |-> 0, result |-> "NONE"]
    /\ stage = "bind" /\ generation = 0 /\ startedIn = 0

(* The client writes the fields, in as many SDO transfers as it takes, and *)
(* then request_seq.                                                       *)
WriteField ==
    /\ stage = "pass"
    /\ request' \in Kinds
    /\ UNCHANGED <<requestSeq, committedIn, seqVars, moveVars, seenVars, stage, generation>>

Commit ==
    /\ stage = "pass" /\ requestSeq < MaxSeq
    /\ requestSeq' = requestSeq + 1 /\ committedIn' = generation
    /\ UNCHANGED <<request, seqVars, moveVars, seenVars, stage, generation>>

-----------------------------------------------------------------------------
(* CO_demo_sdo_client_finish() *)
Finish(outcome) == running' = FALSE /\ result' = outcome /\ completeSeq' = activeSeq'

(* CO_demo_sdo_client_latch_request() and CO_demo_sdo_client_start(); the  *)
(* first step of the transfer follows in the same pass.                    *)
Latch ==
    /\ stage = "pass" /\ ~running /\ requestSeq # lastConsumed
    /\ lastConsumed' = requestSeq /\ activeSeq' = requestSeq
    /\ latched' = request /\ startedIn' = committedIn
    /\ byteOffset' = 0 /\ inFifo' = 0 /\ atServer' = 0
    /\ announced' \in (IF request = "upload" THEN 0 .. Payload ELSE {0})
    /\ \/ request = "unsupported" /\ Finish("UNSUPPORTED")
       \/ request # "unsupported" /\ Finish("SETUP_ERROR")
       \/ /\ request \in {"upload", "download"}
          /\ running' = TRUE /\ result' = "NONE" /\ UNCHANGED completeSeq
    /\ stage' = IF running' THEN "first" ELSE "pass"
    /\ Publish
    /\ UNCHANGED <<requestVars, generation>>

(* A transfer that goes on, or fails: CO_demo_sdo_client_finish_process_error()*)
GoesOn == UNCHANGED <<running, result, completeSeq>>
Breaks == Finish("ABORT") \/ Finish("TIMEOUT")

Working(kind) ==
    /\ stage \in {"pass", "first"} /\ stage' = "pass"
    /\ running /\ latched = kind
    /\ UNCHANGED <<requestVars, lastConsumed, activeSeq, latched, startedIn, generation>>

(* CO_demo_sdo_client_drain_upload(): chunks are read until one is not     *)
(* full.  The first form reads one.                                        *)
FirstChunk(bytes) == Least(bytes, Chunk)
Drained(bytes)    == bytes

(* CO_demo_sdo_client_process_upload(): the FIFO is drained after every    *)
(* step of the transfer, unless a block is under way.  When the other node *)
(* says it is over, what was read is compared with what it has served and, *)
(* if it announced a size, with that.                                      *)
UploadFits == byteOffset' = atServer' /\ (announced # 0 => byteOffset' = announced)

UploadStep ==
    /\ Working("upload") /\ UNCHANGED announced
    /\ \E bytes \in 0 .. Least(Fifo - inFifo, Payload - atServer), block \in BOOLEAN :
        LET there == inFifo + bytes
        IN /\ atServer' = atServer + bytes
           /\ \/ block /\ inFifo' = there /\ UNCHANGED byteOffset /\ GoesOn
              \/ /\ ~block
                 /\ byteOffset' = byteOffset + Drained(there)
                 /\ inFifo' = there - Drained(there)
                 /\ \/ GoesOn
                    \/ Breaks
                    \/ Finish(IF UploadFits THEN "SUCCESS" ELSE "INTERNAL_ERROR")
    /\ Publish

(* CO_demo_sdo_client_process_download(): a chunk goes into the FIFO as    *)
(* far as there is room (CO_demo_sdo_client_fill_download()), and from     *)
(* there to the other node.  At the end both counts are compared with the  *)
(* payload.                                                                *)
DownloadFits == byteOffset' = Payload /\ atServer' = Payload

DownloadStep ==
    /\ Working("download") /\ UNCHANGED announced
    /\ LET added == Least(Least(Payload - byteOffset, Chunk), Fifo - inFifo)
       IN /\ byteOffset' = byteOffset + added
          /\ \E bytes \in 0 .. inFifo + added :
              /\ atServer' = atServer + bytes
              /\ inFifo' = inFifo + added - bytes
    /\ \/ GoesOn
       \/ Breaks
       \/ Finish(IF DownloadFits THEN "SUCCESS" ELSE "INTERNAL_ERROR")
    /\ Publish

-----------------------------------------------------------------------------
(* A reset: the last pass closes the transfer, CO_demo_sdo_client_reset()  *)
(* and ..._bind() consume what has been committed since.                   *)
Replay  == lastConsumed
Consume == requestSeq

Cancel ==
    /\ UNCHANGED activeSeq
    /\ IF running THEN Finish("RESET_CANCELLED") ELSE GoesOn

ResetPass ==
    /\ stage = "pass" /\ stage' = "reset"
    /\ Cancel /\ lastConsumed' = Consume
    /\ Publish
    /\ UNCHANGED <<requestVars, latched, moveVars, startedIn, generation>>

Reset ==
    /\ stage \in {"pass", "reset"} /\ stage' = "bind"
    /\ Cancel /\ lastConsumed' = Consume
    /\ Publish
    /\ generation' = 1 - generation
    /\ UNCHANGED <<requestVars, latched, moveVars, startedIn>>

Bind ==
    /\ stage = "bind" /\ stage' = "pass"
    /\ running' = FALSE /\ lastConsumed' = Consume
    /\ UNCHANGED <<requestVars, activeSeq, completeSeq, result, latched, moveVars, startedIn,
                   generation>>
    /\ Publish

Next ==
    \/ WriteField \/ Commit
    \/ Latch \/ UploadStep \/ DownloadStep
    \/ ResetPass \/ Reset \/ Bind

Spec == Init /\ [][Next]_vars
-----------------------------------------------------------------------------
(* What the two ends have moved, and what they were to move.               *)
Agreed ==
    \/ latched = "upload" /\ announced \in {0, atServer}
    \/ latched = "download" /\ atServer = Payload

(* A client that finds its request complete reads that request's result,   *)
(* never that of an earlier one.  SUCCESS means that no byte is left on    *)
(* the way and that the other node has moved what was to be moved; an      *)
(* INTERNAL_ERROR is the other node's, never made here by bytes left       *)
(* behind.                                                                 *)
ResultIsOwn ==
    published.complete = requestSeq =>
        /\ published.active = requestSeq /\ ~running
        /\ published.result = "SUCCESS" => inFifo = 0 /\ byteOffset = atServer /\ Agreed
        /\ published.result = "INTERNAL_ERROR" => ~Agreed
        /\ published.result = "UNSUPPORTED" => latched = "unsupported"

(* A request committed to a stack is not carried out by the next one.      *)
NoReplay == running => startedIn = generation

SdoTestIsSound == ResultIsOwn /\ NoReplay
=============================================================================
