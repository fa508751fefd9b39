----------------------------- MODULE SafetyTests -----------------------------
(***************************************************************************)
(* The test objects of the safety protocols: 16#2302 sends a Global        *)
(* Fail-safe Command (demo/CO_demo_gfc.c) and 16#2306 an SRDO              *)
(* (demo/CO_demo_srdo.c) each time a master writes another number to the   *)
(* request sequence; the number comes back as the complete sequence with   *)
(* the result.  A communication reset replaces the stack between two       *)
(* passes, and neither may send for the old one's master.                  *)
(*                                                                         *)
(* Both objects follow one protocol and differ at the edges: the SRDO one  *)
(* resets its result to "idle", restores its transmitted value when it is  *)
(* bound, and clears its numbers when the application starts.              *)
(***************************************************************************)
EXTENDS Integers

CONSTANTS
    MaxSeq          \* the request sequence counts modulo MaxSeq + 1

SafetyTestsAssumption == MaxSeq \in Nat \ {0}

Tests == {"gfc", "srdo"}
Seqs == 0 .. MaxSeq
Results == {"ok", "refused"}
States == {"unknown", "stopped", "running"}

VARIABLES
    stage,          \* "running", "reset" (after CO_demo_reset) or "rebuilt" (a new stack, not bound)
    requestSeq,     \* [Tests -> the sequence a master wrote]
    completeSeq,    \* [Tests -> the sequence answered]
    result,         \* [Tests -> the result published]
    owed,           \* [Tests -> the request was written to this stack and waits]
    lastSent,       \* what the pass before sent, and whether the running stack owed it
    rxState, txState,       \* the states of the two SRDOs
    published, stateChanged,\* the states in 16#2306, and whether the pass before counted a change
    txPair          \* the transmitted value and its inverse are a pair

vars == <<stage, requestSeq, completeSeq, result, owed, lastSent, rxState, txState, published,
          stateChanged, txPair>>

Unknown == <<"unknown", "unknown">>
Nothing == [t \in Tests |-> "nothing"]

Init ==
    /\ stage = "running"
    /\ requestSeq = [t \in Tests |-> 0] /\ completeSeq = [t \in Tests |-> 0]
    /\ result = [t \in Tests |-> IF t = "gfc" THEN "ok" ELSE "idle"]
    /\ owed = [t \in Tests |-> FALSE] /\ lastSent = Nothing
    /\ rxState = "unknown" /\ txState = "unknown"
    /\ published = Unknown /\ stateChanged = FALSE
    /\ txPair = TRUE

requests == <<requestSeq, completeSeq, result, owed>>
srdo == <<rxState, txState, published, stateChanged, txPair>>
-----------------------------------------------------------------------------
(* A master writes a request, through the SDO server of the stack.         *)
Request(t, seq) ==
    /\ stage = "running" /\ seq # requestSeq[t]
    /\ requestSeq' = [requestSeq EXCEPT ![t] = seq]
    /\ owed' = [owed EXCEPT ![t] = seq # completeSeq[t]]
    /\ lastSent' = Nothing
    /\ UNCHANGED <<stage, completeSeq, result, srdo>>

(* A fault test spoils the transmitted value of the SRDO.                  *)
SpoilValue ==
    /\ stage = "running"
    /\ txPair' = FALSE
    /\ lastSent' = Nothing
    /\ UNCHANGED <<stage, requests, rxState, txState, published, stateChanged>>

(* The safety protocol moves on, under the OD lock.                        *)
SrdoMoves ==
    /\ stage = "running"
    /\ \E rx, tx \in States \ {"unknown"} : rxState' = rx /\ txState' = tx
    /\ lastSent' = Nothing
    /\ UNCHANGED <<stage, requests, published, stateChanged, txPair>>
-----------------------------------------------------------------------------
(* One pass of co_main over both objects.  Each sends at most one frame.   *)
Pending(t) == requestSeq[t] # completeSeq[t]

Answer(answer) ==
    /\ result' = [t \in Tests |-> IF Pending(t) THEN answer[t] ELSE result[t]]
    /\ completeSeq' = requestSeq
    /\ lastSent' = [t \in Tests |-> IF ~Pending(t) THEN "nothing"
                                    ELSE IF owed[t] THEN "owed" ELSE "stale"]
    /\ owed' = [t \in Tests |-> FALSE]

PublishStates ==
    /\ stateChanged' = (published # <<rxState, txState>>)
    /\ published' = <<rxState, txState>>

Process(answer) ==
    /\ stage = "running"
    /\ Answer(answer)
    /\ PublishStates
    /\ UNCHANGED <<stage, requestSeq, rxState, txState, txPair>>

(* The request that belonged to the old stack is consumed unanswered: once *)
(* when the reset is announced and again when the new stack is bound.      *)
LeaveRequests == UNCHANGED completeSeq
ConsumeRequests == completeSeq' = requestSeq

SrdoIdle == result' = [result EXCEPT !["srdo"] = "idle"]

Reset ==
    /\ stage = "running"
    /\ stage' = "reset"
    /\ ConsumeRequests /\ SrdoIdle
    /\ owed' = [t \in Tests |-> FALSE] /\ lastSent' = Nothing
    /\ published' = Unknown /\ stateChanged' = FALSE
    /\ UNCHANGED <<requestSeq, rxState, txState, txPair>>

Rebuild ==
    /\ stage = "reset"
    /\ stage' = "rebuilt"
    /\ rxState' = "unknown" /\ txState' = "unknown"
    /\ lastSent' = Nothing
    /\ UNCHANGED <<requests, published, stateChanged, txPair>>

OldValue == UNCHANGED txPair
RestoreValue == txPair' = TRUE

Bind ==
    /\ stage = "rebuilt"
    /\ stage' = "running"
    /\ ConsumeRequests /\ SrdoIdle
    /\ RestoreValue
    /\ owed' = [t \in Tests |-> FALSE] /\ lastSent' = Nothing
    /\ UNCHANGED <<requestSeq, rxState, txState, published, stateChanged>>

(* The application starts again: the GFC object consumes what is in the    *)
(* OD, the SRDO one clears its numbers; the bind of the first stack        *)
(* follows.                                                                *)
Restart ==
    /\ stage = "reset"
    /\ stage' = "rebuilt"
    /\ requestSeq' = [requestSeq EXCEPT !["srdo"] = 0]
    /\ completeSeq' = [t \in Tests |-> IF t = "gfc" THEN requestSeq["gfc"] ELSE 0]
    /\ result' = [t \in Tests |-> IF t = "gfc" THEN "ok" ELSE "idle"]
    /\ rxState' = "unknown" /\ txState' = "unknown" /\ published' = Unknown
    /\ stateChanged' = FALSE /\ txPair' = TRUE
    /\ lastSent' = Nothing
    /\ UNCHANGED owed

Next ==
    \/ \E t \in Tests, seq \in Seqs : Request(t, seq)
    \/ SpoilValue
    \/ SrdoMoves
    \/ \E answer \in [Tests -> Results] : Process(answer)
    \/ Reset \/ Rebuild \/ Bind \/ Restart

Spec == Init /\ [][Next]_vars
-----------------------------------------------------------------------------
TypeOK ==
    /\ stage \in {"running", "reset", "rebuilt"}
    /\ requestSeq \in [Tests -> Seqs] /\ completeSeq \in [Tests -> Seqs]
    /\ result \in [Tests -> Results \cup {"idle"}]
    /\ owed \in [Tests -> BOOLEAN] /\ lastSent \in [Tests -> {"nothing", "owed", "stale"}]
    /\ rxState \in States /\ txState \in States /\ published \in States \X States
    /\ stateChanged \in BOOLEAN /\ txPair \in BOOLEAN

(* "Suppress stale producer requests across communication reset"           *)
(* (CO_demo_gfc.c:61): a stack sends no fail-safe command and no SRDO for  *)
(* a request that was written to the stack before it, or to none, and      *)
(* loses none that was written to it.                                      *)
NothingStaleIsSent ==
    /\ TypeOK
    /\ \A t \in Tests : lastSent[t] # "stale"
    /\ \A t \in Tests : owed[t] => Pending(t)

(* A fresh stack transmits a sound pair, and shows no result of the stack  *)
(* before it: "idle" says that it has answered nothing.                    *)
FreshSrdo == [][stage = "rebuilt" /\ stage' = "running" =>
                txPair' /\ result'["srdo"] = "idle" /\ ~Pending("srdo")']_vars
=============================================================================
