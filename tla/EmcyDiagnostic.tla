--------------------------- MODULE EmcyDiagnostic ---------------------------
(***************************************************************************)
(* The EMCY consumer diagnostic (demo/CO_demo_emcy_consumer.c): the CAN    *)
(* receive thread records the newest remote emergency message in a handful *)
(* of atomic words, and co_main copies them to object 16#2301.  No lock is *)
(* held: a sequence number, odd while a message is being recorded, tells   *)
(* the reader whether its copy is of one message.                          *)
(*                                                                         *)
(* Messages are numbered, and a word holds the number of the message it    *)
(* was stored for.                                                         *)
(***************************************************************************)
EXTENDS Integers

CONSTANTS
    Words,          \* how many words a message takes
    MaxMessages,    \* bound on the messages of one lifetime
    MaxRetries      \* CO_DEMO_EMCY_SNAPSHOT_RETRY_MAX

EmcyDiagnosticAssumption == Words \in Nat \ {0} /\ MaxMessages \in Nat /\ MaxRetries \in Nat \ {0}

VARIABLES
    sequence, word,     \* the atomics of CO_demo_emcy_consumer_t
    recording,          \* [Threads -> the next word to store, 0 outside the callback]
    message,            \* [Threads -> the message that thread is recording]
    messages,           \* remote messages received so far
    receiving,          \* the receive thread runs and the callback has an owner
    attempt, before,    \* the snapshot's loop counter and first sequence
    reading, copy,      \* the next word to copy and the copies; 0 outside a pass
    shown               \* object 16#2301

vars == <<sequence, word, recording, message, messages, receiving, attempt, before, reading, copy,
          shown>>

Threads == {"co_rx", "co_main"}
WordIds == 1 .. Words
Nothing == [w \in WordIds |-> 0]

Init ==
    /\ sequence = 0 /\ word = Nothing
    /\ recording = [t \in Threads |-> 0] /\ message = [t \in Threads |-> 0]
    /\ messages = 0 /\ receiving = TRUE
    /\ attempt = 0 /\ before = 0 /\ reading = 0 /\ copy = Nothing
    /\ shown = Nothing

MainIdle == reading = 0 /\ attempt = 0 /\ recording["co_main"] = 0
-----------------------------------------------------------------------------
(* The callback: CANopenNode calls it from the receive thread for a remote *)
(* message, and from co_main with ident 0 for an error of this node.       *)
AllRecorded(ident) == ident \in 0 .. 1
Recorded(ident) == ident # 0

Callback(t, ident) ==
    /\ recording[t] = 0 /\ messages < MaxMessages
    /\ IF Recorded(ident)
       THEN /\ sequence' = sequence + 1
            /\ recording' = [recording EXCEPT ![t] = 1]
            /\ messages' = messages + 1
            /\ message' = [message EXCEPT ![t] = messages + 1]
       ELSE UNCHANGED <<sequence, recording, messages, message>>
    /\ UNCHANGED <<word, receiving, attempt, before, reading, copy, shown>>

RemoteEmcy == receiving /\ Callback("co_rx", 1)
LocalEmcy == receiving /\ MainIdle /\ Callback("co_main", 0)

StoreWord(t) ==
    /\ recording[t] \in WordIds
    /\ word' = [word EXCEPT ![recording[t]] = message[t]]
    /\ recording' = [recording EXCEPT ![t] = @ + 1]
    /\ UNCHANGED <<sequence, message, messages, receiving, attempt, before, reading, copy, shown>>

EndRecording(t) ==
    /\ recording[t] = Words + 1
    /\ sequence' = sequence + 1
    /\ recording' = [recording EXCEPT ![t] = 0]
    /\ UNCHANGED <<word, message, messages, receiving, attempt, before, reading, copy, shown>>
-----------------------------------------------------------------------------
(* The pass of co_main.                                                    *)
Even(n) == n % 2 = 0

BeginSnapshot ==
    /\ MainIdle /\ receiving
    /\ attempt' = 1
    /\ UNCHANGED <<sequence, word, recording, message, messages, receiving, before, reading, copy,
                   shown>>

(* One more attempt, or the pass leaves the object as it is.               *)
Again == attempt' = IF attempt < MaxRetries THEN attempt + 1 ELSE 0

ReadBefore ==
    /\ attempt > 0 /\ reading = 0
    /\ before' = sequence
    /\ IF Even(sequence) THEN reading' = 1 /\ UNCHANGED attempt ELSE Again /\ UNCHANGED reading
    /\ UNCHANGED <<sequence, word, recording, message, messages, receiving, copy, shown>>

CopyWord ==
    /\ reading \in WordIds
    /\ copy' = [copy EXCEPT ![reading] = word[reading]]
    /\ reading' = reading + 1
    /\ UNCHANGED <<sequence, word, recording, message, messages, receiving, attempt, before, shown>>

EvenIsEnough(s) == Even(s)
Stable(s) == before = s /\ Even(s)

ReadAfter ==
    /\ reading = Words + 1
    /\ reading' = 0
    /\ IF Stable(sequence) THEN shown' = copy /\ attempt' = 0 ELSE Again /\ UNCHANGED shown
    /\ UNCHANGED <<sequence, word, recording, message, messages, receiving, before, copy>>
-----------------------------------------------------------------------------
(* A communication reset joins the receive thread; the bind of the new     *)
(* stack, which runs before its receive thread, keeps the record.          *)
StopReceiving ==
    /\ receiving /\ MainIdle /\ recording["co_rx"] = 0
    /\ receiving' = FALSE
    /\ UNCHANGED <<sequence, word, recording, message, messages, attempt, before, reading, copy, shown>>

Bind ==
    /\ ~receiving /\ MainIdle
    /\ receiving' = TRUE
    /\ shown' = word
    /\ UNCHANGED <<sequence, word, recording, message, messages, attempt, before, reading, copy>>

(* The application starts anew: init() clears the record.                  *)
InitAgain ==
    /\ ~receiving /\ MainIdle
    /\ sequence' = 0 /\ word' = Nothing /\ messages' = 0
    /\ UNCHANGED <<recording, message, receiving, attempt, before, reading, copy, shown>>

Pass == BeginSnapshot \/ ReadBefore \/ CopyWord \/ ReadAfter
Record(t) == StoreWord(t) \/ EndRecording(t)

Next ==
    \/ RemoteEmcy \/ LocalEmcy
    \/ \E t \in Threads : Record(t)
    \/ Pass
    \/ StopReceiving \/ Bind \/ InitAgain

(* Both threads get to run and a reset ends with a bind; messages need not *)
(* come.                                                                   *)
Fairness ==
    /\ \A t \in Threads : WF_vars(Record(t))
    /\ WF_vars(Pass)
    /\ WF_vars(Bind)

Spec == Init /\ [][Next]_vars
FairSpec == Spec /\ Fairness
-----------------------------------------------------------------------------
TypeOK ==
    /\ sequence \in 0 .. 2 * MaxMessages /\ messages \in 0 .. MaxMessages
    /\ word \in [WordIds -> 0 .. MaxMessages] /\ copy \in [WordIds -> 0 .. MaxMessages]
    /\ shown \in [WordIds -> 0 .. MaxMessages]
    /\ recording \in [Threads -> 0 .. Words + 1] /\ message \in [Threads -> 0 .. MaxMessages]
    /\ receiving \in BOOLEAN
    /\ attempt \in 0 .. MaxRetries /\ before \in 0 .. 2 * MaxMessages /\ reading \in 0 .. Words + 1

(* "The odd/even sequence protects the multi-field snapshot from being     *)
(* published across two different frames" (CO_demo_emcy_consumer.c:33):    *)
(* whatever the receive thread records while co_main copies, object        *)
(* 16#2301 shows the words of one message.                                 *)
ShownIsOneMessage == TypeOK /\ \A v, w \in WordIds : shown[v] = shown[w]

(* A pass that met the receive thread at work leaves an older message in   *)
(* the object, but not for ever: once messages cease the last is shown.    *)
LastRecorded  == messages = MaxMessages /\ recording["co_rx"] = 0
LastShown     == shown = [w \in WordIds |-> MaxMessages] \/ messages < MaxMessages
NewestIsShown == LastRecorded ~> LastShown
=============================================================================
