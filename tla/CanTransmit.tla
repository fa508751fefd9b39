---------------------------- MODULE CanTransmit ----------------------------
(***************************************************************************)
(* Transmit and status of the CAN driver (CO_driver_rtthread.c):           *)
(* CO_CANsend() with its blocking write between two critical sections of   *)
(* CO_LOCK_CAN_SEND, the transmit-success observer of the CiA 401 adapter, *)
(* CO_CANclearPendingSyncPDOs(), and CO_CANmodule_process(), which turns   *)
(* one-shot events, error counters and drop counters into CANerrorStatus.  *)
(***************************************************************************)
EXTENDS Naturals

CONSTANTS
    Buffers, SyncBuffers,   \* transmit buffers, those with syncFlag
    Directions,             \* "rx", "tx": the drop counters that are compared
    Span,                   \* 2^32, the range of a drop counter
    SendErrors, ReceiveErrors,  \* error counters the controller may report
    Unregistered

Threads == {"co_main", "co_rt"}

TransmitAssumption ==
    /\ SyncBuffers \subseteq Buffers /\ Directions \subseteq {"rx", "tx"}
    /\ Span \in Nat /\ Span > 2 /\ Span % 2 = 0
    /\ SendErrors \subseteq Nat /\ ReceiveErrors \subseteq Nat

VARIABLES
    txEnabled,  \* the gate
    full,       \* bufferFull, only ever set by code outside this port
    events,     \* CANtxEventStatus
    status,     \* CANerrorStatus
    sendLock,   \* holder of the CAN send mutex
    where,      \* where each thread is
    buffer,     \* the buffer it sends
    captured,   \* the observer it has captured
    observer,   \* txSuccessCallback with its object, Unregistered without
    ready,      \* communicationReady of the observing runtime
    snapshot,   \* tx_event_status of a poll
    drops,      \* drop counters of the device
    dropsOld,   \* rxDropOld, txDropOld
    unreported, \* history: events no successful poll has reported
    lost        \* history: frames dropped since the last successful poll

vars == <<txEnabled, full, events, status, sendLock, where, buffer, captured, observer, ready,
          snapshot, drops, dropsOld, unreported, lost>>
threadVars == <<where, buffer, captured>>
pollVars == <<status, snapshot, dropsOld>>
deviceVars == <<drops, lost>>

Runtime == "runtime"
Free == "free"

(* The driver compares from zero, the device counts on over a reset of the *)
(* communication.                                                          *)
Init ==
    /\ txEnabled = TRUE /\ full = [b \in Buffers |-> FALSE]
    /\ events = {} /\ status = {} /\ snapshot = {} /\ unreported = {}
    /\ sendLock = Free
    /\ where = [t \in Threads |-> "idle"]
    /\ buffer \in [Threads -> Buffers]
    /\ captured = [t \in Threads |-> Unregistered]
    /\ observer = Unregistered /\ ready = FALSE
    /\ dropsOld = [d \in Directions |-> 0]
    /\ drops \in [Directions -> 0 .. Span \div 2 - 1] /\ lost = drops

Goto(t, label) == where' = [where EXCEPT ![t] = label]
Raise(new) == events' = events \cup new /\ unreported' = unreported \cup new

-----------------------------------------------------------------------------
(* CO_CANsend(): suppressed sends succeed and tell nobody.                 *)
Send(t, b) ==
    /\ where[t] = "idle"
    /\ buffer' = [buffer EXCEPT ![t] = b]
    /\ Goto(t, IF txEnabled THEN "first" ELSE "idle")
    /\ UNCHANGED <<txEnabled, full, events, sendLock, captured, observer, ready, unreported>>
    /\ UNCHANGED <<pollVars, deviceVars>>

RefuseFull(t) ==
    /\ where[t] = "first" /\ sendLock = Free
    /\ IF full[buffer[t]]
       THEN Raise({"txOverflow"}) /\ Goto(t, "idle")
       ELSE Goto(t, "submit") /\ UNCHANGED <<events, unreported>>
    /\ UNCHANGED <<txEnabled, full, sendLock, buffer, captured, observer, ready>>
    /\ UNCHANGED <<pollVars, deviceVars>>

(* co_rtt_submit_msg() blocks without the lock.                            *)
Submit(t, done) ==
    /\ where[t] = "submit"
    /\ Goto(t, IF done THEN "sent" ELSE "failed")
    /\ UNCHANGED <<txEnabled, full, events, sendLock, buffer, captured, observer, ready, unreported>>
    /\ UNCHANGED <<pollVars, deviceVars>>

Finish(t) ==
    /\ where[t] \in {"sent", "failed"} /\ sendLock = Free
    /\ IF where[t] = "failed"
       THEN Raise({"txOverflow"}) /\ Goto(t, "idle") /\ UNCHANGED captured
       ELSE /\ captured' = [captured EXCEPT ![t] = observer]
            /\ Goto(t, IF observer = Unregistered THEN "idle" ELSE "notify")
            /\ UNCHANGED <<events, unreported>>
    /\ UNCHANGED <<txEnabled, full, sendLock, buffer, observer, ready>>
    /\ UNCHANGED <<pollVars, deviceVars>>

Notify(t) ==    \* the observer runs after the lock is released
    /\ where[t] = "notify"
    /\ captured' = [captured EXCEPT ![t] = Unregistered]
    /\ Goto(t, "idle")
    /\ UNCHANGED <<txEnabled, full, events, sendLock, buffer, observer, ready, unreported>>
    /\ UNCHANGED <<pollVars, deviceVars>>

-----------------------------------------------------------------------------
(* onReady() and onStop() of the adapter run in co_main with               *)
(* lifecycleMutex, which co_rt keeps for as long as its pass sends.        *)
MainQuiet == where["co_main"] = "idle"
Quiet == \A t \in Threads : where[t] = "idle"

Ready ==
    /\ Quiet /\ ~ready /\ sendLock = Free
    /\ observer' = Runtime /\ ready' = TRUE
    /\ UNCHANGED <<txEnabled, full, events, sendLock, threadVars, unreported, pollVars, deviceVars>>

Stop ==
    /\ Quiet /\ ready /\ sendLock = Free
    /\ ready' = FALSE /\ observer' = Unregistered
    /\ UNCHANGED <<txEnabled, full, events, sendLock, threadVars, unreported, pollVars, deviceVars>>

Gate ==         \* CO_RTT_CANsetTxEnabled(), by the LSS bitrate switch
    /\ where["co_main"] = "idle"
    /\ txEnabled' = ~txEnabled
    /\ UNCHANGED <<full, events, sendLock, threadVars, observer, ready, unreported, pollVars, deviceVars>>

(* CO_CANclearPendingSyncPDOs(), by co_rt at the end of the SYNC window.   *)
ClearPendingSyncPDOs ==
    LET late == {b \in SyncBuffers : full[b]} IN
    /\ where["co_rt"] = "idle" /\ sendLock = Free
    /\ full' = [b \in Buffers |-> full[b] /\ b \notin late]
    /\ Raise(IF late # {} THEN {"pdoLate"} ELSE {})
    /\ UNCHANGED <<txEnabled, sendLock, threadVars, observer, ready, pollVars, deviceVars>>

Filled(b) ==    \* by code outside this port
    /\ ~full[b] /\ full' = [full EXCEPT ![b] = TRUE]
    /\ UNCHANGED <<txEnabled, events, sendLock, threadVars, observer, ready, unreported>>
    /\ UNCHANGED <<pollVars, deviceVars>>

Refill(b) ==    \* CO_CANtxBufferInit()
    /\ Quiet
    /\ full' = [full EXCEPT ![b] = FALSE]
    /\ UNCHANGED <<txEnabled, events, sendLock, threadVars, observer, ready, unreported>>
    /\ UNCHANGED <<pollVars, deviceVars>>

Drop(d) ==      \* the device counts a frame it could not keep
    /\ lost[d] + 1 < Span \div 2
    /\ drops' = [drops EXCEPT ![d] = (@ + 1) % Span]
    /\ lost' = [lost EXCEPT ![d] = @ + 1]
    /\ UNCHANGED <<txEnabled, full, events, sendLock, threadVars, observer, ready, unreported, pollVars>>

-----------------------------------------------------------------------------
(* CO_CANmodule_process(), with the send lock across RT_CAN_CMD_GET_STATUS. *)
Poll ==
    /\ where["co_main"] = "idle" /\ sendLock = Free
    /\ sendLock' = "co_main"
    /\ snapshot' = events
    /\ Goto("co_main", "status")
    /\ UNCHANGED <<txEnabled, full, events, buffer, captured, observer, ready, unreported>>
    /\ UNCHANGED <<status, dropsOld, deviceVars>>

EventsDropped == events \ snapshot
EventsKept == events
StatusFails ==
    /\ where["co_main"] = "status"
    /\ sendLock' = Free /\ snapshot' = {} /\ events' = EventsKept
    /\ Goto("co_main", "idle")
    /\ UNCHANGED <<txEnabled, full, buffer, captured, observer, ready, unreported>>
    /\ UNCHANGED <<status, dropsOld, deviceVars>>

SendLevel(count) ==
    IF count >= 256 THEN {"txBusOff"} ELSE IF count >= 128 THEN {"txPassive"}
    ELSE IF count >= 96 THEN {"txWarning"} ELSE {}
ReceiveLevel(count) ==
    IF count >= 128 THEN {"rxPassive"} ELSE IF count >= 96 THEN {"rxWarning"} ELSE {}
OverflowOf(d) == IF d = "rx" THEN "rxOverflow" ELSE "txOverflow"
Larger(new, old) == new > old
Advanced(new, old) == new # old /\ (new - old) % Span < Span \div 2

(* A dropped frame is history once its overflow bit is in the status.      *)
StatusRead(sendErrors, receiveErrors) ==
    LET overflows == {OverflowOf(d) : d \in {e \in Directions : Advanced(drops[e], dropsOld[e])}}
        err == snapshot \cup SendLevel(sendErrors) \cup ReceiveLevel(receiveErrors) \cup overflows IN
    /\ where["co_main"] = "status"
    /\ status' = err
    /\ events' = events \ snapshot
    /\ dropsOld' = drops
    /\ unreported' = unreported \ err
    /\ lost' = [d \in Directions |-> IF OverflowOf(d) \in err THEN 0 ELSE lost[d]]
    /\ snapshot' = {} /\ sendLock' = Free
    /\ Goto("co_main", "idle")
    /\ UNCHANGED <<txEnabled, full, buffer, captured, observer, ready, drops>>

Next ==
    \/ \E t \in Threads : RefuseFull(t) \/ Finish(t) \/ Notify(t)
    \/ \E t \in Threads, b \in Buffers : Send(t, b)
    \/ \E t \in Threads, done \in BOOLEAN : Submit(t, done)
    \/ Ready \/ Stop \/ Gate \/ ClearPendingSyncPDOs \/ Poll \/ StatusFails
    \/ \E b \in Buffers : Filled(b) \/ Refill(b)
    \/ \E d \in Directions : Drop(d)
    \/ \E s \in SendErrors, r \in ReceiveErrors : StatusRead(s, r)

Spec == Init /\ [][Next]_vars
-----------------------------------------------------------------------------
TypeOK ==
    /\ txEnabled \in BOOLEAN /\ ready \in BOOLEAN
    /\ full \in [Buffers -> BOOLEAN]
    /\ {events, snapshot, unreported} \subseteq SUBSET {"txOverflow", "pdoLate"}
    /\ sendLock \in {Free, "co_main"}
    /\ where \in [Threads -> {"idle", "first", "submit", "sent", "failed", "notify", "status"}]
    /\ buffer \in [Threads -> Buffers]
    /\ captured \in [Threads -> {Runtime, Unregistered}] /\ observer \in {Runtime, Unregistered}
    /\ drops \in [Directions -> 0 .. Span - 1] /\ dropsOld \in [Directions -> 0 .. Span - 1]
    /\ lost \in [Directions -> 0 .. Span \div 2]

(* A failed send, a refused send and a late synchronous PDO stay in the    *)
(* event bits until a poll reports them, although other threads raise bits *)
(* while co_main reads the controller's status, and that read may fail.    *)
NoEventForgotten == unreported \subseteq events

(* The drop counters tell of every frame dropped since the last successful *)
(* poll, across the wrap of a counter.                                     *)
NoDropForgotten ==
    \A d \in Directions : (drops[d] - dropsOld[d]) % Span = lost[d]

(* No sender keeps a captured observer when the runtime it belongs to has  *)
(* been retired ("no TPDO sender can retain a callback capture when the    *)
(* runtime is retired", CO_401_device_RTT.c).                              *)
NoRetiredObserver == \A t \in Threads : captured[t] # Unregistered => ready /\ observer = captured[t]

TransmitIsAccountable == TypeOK /\ NoEventForgotten /\ NoDropForgotten /\ NoRetiredObserver
=============================================================================
