------------------------------ MODULE LssBitrate ------------------------------
(***************************************************************************)
(* Activate Bit Timing: the bitrate state machine co_main drives in        *)
(* CO_app_RTT.c, the transmit gate of CO_driver_rtthread.c, and the threads *)
(* that send CAN frames while the bitrate is switched under them.          *)
(*                                                                         *)
(* A sender (co_rt, co_prof, a shell command) holds lifecycleMutex for its *)
(* whole pass.  co_main takes it for the switch alone, after it has closed *)
(* the gate without it.                                                    *)
(***************************************************************************)
EXTENDS Integers

CONSTANTS
    Senders,     \* threads that call CO_CANsend() beside co_main
    Rates,       \* bitrates the driver supports
    Delays,      \* delays a master may ask for, in ms
    Startup,     \* bitrate of the first start
    Span,        \* the millisecond tick is a Span-valued counter (2^32)
    MaxPass,     \* bound: ms from one start of co_main's loop to the next
    None         \* no rate, no thread

ASSUME BitrateAssumption ==
    /\ Startup \in Rates /\ None \notin Rates \cup Senders
    /\ "co_main" \notin Senders \cup {None}
    /\ Span \in Nat /\ MaxPass \in Nat \ {0}
    /\ Delays \subseteq 0 .. (Span \div 2 - MaxPass - 1)

VARIABLES
    state,       \* app->lssBitrateState
    previous, target, delay, deadline,
    baudrate,    \* app->baudrate
    pending,     \* app->lssPendingBitrate
    now,         \* rt_tick_get_millisecond()
    silence,     \* history: ms since the gate was closed, or since the switch
    mpc, nowMs,  \* co_main: control point, time_current_ms of this pass
    mutex,       \* owner of lifecycleMutex
    tx,          \* sender -> control point
    gate,        \* CANmodule->txEnabled
    normal,      \* CANmodule->CANnormal
    hw           \* bitrate the controller runs at, None if it is not known

lssVars  == <<state, previous, target, delay, deadline>>
rateVars == <<baudrate, pending>>
timeVars == <<now, silence>>
canVars  == <<gate, normal, hw>>
vars == <<lssVars, rateVars, timeVars, mpc, nowMs, mutex, tx, canVars>>

Longest == CHOOSE d \in Delays : \A e \in Delays : e <= d

Init ==
    /\ state = "IDLE" /\ previous = None /\ target = None /\ delay = 0 /\ deadline = 0
    /\ baudrate = Startup /\ pending = Startup
    /\ now \in 0 .. Span - 1 /\ silence = 0
    /\ mpc = "top" /\ nowMs = now
    /\ mutex = None /\ tx = [s \in Senders |-> "out"]
    /\ gate = TRUE /\ normal = TRUE /\ hw = Startup

-----------------------------------------------------------------------------
(* Time.  A pass and a delay together stay below half the tick's range.    *)

(* co_app_rtt_lss_time_reached(): the sign of a wrapped difference *)
SignedReached(t, d)   == (t - d) % Span < Span \div 2
UnsignedReached(t, d) == t >= d
Reached(t, d)         == SignedReached(t, d)

Tick ==
    /\ mpc # "dead" => (now - nowMs) % Span < MaxPass
    /\ now' = (now + 1) % Span
    /\ silence' = IF silence < Longest THEN silence + 1 ELSE silence
    /\ UNCHANGED <<lssVars, rateVars, mpc, nowMs, mutex, tx, canVars>>

-----------------------------------------------------------------------------
(* A sender *)

MutexFree    == mutex = None
MutexIgnored == TRUE
MayLock      == MutexFree

TxGoto(s, p) == tx' = [tx EXCEPT ![s] = p]

(* The thread starts its pass on the stack. *)
SendLock(s) ==
    /\ tx[s] = "out" /\ MutexFree /\ mpc # "dead"
    /\ mutex' = s /\ TxGoto(s, "send")
    /\ UNCHANGED <<lssVars, rateVars, timeVars, mpc, nowMs, canVars>>

(* CO_CANsend() up to the gate; behind a closed one it returns CO_ERROR_NO. *)
SendGate(s) ==
    /\ tx[s] = "send"
    /\ TxGoto(s, IF gate THEN "submit" ELSE "sent")
    /\ UNCHANGED <<lssVars, rateVars, timeVars, mpc, nowMs, mutex, canVars>>

(* co_rtt_submit_msg() blocks in rt_device_write() until the frame is gone *)
(* or has failed.                                                          *)
SendSubmit(s) ==
    /\ tx[s] = "submit"
    /\ TxGoto(s, "sent")
    /\ UNCHANGED <<lssVars, rateVars, timeVars, mpc, nowMs, mutex, canVars>>

SendAgain(s) ==
    /\ tx[s] = "sent" /\ TxGoto(s, "send")
    /\ UNCHANGED <<lssVars, rateVars, timeVars, mpc, nowMs, mutex, canVars>>

SendUnlock(s) ==
    /\ tx[s] = "sent" /\ TxGoto(s, "out") /\ mutex' = None
    /\ UNCHANGED <<lssVars, rateVars, timeVars, mpc, nowMs, canVars>>

-----------------------------------------------------------------------------
(* co_main *)

(* The time of this pass is read before anything that may take time. *)
MainTop ==
    /\ mpc = "top"
    /\ mpc' = "process" /\ nowMs' = now
    /\ UNCHANGED <<lssVars, rateVars, timeVars, mutex, tx, canVars>>

(* co_app_rtt_lss_check_bitrate() and CO_LSSslave_process() *)
Configure(r) ==
    /\ pending' = r
    /\ UNCHANGED <<lssVars, baudrate, silence, gate>>

(* co_app_rtt_lss_activate_bitrate() *)
Activate(d) ==
    /\ state = "IDLE" /\ pending \in Rates
    /\ previous' = baudrate /\ target' = pending /\ delay' = d
    /\ gate' = FALSE
    /\ deadline' = (now + d) % Span
    /\ state' = "PRE_DELAY"
    /\ silence' = 0
    /\ UNCHANGED rateVars

(* CO_process(): at most one LSS service, or a reset is requested *)
MainProcess ==
    /\ mpc = "process"
    /\ \/ \E r \in Rates : Configure(r) /\ mpc' = "lss"
       \/ \E d \in Delays : Activate(d) /\ mpc' = "lss"
       \/ mpc' \in {"lss", "reset"} /\ UNCHANGED <<lssVars, rateVars, silence, gate>>
    /\ UNCHANGED <<now, nowMs, mutex, tx, normal, hw>>

(* co_app_rtt_lss_bitrate_finish() *)
Finish ==
    /\ gate' = TRUE
    /\ state' = "IDLE" /\ previous' = None /\ target' = None /\ delay' = 0 /\ deadline' = 0

(* co_app_rtt_lss_bitrate_process() up to the mutex *)
LssProcess ==
    /\ mpc = "lss"
    /\ \/ /\ state = "PRE_DELAY" /\ Reached(nowMs, deadline)
          /\ mpc' = "lock" /\ UNCHANGED <<lssVars, gate>>
       \/ /\ state = "POST_DELAY" /\ Reached(nowMs, deadline)
          /\ mpc' = "top" /\ Finish
       \/ /\ state \in {"PRE_DELAY", "POST_DELAY"} => ~Reached(nowMs, deadline)
          /\ mpc' = "top" /\ UNCHANGED <<lssVars, gate>>
    /\ UNCHANGED <<rateVars, timeVars, nowMs, mutex, tx, normal, hw>>

SwitchLock ==
    /\ mpc = "lock" /\ MayLock
    /\ mutex' = "co_main" /\ mpc' = "set"
    /\ UNCHANGED <<lssVars, rateVars, timeVars, nowMs, tx, canVars>>

(* CO_RTT_CANsetBitrate(): the controller may refuse the rate, keeping the *)
(* old one or none, or take it and not come back to normal mode.           *)
SetBitrate(r, ok) ==
    /\ hw' \in IF ok THEN {r} ELSE {r, hw, None}
    /\ normal' = ok

Set ==
    /\ mpc = "set"
    /\ \/ SetBitrate(target, TRUE) /\ mpc' = "set_ok" /\ mutex' = None
       \/ SetBitrate(target, FALSE) /\ mpc' = "restore" /\ UNCHANGED mutex
    /\ silence' = 0
    /\ UNCHANGED <<lssVars, rateVars, now, nowMs, tx, gate>>

Restore ==
    /\ mpc = "restore"
    /\ \/ SetBitrate(previous, TRUE) /\ mpc' = "restore_ok"
       \/ SetBitrate(previous, FALSE) /\ mpc' = "restore_failed"
    /\ mutex' = None
    /\ UNCHANGED <<lssVars, rateVars, timeVars, nowMs, tx, gate>>

(* Back outside the mutex.  POST_DELAY counts from the time of this pass,  *)
(* and a delay of zero ends in it.                                         *)
Switched ==
    /\ mpc = "set_ok" /\ mpc' = "top"
    /\ baudrate' = target
    /\ LET due == (nowMs + delay) % Span
       IN  IF Reached(nowMs, due)
           THEN Finish
           ELSE /\ state' = "POST_DELAY" /\ deadline' = due
                /\ UNCHANGED <<previous, target, delay, gate>>
    /\ UNCHANGED <<pending, timeVars, nowMs, mutex, tx, normal, hw>>

RolledBack ==
    /\ mpc = "restore_ok" /\ mpc' = "top"
    /\ baudrate' = previous /\ pending' = previous
    /\ Finish
    /\ UNCHANGED <<timeVars, nowMs, mutex, tx, normal, hw>>

(* co_app_rtt_lss_bitrate_fail() *)
GateShut    == FALSE
GateOpened  == TRUE
FailedGate  == GateShut
GivenUp     == "FAILED"
TriedAgain  == "PRE_DELAY"
FailedState == GivenUp

Failed ==
    /\ mpc = "restore_failed" /\ mpc' = "top"
    /\ state' = FailedState /\ gate' = FailedGate /\ normal' = FALSE
    /\ UNCHANGED <<previous, target, delay, deadline, rateVars, timeVars, nowMs, mutex, tx, hw>>

(* A communication reset builds a new module at the pending bitrate; if it *)
(* fails there is no stack and co_main ends.                               *)
ResetCommunication ==
    /\ mpc = "reset" /\ MutexFree
    /\ \/ /\ mpc' = "top"
          /\ Finish /\ normal' = TRUE /\ hw' = pending /\ baudrate' = pending
       \/ /\ mpc' = "dead" /\ gate' = FALSE /\ normal' = FALSE
          /\ UNCHANGED <<lssVars, baudrate, hw>>
    /\ UNCHANGED <<pending, timeVars, nowMs, mutex, tx>>

MainStep == MainTop \/ MainProcess \/ LssProcess \/ Set \/ Restore \/ Switched \/ RolledBack \/ Failed

Next ==
    \/ Tick
    \/ \E s \in Senders :
           SendLock(s) \/ SendGate(s) \/ SendSubmit(s) \/ SendAgain(s) \/ SendUnlock(s)
    \/ MainStep \/ SwitchLock \/ ResetCommunication

(* Time passes, threads run, the mutex is handed on, and a pass sends a    *)
(* finite number of frames.  Nothing makes a sender send or a master ask.  *)
Fairness ==
    /\ WF_vars(Tick) /\ WF_vars(MainStep)
    /\ SF_vars(SwitchLock) /\ SF_vars(ResetCommunication)
    /\ \A s \in Senders :
           WF_vars(SendGate(s)) /\ WF_vars(SendSubmit(s)) /\ SF_vars(SendUnlock(s))

Spec == Init /\ [][Next]_vars /\ Fairness

-----------------------------------------------------------------------------
(* A frame is on its way to the bus only while the controller runs at the  *)
(* node's active bitrate and no delay after a switch is running: the gate  *)
(* closes without the mutex, and the mutex waits for the last sender.      *)
InTransitAtActiveRate ==
    \A s \in Senders : tx[s] = "submit" =>
        hw = baudrate /\ normal /\ state \in {"IDLE", "PRE_DELAY"}

(* The node knows the bitrate it runs at, or it is silent until a reset:   *)
(* after a switch, a rollback, a failed rollback and a reset.              *)
ActiveRateIsKnown ==
    /\ mpc = "top" /\ state # "FAILED" => hw = baudrate /\ normal
    /\ state = "FAILED" /\ mpc # "dead" => ~gate /\ ~normal
    /\ gate => state = "IDLE"

(* Neither a frame nor the node itself is ever at a bitrate nobody chose.  *)
BitrateIsSafe == InTransitAtActiveRate /\ ActiveRateIsKnown

(* The controller is not switched before the delay has passed, wherever    *)
(* the tick wraps around.                                                  *)
PreDelayKept ==
    [][mpc = "set" /\ mpc' # mpc => silence >= delay]_vars

(* An activation ends, in a new, an old, or no usable bitrate. *)
ActivationEnds == state \in {"PRE_DELAY", "POST_DELAY"} ~> (state \in {"IDLE", "FAILED"} \/ mpc = "dead")

=============================================================================
