-------------------------- MODULE DriveController --------------------------
(***************************************************************************)
(* CO_402_controller.c and CO_402_controller_client.c: the control side of *)
(* one remote CiA 402 axis.  One task calls process(), which reads the     *)
(* Statusword, runs the PDS core, and writes a command into the Controlword*)
(* by an SDO upload and download; each transfer is a step, at which it may *)
(* fail and before which the drive may have moved.  Only the PDS bits of   *)
(* the Controlword are kept: the client replaces exactly those.            *)
(* The drive itself is external.                                           *)
(***************************************************************************)
EXTENDS Integers

CONSTANTS
    Goals,              \* the targets the application asks for
    TransitionTimeout,  \* config.transitionTimeout_us
    FeedbackTimeout,    \* config.feedbackTimeout_us
    MaxStep,            \* bound: timeDifference_us of one process()
    MaxTime             \* UINT32_MAX, where elapsed times saturate

VARIABLES
    target,     \* the target, NoTarget if targetValid is false
    remote,     \* remoteState; UNKNOWN as long as remoteStateValid is false
    invalid,    \* remoteStatuswordInvalid
    moving,     \* transitionElapsed_us
    silent,     \* feedbackElapsed_us
    resetAsked, \* faultResetRequested
    pulseHigh,  \* faultResetPulseHigh
    outcome,    \* result
    pending,    \* command of pendingUpdate, NoCommand if not pendingUpdateValid
    edge,       \* pendingFaultResetEdge
    deferred,   \* deferredElapsedUs
    at,         \* where process() is: "idle", "read", "write"
    drive,      \* PDS state of the remote drive
    word,       \* the command its Controlword holds
    sinceGoal,  \* history: time process() was given since the later of the
                \* present target and the last observed change of state
    sinceHeard  \* history: ... since the last Statusword

coreVars   == <<target, remote, invalid, moving, silent, resetAsked, pulseHigh, outcome>>
clientVars == <<pending, edge, deferred>>
driveVars  == <<drive, word>>
timeVars   == <<sinceGoal, sinceHeard>>
vars       == <<coreVars, clientVars, at, driveVars, timeVars>>

NoTarget  == "none"
NoCommand == "none"
Targets   == {"SWITCH_ON_DISABLED", "READY_TO_SWITCH_ON", "SWITCHED_ON",
              "OPERATION_ENABLED", "QUICK_STOP_ACTIVE"}
FaultStates == {"FAULT_REACTION_ACTIVE", "FAULT"}
States    == Targets \cup FaultStates \cup {"NOT_READY_TO_SWITCH_ON"}
Commands  == {"DISABLE_VOLTAGE", "QUICK_STOP", "SHUTDOWN", "SWITCH_ON",
              "ENABLE_OPERATION", "FAULT_RESET"}
Outcomes  == {"IDLE", "IN_PROGRESS", "TARGET_REACHED", "STATUS_UNKNOWN",
              "FEEDBACK_TIMEOUT", "TRANSITION_TIMEOUT", "WAIT_FAULT_REACTION",
              "REMOTE_FAULT", "POLICY_BLOCKED"}

DriveControllerAssumption ==
    /\ Goals \subseteq Targets
    /\ TransitionTimeout \in Nat \ {0} /\ FeedbackTimeout \in Nat \ {0}
    /\ MaxStep \in Nat \ {0} /\ MaxTime \in Nat
    /\ MaxTime > TransitionTimeout /\ MaxTime > FeedbackTimeout

(* saturatingAddU32() *)
Plus(a, b) == IF a + b > MaxTime THEN MaxTime ELSE a + b

(* commandForTarget(): NoCommand in NOT_READY; "blocked" without a rule *)
EnabledFrom == {"SWITCHED_ON", "OPERATION_ENABLED"}
CommandFor(s, t) ==
    CASE s = "NOT_READY_TO_SWITCH_ON" -> NoCommand
      [] s = "SWITCH_ON_DISABLED" /\ t \in {"READY_TO_SWITCH_ON"} \cup EnabledFrom -> "SHUTDOWN"
      [] s \notin {"NOT_READY_TO_SWITCH_ON", "SWITCH_ON_DISABLED"}
         /\ t = "SWITCH_ON_DISABLED" -> "DISABLE_VOLTAGE"
      [] s = "READY_TO_SWITCH_ON" /\ t \in EnabledFrom -> "SWITCH_ON"
      [] s \in EnabledFrom /\ t = "READY_TO_SWITCH_ON" -> "SHUTDOWN"
      [] s = "SWITCHED_ON" /\ t = "OPERATION_ENABLED" -> "ENABLE_OPERATION"
      [] s = "OPERATION_ENABLED" /\ t = "SWITCHED_ON" -> "SWITCH_ON"
      [] s = "OPERATION_ENABLED" /\ t = "QUICK_STOP_ACTIVE" -> "QUICK_STOP"
      [] OTHER -> "blocked"

Init ==
    /\ target = NoTarget /\ remote = "UNKNOWN" /\ invalid = FALSE
    /\ moving = 0 /\ silent = 0 /\ resetAsked = FALSE /\ pulseHigh = FALSE
    /\ outcome = "IDLE"
    /\ pending = NoCommand /\ edge = FALSE /\ deferred = 0
    /\ at = "idle"
    /\ drive \in {"NOT_READY_TO_SWITCH_ON", "OPERATION_ENABLED", "FAULT"}
    /\ word = "DISABLE_VOLTAGE"
    /\ sinceGoal = 0 /\ sinceHeard = 0

-----------------------------------------------------------------------------
(* The application's calls between two calls of process() *)

(* commitDeferredFeedbackElapsed() *)
CommitDeferred == silent' = Plus(silent, deferred) /\ deferred' = 0
KeepDeferred   == UNCHANGED <<silent, deferred>>
Committed      == CommitDeferred

(* A repeated target does not restart the transition. *)
NeverSame(t)  == FALSE
SameTarget(t) == target = t

SetTarget(t) ==
    /\ at = "idle" /\ ~edge
    /\ ~resetAsked /\ ~pulseHigh /\ remote \notin FaultStates
    /\ ~SameTarget(t)
    /\ target' = t /\ moving' = 0 /\ outcome' = "IN_PROGRESS"
    /\ sinceGoal' = IF t = target THEN sinceGoal ELSE 0
    /\ pending' = NoCommand
    /\ Committed
    /\ UNCHANGED <<remote, invalid, resetAsked, pulseHigh, edge, at, driveVars, sinceHeard>>

EdgeForgotten == FALSE
EdgeKept      == edge

ClearTarget ==
    /\ at = "idle" /\ (target # NoTarget \/ outcome # "IDLE")
    /\ target' = NoTarget /\ moving' = 0 /\ outcome' = "IDLE"
    /\ pending' = IF EdgeKept THEN pending ELSE NoCommand
    /\ Committed
    /\ UNCHANGED <<remote, invalid, resetAsked, pulseHigh, edge, at, driveVars, timeVars>>

RequestFaultReset ==
    /\ at = "idle" /\ ~edge
    /\ remote = "FAULT" /\ ~resetAsked /\ ~pulseHigh
    /\ resetAsked' = TRUE /\ pending' = NoCommand
    /\ UNCHANGED <<target, remote, invalid, moving, silent, pulseHigh, outcome,
                   edge, deferred, at, driveVars, timeVars>>

-----------------------------------------------------------------------------
(* CO_402_controller_process() *)

Heard(age) == age < FeedbackTimeout

(* The core's answer on state s (UNKNOWN: none seen yet; bad: the last     *)
(* Statusword was not one), feedback of that age, dt since the last call,  *)
(* of which the transition had taken `before' when it was heard.           *)
Judge(s, bad, before, changed, age, dt) ==
    LET taken  == IF changed THEN before ELSE Plus(before, dt)
        command == CommandFor(s, target)
    IN  \/ /\ pulseHigh                                     \* the low edge
           /\ pulseHigh' = FALSE /\ pending' = "DISABLE_VOLTAGE" /\ edge' = TRUE
           /\ moving' = before
           /\ outcome' = CASE ~Heard(age)  -> "FEEDBACK_TIMEOUT"
                           [] bad          -> "STATUS_UNKNOWN"
                           [] s = "FAULT"  -> "REMOTE_FAULT"
                           [] OTHER        -> "IDLE"
           /\ UNCHANGED <<target, resetAsked>>
        \/ /\ ~pulseHigh /\ (~Heard(age) \/ bad \/ s = "UNKNOWN")
           /\ outcome' = IF ~Heard(age) THEN "FEEDBACK_TIMEOUT"
                         ELSE IF bad THEN "STATUS_UNKNOWN"
                         ELSE IF target # NoTarget THEN "IN_PROGRESS" ELSE "IDLE"
           /\ moving' = before
           /\ UNCHANGED <<target, resetAsked, pulseHigh, pending, edge>>
        \/ /\ ~pulseHigh /\ Heard(age) /\ ~bad /\ s \in FaultStates
           /\ target' = NoTarget /\ moving' = 0 /\ resetAsked' = FALSE
           /\ IF s = "FAULT" /\ resetAsked
              THEN /\ pulseHigh' = TRUE /\ pending' = "FAULT_RESET" /\ edge' = TRUE
                   /\ outcome' = "IN_PROGRESS"
              ELSE /\ outcome' = IF s = "FAULT" THEN "REMOTE_FAULT" ELSE "WAIT_FAULT_REACTION"
                   /\ UNCHANGED <<pulseHigh, pending, edge>>
        \/ /\ ~pulseHigh /\ Heard(age) /\ ~bad /\ s \in States \ FaultStates
           /\ resetAsked' = FALSE
           /\ IF target \in {NoTarget, s}
              THEN /\ moving' = 0 /\ UNCHANGED pending
                   /\ outcome' = IF target = s THEN "TARGET_REACHED" ELSE "IDLE"
              ELSE IF command = "blocked"
              THEN outcome' = "POLICY_BLOCKED" /\ moving' = before /\ UNCHANGED pending
              ELSE /\ moving' = taken
                   /\ IF taken >= TransitionTimeout
                      THEN outcome' = "TRANSITION_TIMEOUT" /\ UNCHANGED pending
                      ELSE outcome' = "IN_PROGRESS" /\ pending' = command
           /\ UNCHANGED <<target, pulseHigh, edge>>

(* process() without a pending update: the Statusword upload was answered  *)
(* (with the drive's state, with a word that is none, or with an error)    *)
(* and the core runs on the time deferred so far.                          *)
ReplayDeferred(dt) == Plus(deferred, dt)

ReadStatusword(dt, reply) ==
    LET elapsed == ReplayDeferred(dt)
        seen    == CASE reply = "word" -> drive [] reply = "garbled" -> "UNKNOWN" [] OTHER -> remote
        bad     == IF reply = "error" THEN invalid ELSE reply = "garbled"
        changed == reply = "word" /\ remote # drive
        age     == IF reply = "error" THEN Plus(silent, elapsed) ELSE 0
        before  == IF reply = "garbled" THEN Plus(moving, elapsed) ELSE IF changed THEN 0 ELSE moving
    IN  /\ at = "idle" /\ pending = NoCommand
        /\ remote' = seen /\ invalid' = bad /\ silent' = age /\ deferred' = 0
        /\ Judge(seen, bad, before, changed, age, elapsed)
        /\ at' = IF pending' = NoCommand THEN "idle" ELSE "read"
        /\ sinceHeard' = IF reply = "error" THEN Plus(sinceHeard, dt) ELSE 0
        /\ sinceGoal' = IF changed THEN 0 ELSE Plus(sinceGoal, dt)
        /\ UNCHANGED driveVars

(* The upload was refused at call level: the core does not run. *)
StatuswordRefused(dt) ==
    /\ at = "idle" /\ pending = NoCommand
    /\ deferred' = Plus(deferred, dt)
    /\ sinceHeard' = Plus(sinceHeard, dt) /\ sinceGoal' = Plus(sinceGoal, dt)
    /\ UNCHANGED <<coreVars, pending, edge, at, driveVars>>

(* process() with a pending update only tries to deliver it. *)
Retry(dt) ==
    /\ at = "idle" /\ pending # NoCommand
    /\ deferred' = Plus(deferred, dt)
    /\ sinceHeard' = Plus(sinceHeard, dt) /\ sinceGoal' = Plus(sinceGoal, dt)
    /\ at' = "read"
    /\ UNCHANGED <<coreVars, pending, edge, driveVars>>

(* flushPendingUpdate(): the Controlword upload, refused, failed or answered *)
ReadControlword ==
    /\ at = "read"
    /\ at' \in {"idle", "write"}
    /\ UNCHANGED <<coreVars, clientVars, driveVars, timeVars>>

(* The drive takes a new Controlword, or does not act on it. *)
Obeys(c) ==
    CASE c = "DISABLE_VOLTAGE" /\ drive \in {"READY_TO_SWITCH_ON", "SWITCHED_ON",
             "OPERATION_ENABLED", "QUICK_STOP_ACTIVE"} -> {"SWITCH_ON_DISABLED"}
      [] c = "QUICK_STOP" /\ drive = "OPERATION_ENABLED" -> {"QUICK_STOP_ACTIVE"}
      [] c = "QUICK_STOP" /\ drive \in {"READY_TO_SWITCH_ON", "SWITCHED_ON"} -> {"SWITCH_ON_DISABLED"}
      [] c = "SHUTDOWN" /\ drive \in {"SWITCH_ON_DISABLED"} \cup EnabledFrom -> {"READY_TO_SWITCH_ON"}
      [] c = "SWITCH_ON" /\ drive \in {"READY_TO_SWITCH_ON", "OPERATION_ENABLED"} -> {"SWITCHED_ON"}
      [] c = "ENABLE_OPERATION" /\ drive \in {"READY_TO_SWITCH_ON", "SWITCHED_ON"} -> {"OPERATION_ENABLED"}
      [] c = "FAULT_RESET" /\ drive = "FAULT" /\ word # "FAULT_RESET" -> {"SWITCH_ON_DISABLED"}
      [] OTHER -> {}

Delivered == word' = pending /\ drive' \in Obeys(pending) \cup {drive}

(* The download is answered. *)
WriteAccepted ==
    /\ at = "write"
    /\ Delivered
    /\ pending' = NoCommand /\ edge' = FALSE
    /\ CommitDeferred
    /\ at' = "idle"
    /\ UNCHANGED <<target, remote, invalid, moving, resetAsked, pulseHigh,
                   outcome, timeVars>>

Dropped  == pending' = NoCommand /\ edge' = FALSE
Retained == UNCHANGED <<pending, edge>>

(* It is not: the word was written or was not, and is pending still. *)
WriteFails ==
    /\ at = "write"
    /\ Delivered \/ UNCHANGED driveVars
    /\ Retained
    /\ at' = "idle"
    /\ UNCHANGED <<coreVars, deferred, timeVars>>

(* The drive on its own: power-up, a fault and its reaction, the end of a  *)
(* quick stop.                                                             *)
DriveMoves ==
    /\ \/ drive = "NOT_READY_TO_SWITCH_ON" /\ drive' = "SWITCH_ON_DISABLED"
       \/ drive \notin FaultStates /\ drive' = "FAULT_REACTION_ACTIVE"
       \/ drive = "FAULT_REACTION_ACTIVE" /\ drive' = "FAULT"
       \/ drive = "QUICK_STOP_ACTIVE" /\ drive' = "SWITCH_ON_DISABLED"
    /\ UNCHANGED <<coreVars, clientVars, at, word, timeVars>>

Steps   == 1..MaxStep
Replies == {"word", "garbled", "error"}

Process ==
    \/ \E dt \in Steps :
          \/ Retry(dt) \/ StatuswordRefused(dt)
          \/ \E reply \in Replies : ReadStatusword(dt, reply)
    \/ ReadControlword \/ WriteAccepted \/ WriteFails

Application ==
    \/ \E t \in Goals : SetTarget(t)
    \/ ClearTarget \/ RequestFaultReset

Next == Process \/ Application \/ DriveMoves

(* The application calls process() again and again, and transfers that are *)
(* tried again and again are at some time answered.                        *)
Fairness ==
    /\ WF_vars(Process)
    /\ SF_vars(\E dt \in Steps, reply \in Replies : ReadStatusword(dt, reply))
    /\ SF_vars(ReadControlword /\ at' = "write")
    /\ SF_vars(WriteAccepted)

Spec == Init /\ [][Next]_vars /\ Fairness

-----------------------------------------------------------------------------
TypeOK ==
    /\ target \in Targets \cup {NoTarget} /\ remote \in States \cup {"UNKNOWN"}
    /\ {invalid, resetAsked, pulseHigh, edge} \subseteq BOOLEAN
    /\ {moving, silent, deferred, sinceGoal, sinceHeard} \subseteq 0..MaxTime
    /\ outcome \in Outcomes /\ pending \in Commands \cup {NoCommand}
    /\ at \in {"idle", "read", "write"}
    /\ drive \in States /\ word \in Commands

(* Time spent on retries and refused calls is time without feedback, all of *)
(* it and once only, whatever the application calls in between.             *)
FeedbackAgeIsExact == Plus(silent, deferred) = sinceHeard

(* ... and none of it from before a target was given, or before the drive  *)
(* was seen to move, is charged to the transition.                         *)
TransitionTimeIsOwn ==
    /\ moving <= sinceGoal
    /\ outcome = "TRANSITION_TIMEOUT" /\ at = "idle" => sinceGoal >= TransitionTimeout

(* A command that waits to be delivered is the one the present target asks *)
(* for in the state last seen; without a target only a reset edge waits.   *)
PendingServesTarget ==
    /\ pending # NoCommand /\ ~edge => target # NoTarget /\ pending = CommandFor(remote, target)
    /\ edge => pending = IF pulseHigh THEN "FAULT_RESET" ELSE "DISABLE_VOLTAGE"

(* Retries and refused calls under every order of the application's calls  *)
(* (CO_402_controller_client.c:140, 154, 200, 220).                        *)
RetriesAreAccounted ==
    TypeOK /\ FeedbackAgeIsExact /\ TransitionTimeIsOwn /\ PendingServesTarget

(* Fault Reset high is a rising edge: the drive's bit 7 is low when a new  *)
(* pulse is started, however the deliveries before it went.                *)
ResetIsAnEdge == [][pending' = "FAULT_RESET" /\ pending # "FAULT_RESET" => word # "FAULT_RESET"]_vars

(* A pulse that reached the drive is taken back, also when the target is   *)
(* cleared or feedback is lost in between (CO_402_controller.c:295).       *)
PulseIsOut       == word = "FAULT_RESET"
PulseIsTakenBack == PulseIsOut ~> ~PulseIsOut

(* A target comes to an end: it is reached, refused by policy, timed out,  *)
(* cancelled by a fault or replaced; giving it again does not keep it open *)
(* (CO_402_controller.c:216).                                              *)
Settled(t)    == target # t \/ outcome # "IN_PROGRESS"
TargetSettles == \A t \in Goals : target = t ~> Settled(t)

(* Both, as one promise of the control plane *)
ControlSettles == PulseIsTakenBack /\ TargetSettles
=============================================================================
