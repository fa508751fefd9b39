------------------------------ MODULE DemoDrive ------------------------------
(***************************************************************************)
(* The software drive behind the CiA 402 Device core                       *)
(* (cia402/demo/CO_402_device_RTT_demo.c): the product side of the DriveIF *)
(* and SyncIF callbacks for one axis.  All of them run under the OD lock,  *)
(* those of the supervisor in the profile worker and those of SYNC in      *)
(* co_rt.  The core is here the discipline with which it calls them: which *)
(* PDS action when, modes only while no operation is stopped, commands     *)
(* only while Operation enabled.                                           *)
(***************************************************************************)
EXTENDS Integers

CONSTANTS
    MaxPosition,    \* INT32_MAX of the model: positions are 0 .. MaxPosition
    NoMode          \* CO_402_MODE_NONE

DemoDriveAssumption ==
    MaxPosition \in Nat \ {0} /\ NoMode \notin {"PP", "PV", "HM", "CSP", "CSV", "CST"}

CyclicModes == {"CSP", "CSV", "CST"}
Modes == {"PP", "PV", "HM"} \cup CyclicModes
Positions == 0 .. MaxPosition
Speeds == {-1, 0, 1}

VARIABLES
    pds,                        \* state of the core's PDS machine
    mode,                       \* axis->mode of the drive
    position, velocity, torque, \* what the drive reports
    ppTarget, ppActive, ppHalted,
    hmActive, hmHalted,
    syncCommandValid,
    syncFeedback                \* the feedback, with the mode it was made in

vars == <<pds, mode, position, velocity, torque, ppTarget, ppActive, ppHalted, hmActive, hmHalted,
          syncCommandValid, syncFeedback>>

motion == <<position, velocity, torque, ppTarget, ppActive, ppHalted, hmActive, hmHalted,
            syncCommandValid, syncFeedback>>

Init ==
    /\ pds = "switchOnDisabled" /\ mode = NoMode
    /\ position = 0 /\ velocity = 0 /\ torque = 0
    /\ ppTarget = 0 /\ ppActive = FALSE /\ ppHalted = FALSE
    /\ hmActive = FALSE /\ hmHalted = FALSE
    /\ syncCommandValid = FALSE
    /\ syncFeedback = [mode |-> NoMode, position |-> 0, velocity |-> 0, torque |-> 0]
-----------------------------------------------------------------------------
(* PDS actions: those that stop the motion answer DONE at once.            *)
StopMotion ==
    /\ velocity' = 0 /\ torque' = 0
    /\ ppActive' = FALSE /\ ppHalted' = FALSE /\ hmActive' = FALSE /\ hmHalted' = FALSE
    /\ syncCommandValid' = FALSE
    /\ UNCHANGED <<position, ppTarget, syncFeedback>>

CoastingActions == {"shutdown", "quickStop", "faultReaction", "faultReset", "disableVoltage"}
StoppingActions == CoastingActions \cup {"disableOperation"}

(* The action with which the core goes from one PDS state to the next.     *)
Actions ==
    {<<"switchOnDisabled", "shutdown", "ready">>, <<"ready", "switchOn", "switchedOn">>,
     <<"ready", "disableVoltage", "switchOnDisabled">>,
     <<"switchedOn", "enableOperation", "enabled">>, <<"switchedOn", "shutdown", "ready">>,
     <<"switchedOn", "disableVoltage", "switchOnDisabled">>,
     <<"enabled", "disableOperation", "switchedOn">>, <<"enabled", "shutdown", "ready">>,
     <<"enabled", "disableVoltage", "switchOnDisabled">>, <<"enabled", "quickStop", "quickStop">>,
     <<"quickStop", "enableOperation", "enabled">>,
     <<"quickStop", "disableVoltage", "switchOnDisabled">>,
     <<"reaction", "faultReaction", "fault">>, <<"fault", "faultReset", "switchOnDisabled">>}

PdsAction(step) ==
    /\ pds = step[1]
    /\ pds' = step[3]
    /\ IF step[2] \in StoppingActions THEN StopMotion ELSE UNCHANGED motion
    /\ UNCHANGED mode

(* A fault elsewhere: the reaction is called by the pass after.            *)
Fault ==
    /\ pds \notin {"reaction", "fault"}
    /\ pds' = "reaction"
    /\ UNCHANGED <<mode, motion>>

ModeStates == {"switchOnDisabled", "ready", "switchedOn", "enabled"}

ModeExit ==
    /\ pds \in ModeStates /\ mode # NoMode
    /\ mode' = NoMode
    /\ StopMotion
    /\ UNCHANGED pds

ModeEnter(m) ==
    /\ pds \in ModeStates /\ mode = NoMode
    /\ mode' = m
    /\ syncCommandValid' = FALSE
    /\ UNCHANGED <<pds, position, velocity, torque, ppTarget, ppActive, ppHalted, hmActive, hmHalted,
                   syncFeedback>>
-----------------------------------------------------------------------------
(* Profile Position, once a pass of the supervisor.                        *)
Sign(n) == IF n > 0 THEN 1 ELSE IF n < 0 THEN -1 ELSE 0
Backwards(from, to) == Sign(from - to)
FeedbackVelocity(from, to) == Sign(to - from)

Resolved(relative, target) == IF relative THEN position + target ELSE target

(* A new set-point is in flight for a pass, and halted it stays so.        *)
NewSetPoint(relative, target, halt) ==
    /\ Resolved(relative, target) \in Positions
    /\ ppTarget' = Resolved(relative, target)
    /\ ppActive' = TRUE /\ ppHalted' = halt
    /\ velocity' = IF halt THEN 0 ELSE FeedbackVelocity(position, Resolved(relative, target))
    /\ UNCHANGED <<pds, mode, position, torque, hmActive, hmHalted, syncCommandValid, syncFeedback>>

(* The set-point does not fit: the drive answers ERROR.                    *)
SetPointOverflows(relative, target) ==
    /\ Resolved(relative, target) \notin Positions
    /\ pds' = "reaction"
    /\ UNCHANGED <<mode, motion>>

HoldSetPoint(halt) ==
    /\ ppActive
    /\ IF halt
       THEN velocity' = 0 /\ ppHalted' = TRUE /\ UNCHANGED <<position, ppActive>>
       ELSE position' = ppTarget /\ velocity' = 0 /\ ppActive' = FALSE /\ ppHalted' = FALSE
    /\ UNCHANGED <<pds, mode, torque, ppTarget, hmActive, hmHalted, syncCommandValid, syncFeedback>>

ProfilePosition ==
    /\ pds = "enabled" /\ mode = "PP"
    /\ \E halt \in BOOLEAN :
          \/ \E relative \in BOOLEAN, target \in -MaxPosition .. MaxPosition :
                /\ relative \/ target \in Positions
                /\ NewSetPoint(relative, target, halt) \/ SetPointOverflows(relative, target)
          \/ HoldSetPoint(halt)

ProfileVelocity ==
    /\ pds = "enabled" /\ mode = "PV"
    /\ \E halt \in BOOLEAN, target \in Speeds : velocity' = IF halt THEN 0 ELSE target
    /\ UNCHANGED <<pds, mode, position, torque, ppTarget, ppActive, ppHalted, hmActive, hmHalted,
                   syncCommandValid, syncFeedback>>

(* Homing: the edge starts it, a falling start aborts it, a halt holds it. *)
Homing ==
    /\ pds = "enabled" /\ mode = "HM"
    /\ \E start, edge, halt \in BOOLEAN, offset \in Positions :
          /\ edge => start
          /\ hmActive \/ edge
          /\ IF ~start
             THEN hmActive' = FALSE /\ hmHalted' = FALSE /\ velocity' = 0 /\ UNCHANGED position
             ELSE IF halt
             THEN hmActive' = TRUE /\ hmHalted' = TRUE /\ velocity' = 0 /\ UNCHANGED position
             ELSE IF edge
             THEN hmActive' = TRUE /\ hmHalted' = FALSE /\ UNCHANGED <<position, velocity>>
             ELSE hmActive' = FALSE /\ hmHalted' = FALSE /\ velocity' = 0 /\ position' = offset
    /\ UNCHANGED <<pds, mode, torque, ppTarget, ppActive, ppHalted, syncCommandValid, syncFeedback>>
-----------------------------------------------------------------------------
(* A SYNC: the drive takes the command of the mode it is in and makes the  *)
(* feedback of it.                                                         *)
SyncPublishCommand ==
    /\ pds = "enabled" /\ mode \in CyclicModes
    /\ \E target \in Positions, speed \in Speeds :
          /\ position' = IF mode = "CSP" THEN target ELSE position
          /\ velocity' = IF mode = "CSV" THEN speed ELSE 0
          /\ torque' = IF mode = "CST" THEN speed ELSE 0
    /\ syncFeedback' = [mode |-> mode, position |-> position', velocity |-> velocity',
                        torque |-> torque']
    /\ syncCommandValid' = TRUE
    /\ UNCHANGED <<pds, mode, ppTarget, ppActive, ppHalted, hmActive, hmHalted>>

Next ==
    \/ \E step \in Actions : PdsAction(step)
    \/ Fault
    \/ ModeExit
    \/ \E m \in Modes : ModeEnter(m)
    \/ ProfilePosition \/ ProfileVelocity \/ Homing
    \/ SyncPublishCommand

Spec == Init /\ [][Next]_vars
-----------------------------------------------------------------------------
TypeOK ==
    /\ pds \in ModeStates \cup {"quickStop", "reaction", "fault"} /\ mode \in Modes \cup {NoMode}
    /\ position \in Positions /\ velocity \in Speeds /\ torque \in Speeds /\ ppTarget \in Positions
    /\ ppActive \in BOOLEAN /\ ppHalted \in BOOLEAN /\ hmActive \in BOOLEAN /\ hmHalted \in BOOLEAN
    /\ syncCommandValid \in BOOLEAN
    /\ syncFeedback \in [mode : Modes \cup {NoMode}, position : Positions, velocity : Speeds,
                         torque : Speeds]

(* The drive stands still, and has no motion left to finish, unless the    *)
(* operation is enabled or a fault has yet to be reacted to.               *)
AtRest ==
    pds \notin {"enabled", "reaction"} =>
        velocity = 0 /\ torque = 0 /\ ~ppActive /\ ~hmActive /\ ~syncCommandValid

(* "Return only a complete feedback generation previously produced by      *)
(* publishCommand()" (CO_402_device_RTT_demo.c:417): a feedback that is    *)
(* given out was made in the present mode and is where the drive is.       *)
FeedbackIsCurrent ==
    syncCommandValid =>
        syncFeedback = [mode |-> mode, position |-> position, velocity |-> velocity, torque |-> torque]

(* A set-point in flight is approached, not left.                          *)
TowardsTarget ==
    ppActive /\ velocity # 0 => velocity = Sign(ppTarget - position)

(* What the software drive shows of the motion is true in every order of   *)
(* commands, stops, faults and mode changes.                               *)
DemoDriveIsTrue == TypeOK /\ AtRest /\ FeedbackIsCurrent /\ TowardsTarget
=============================================================================
