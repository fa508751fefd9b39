----------------------------- MODULE PowerLink -----------------------------
(***************************************************************************)
(* A CiA 402 controller (CO_402_controller.c) and the power state machine  *)
(* of a device (CO_402_device_fsa.c), joined by the two words they talk    *)
(* through: Statusword and Controlword, coded by CO_402_state.c, which     *)
(* they share with the operation modes.  A word is the set of its bits     *)
(* that are set.  The controller reads one word, decides, and writes the   *)
(* other; the device runs whenever it likes.  What a command that stays in *)
(* the Controlword does to a device that has moved on meanwhile, and what  *)
(* is left of an intention after a fault, is what only the two together    *)
(* show.  Timeouts and failing transfers are in DriveController, callbacks *)
(* that answer BUSY in PdsSupervisor.                                      *)
(***************************************************************************)
EXTENDS Integers

CONSTANTS
    StatusBits,    \* Statusword bits of the active mode, of 10, 12 and 13
    ControlBits    \* Controlword bits of the active mode, of 4, 5, 6 and 8

VARIABLES
    \* the device
    state,         \* axis->state
    previousBit,   \* bit 7 of axis->previousControlword
    published,     \* the state of which statusword was made
    statusword, controlword,
    \* the controller
    target,        \* axis->target, "none" if not targetValid
    remote,        \* axis->remoteState
    resetAsked, pulseHigh,
    fresh,         \* a Statusword was read and not yet acted upon
    \* what an observer remembers
    commanded,     \* the command last written to Controlword
    goal,          \* the target it was written for
    modeBits,      \* the mode bits last written to Controlword
    intended       \* a target was set since the device's last fault

PowerLinkAssumption ==
    /\ StatusBits \subseteq {10, 12, 13}
    /\ ControlBits \subseteq {4, 5, 6, 8}

device     == <<state, previousBit, published, statusword>>
controller == <<target, remote, resetAsked, pulseHigh, fresh>>
written    == <<controlword, commanded, goal>>
vars       == <<device, controller, written, modeBits, intended>>

-----------------------------------------------------------------------------
(* CO_402_state.c *)

(* CO_402_statuswordForState() *)
StatuswordFor(s) ==
    CASE s = "notReady"         -> {}
      [] s = "switchOnDisabled" -> {6}
      [] s = "ready"            -> {0, 5}
      [] s = "switchedOn"       -> {0, 1, 5}
      [] s = "enabled"          -> {0, 1, 2, 5}
      [] s = "quickStop"        -> {0, 1, 2}
      [] s = "reaction"         -> {0, 1, 2, 3}
      [] s = "fault"            -> {3}

(* CO_402_decodeStatusword(): the first pattern that fits *)
ShortMask == {0, 1, 2, 3, 6}
LongMask  == {0, 1, 2, 3, 5, 6}

DecodedState(w) ==
    CASE w \cap ShortMask = {}              -> "notReady"
      [] w \cap ShortMask = {6}             -> "switchOnDisabled"
      [] w \cap LongMask = {0, 5}             -> "ready"
      [] w \cap LongMask = {0, 1, 5}          -> "switchedOn"
      [] w \cap LongMask = {0, 1, 2, 5}       -> "enabled"
      [] w \cap LongMask = {0, 1, 2}          -> "quickStop"
      [] w \cap ShortMask = {0, 1, 2, 3}    -> "reaction"
      [] w \cap ShortMask = {3}             -> "fault"
      [] OTHER                              -> "unknown"

(* CO_402_decodeControlword() *)
DecodedCommand(w) ==
    CASE 7 \in w                               -> "faultReset"
      [] w \cap {0, 1, 2, 3, 7} = {0, 1, 2, 3} -> "enable"
      [] w \cap {0, 1, 2, 3, 7} = {0, 1, 2}    -> "switchOn"
      [] w \cap {0, 1, 2, 7} = {1, 2}          -> "shutdown"
      [] w \cap {1, 2, 7} = {1}                -> "quickStop"
      [] w \cap {1, 7} = {}                    -> "disableVoltage"
      [] OTHER                                 -> "unknown"

(* commandUpdate(), and CO_402_controller_applyControlwordUpdate(): bits   *)
(* outside the mask stay what they are.                                    *)
PdsMask == {0, 1, 2, 3, 7}
UpdateFor(command) ==
    CASE command = "disableVoltage" -> {}
      [] command = "quickStop"      -> {1}
      [] command = "shutdown"       -> {1, 2}
      [] command = "switchOn"       -> {0, 1, 2}
      [] command = "enable"         -> {0, 1, 2, 3}
      [] command = "faultReset"     -> {7}

Overwritten(w, command) == UpdateFor(command)
Masked(w, command)      == (w \ PdsMask) \cup UpdateFor(command)
Applied(w, command)     == Masked(w, command)

-----------------------------------------------------------------------------
Init ==
    /\ state = "notReady" /\ previousBit = FALSE
    /\ published = "notReady" /\ statusword = StatuswordFor("notReady")
    /\ controlword = {} /\ commanded = "disableVoltage" /\ goal = "none" /\ modeBits = {}
    /\ target = "none" /\ remote = "unknown"
    /\ resetAsked = FALSE /\ pulseHigh = FALSE /\ fresh = FALSE
    /\ intended = FALSE

(* The state machine's step on the Controlword, as CO_402_device_process() *)
(* makes it when the callback is done at once.                             *)
Moved(command, rising) ==
    CASE state = "notReady"                                    -> {"switchOnDisabled"}
      [] state = "switchOnDisabled" /\ command = "shutdown"    -> {"ready"}
      [] state \in {"ready", "switchedOn", "enabled", "quickStop"}
           /\ command = "disableVoltage"                       -> {"switchOnDisabled"}
      [] state \in {"switchedOn", "enabled"} /\ command = "shutdown" -> {"ready"}
      [] state \in {"ready", "enabled"} /\ command = "switchOn"      -> {"switchedOn"}
      [] state = "switchedOn" /\ command = "enable"            -> {"enabled"}
      [] state = "enabled" /\ command = "quickStop"            -> {"quickStop"}
      [] state = "reaction"                                    -> {"fault"}
      [] state = "fault" /\ rising                             -> {"switchOnDisabled", "fault"}
      [] OTHER                                                 -> {state}

DevicePass ==
    /\ state' \in Moved(DecodedCommand(controlword), 7 \in controlword /\ ~previousBit)
    /\ previousBit' = (7 \in controlword)
    /\ published' = state'
    /\ \E bits \in SUBSET StatusBits : statusword' = StatuswordFor(state') \cup bits
    /\ UNCHANGED <<controller, written, modeBits, intended>>

(* A callback or the product reports a fault. *)
ProductFails ==
    /\ state \notin {"notReady", "reaction", "fault"}
    /\ state' = "reaction" /\ intended' = FALSE
    /\ UNCHANGED <<previousBit, published, statusword, controller, written, modeBits>>

-----------------------------------------------------------------------------
(* The controller: process() reads, and then acts on, one Statusword.      *)
ReadStatusword ==
    /\ ~fresh /\ fresh' = TRUE
    /\ remote' = DecodedState(statusword)
    /\ UNCHANGED <<device, target, resetAsked, pulseHigh, written, modeBits, intended>>

(* commandForTarget() and the pulse of the fault reset *)
CommandFor(s, t) ==
    CASE t = s                                                               -> "none"
      [] s = "switchOnDisabled" /\ t \in {"ready", "switchedOn", "enabled"}  -> "shutdown"
      [] s \in {"ready", "switchedOn", "enabled", "quickStop"}
           /\ t = "switchOnDisabled"                                         -> "disableVoltage"
      [] s = "ready" /\ t \in {"switchedOn", "enabled"}                      -> "switchOn"
      [] s \in {"switchedOn", "enabled"} /\ t = "ready"                      -> "shutdown"
      [] s = "switchedOn" /\ t = "enabled"                                   -> "enable"
      [] s = "enabled" /\ t = "switchedOn"                                   -> "switchOn"
      [] s = "enabled" /\ t = "quickStop"                                    -> "quickStop"
      [] OTHER                                                               -> "none"

Faulted == remote \in {"reaction", "fault"}

TargetKept    == target
TargetDropped == "none"
AfterFault    == TargetDropped

Write(command) ==
    IF command = "none" THEN UNCHANGED written
    ELSE /\ controlword' = Applied(controlword, command)
         /\ commanded' = command
         /\ goal' = target

Act ==
    /\ fresh /\ fresh' = FALSE
    /\ \/ /\ pulseHigh /\ pulseHigh' = FALSE
          /\ Write("disableVoltage")
          /\ UNCHANGED <<target, resetAsked>>
       \/ /\ ~pulseHigh /\ Faulted
          /\ target' = AfterFault /\ resetAsked' = FALSE
          /\ pulseHigh' = (remote = "fault" /\ resetAsked)
          /\ Write(IF pulseHigh' THEN "faultReset" ELSE "none")
       \/ /\ ~pulseHigh /\ ~Faulted
          /\ resetAsked' = FALSE
          /\ Write(IF target = "none" THEN "none" ELSE CommandFor(remote, target))
          /\ UNCHANGED <<target, pulseHigh>>
    /\ UNCHANGED <<device, remote, modeBits, intended>>

Targets == {"switchOnDisabled", "ready", "switchedOn", "enabled", "quickStop"}

SetTarget(t) ==
    /\ ~fresh /\ ~resetAsked /\ ~pulseHigh /\ ~Faulted
    /\ target' = t /\ intended' = TRUE
    /\ UNCHANGED <<device, remote, resetAsked, pulseHigh, fresh, written, modeBits>>

RequestFaultReset ==
    /\ ~fresh /\ remote = "fault" /\ ~resetAsked /\ ~pulseHigh
    /\ resetAsked' = TRUE
    /\ UNCHANGED <<device, target, remote, pulseHigh, fresh, written, modeBits, intended>>

ClearTarget ==
    /\ ~fresh /\ target' = "none"
    /\ UNCHANGED <<device, remote, resetAsked, pulseHigh, fresh, written, modeBits, intended>>

(* A pulse that is up stays up: it still has to be taken down.             *)
ResetController ==
    /\ ~fresh
    /\ target' = "none" /\ remote' = "unknown" /\ resetAsked' = FALSE
    /\ UNCHANGED <<device, pulseHigh, fresh, written, modeBits, intended>>

(* The owner of the Controlword moves the bits of the mode.                *)
WriteModeBits(bits) ==
    /\ controlword' = (controlword \ ControlBits) \cup bits
    /\ modeBits' = bits
    /\ UNCHANGED <<device, controller, commanded, goal, intended>>

Next ==
    \/ DevicePass \/ ProductFails
    \/ ReadStatusword \/ Act
    \/ \E t \in Targets : SetTarget(t)
    \/ RequestFaultReset \/ ClearTarget \/ ResetController
    \/ \E bits \in SUBSET ControlBits : WriteModeBits(bits)

Spec == Init /\ [][Next]_vars

-----------------------------------------------------------------------------
(* Each side understands the other whatever the modes put into the words:  *)
(* the Statusword is decoded to the state it was made of, the Controlword  *)
(* to the command last written to it, and that write left the mode's bits  *)
(* as their owner set them.                                                *)
WordsAreUnderstood ==
    /\ DecodedState(statusword) = published
    /\ DecodedCommand(controlword) = commanded
    /\ controlword \ PdsMask = modeBits

(* Every transition the device makes of its own accord brings it nearer to *)
(* the target its command was written for: also when it has moved on since *)
(* the controller read its state, or when the target has changed since.    *)
Level(s) == CASE s = "switchOnDisabled" -> 0 [] s = "ready"   -> 1 [] s = "switchedOn" -> 2
              [] s = "enabled"          -> 3 [] s = "quickStop" -> 4
Distance(s, t) == IF Level(s) < Level(t) THEN Level(t) - Level(s) ELSE Level(s) - Level(t)
CommandsApproach ==
    [][state' # state /\ {state, state'} \subseteq Targets =>
           goal \in Targets /\ Distance(state', goal) < Distance(state, goal)]_vars

(* A drive that had a fault is enabled again only for a target that was    *)
(* set after the fault, whatever is still in the Controlword.              *)
MotionIsIntended == [][state' = "enabled" /\ state # "enabled" => intended]_vars

LinkIsSound == CommandsApproach /\ MotionIsIntended
=============================================================================
