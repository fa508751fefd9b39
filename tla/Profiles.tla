------------------------------ MODULE Profiles ------------------------------
(***************************************************************************)
(* The profile components: the CiA 401 inputs and outputs, the operation   *)
(* modes of a drive, its controller with the client and joined to a        *)
(* device, the console commands and the software drive.  They share no     *)
(* state: a behaviour exercises one of them, chosen at the start, and      *)
(* leaves the others in an initial state.                                  *)
(***************************************************************************)
EXTENDS Integers

CONSTANTS
    Goals, TransitionTimeout, FeedbackTimeout, MaxStep, MaxTime,          \* DriveController
    Banks, AnyEdges, RisingEdges, FallingEdges,                           \* DigitalInput
    Raw, MinValue, MaxValue, Conditionings, Triggers, Upper, Lower,       \* AnalogInput
    Delta, NegativeDelta, PositiveDelta,
    Outputs, ErrorMode,                                                   \* OutputSafety
    Params, NoMode, Other,                                                \* MotionModes
    Consoles, ShellCommands, Nobody,                                      \* DeviceShell
    MaxNumber, Half, Ranges,                                              \* ShellArguments
    MaxPosition,                                                          \* DemoDrive
    StatusBits, ControlBits                                               \* PowerLink

VARIABLES
    part,
    target, remote, invalid, moving, silent, resetAsked, pulseHigh, outcome, pending, edge,
    deferred, driveAt, drive, word, sinceGoal, sinceHeard,
    inputBound, level, latched, requested, filter, applied, stale, interrupts, digitalOwed,
    attached, value, reference, unsent, flagged, source, sourceFlag, trigger, enabled,
    conditioning, watched, eventOwed, sourceOwed,
    communicating, nmt, stopPending, operational, warned, emcyBit, watching, supervised,
    peerKnown, peerLost, busOff, localFault, commanded, passFault, physical, mustStop,
    motionPds, owner, motionMode, exiting, entering, asked, start, params, run, handed,
    passPhase, promised, risen, interrupted, ordered,
    binding, lifecycle, od, stage, published, alive, ready, stack, pc, left, begun, wake,
    workerPc, unseen, halfSeen,
    range, at, negative, base, parsed, hasDigit, exact, malformed, result,
    demoPds, demoMode, position, velocity, torque, ppTarget, ppActive, ppHalted, hmActive,
    hmHalted, syncCommandValid, syncFeedback,
    linkState, previousBit, publishedState, statusword, controlword, linkTarget, linkRemote,
    linkAsked, linkPulse, fresh, commandedWord, goal, modeBits, intended

driveVars == <<target, remote, invalid, moving, silent, resetAsked, pulseHigh, outcome, pending, edge,
    deferred, driveAt, drive, word, sinceGoal, sinceHeard>>
digitalVars == <<inputBound, level, latched, requested, filter, applied, stale, interrupts, digitalOwed>>
analogVars == <<attached, value, reference, unsent, flagged, source, sourceFlag, trigger, enabled,
    conditioning, watched, eventOwed, sourceOwed>>
outputVars == <<communicating, nmt, stopPending, operational, warned, emcyBit, watching, supervised,
    peerKnown, peerLost, busOff, localFault, commanded, passFault, physical, mustStop>>
motionVars == <<motionPds, owner, motionMode, exiting, entering, asked, start, params, run, handed,
    passPhase, promised, risen, interrupted, ordered>>
shellVars == <<binding, lifecycle, od, stage, published, alive, ready, stack, pc, left, begun, wake,
    workerPc, unseen, halfSeen>>
argumentVars == <<range, at, negative, base, parsed, hasDigit, exact, malformed, result>>
demoVars == <<demoPds, demoMode, position, velocity, torque, ppTarget, ppActive, ppHalted, hmActive,
    hmHalted, syncCommandValid, syncFeedback>>
linkVars == <<linkState, previousBit, publishedState, statusword, controlword, linkTarget, linkRemote,
    linkAsked, linkPulse, fresh, commandedWord, goal, modeBits, intended>>

Drive    == INSTANCE DriveController WITH at <- driveAt
Digital  == INSTANCE DigitalInput WITH
    AnyEdge <- AnyEdges, Rising <- RisingEdges, Falling <- FallingEdges,
    bound <- inputBound, owed <- digitalOwed
Analog   == INSTANCE AnalogInput
Output   == INSTANCE OutputSafety
Motion   == INSTANCE MotionModes WITH pds <- motionPds, mode <- motionMode
Shell    == INSTANCE DeviceShell WITH Commands <- ShellCommands
Argument == INSTANCE ShellArguments WITH Max <- MaxNumber
Demo     == INSTANCE DemoDrive WITH pds <- demoPds, mode <- demoMode
Link     == INSTANCE PowerLink WITH
    state <- linkState, published <- publishedState, target <- linkTarget, remote <- linkRemote,
    resetAsked <- linkAsked, pulseHigh <- linkPulse, commanded <- commandedWord

ASSUME ProfilesAssumption ==
    /\ Drive!DriveControllerAssumption /\ Digital!DigitalInputAssumption
    /\ Analog!AnalogInputAssumption /\ Output!OutputSafetyAssumption
    /\ Motion!MotionAssumption /\ Shell!DeviceShellAssumption
    /\ Argument!ShellArgumentsAssumption /\ Demo!DemoDriveAssumption
    /\ Link!PowerLinkAssumption

-----------------------------------------------------------------------------
Parts == {"drive", "digital", "analog", "output", "motion", "shell", "argument", "demo", "link"}

Init ==
    /\ part \in Parts
    /\ Drive!Init /\ (part # "drive" => drive = "FAULT")
    /\ Digital!Init /\ (part # "digital" => applied = {})
    /\ Analog!Init /\ (part # "analog" => trigger = CHOOSE t \in Triggers : TRUE)
    /\ Output!Init /\ (part # "output" => physical = [o \in Outputs |-> "safe"])
    /\ Motion!Init /\ (part # "motion" => params = CHOOSE p \in Params : TRUE)
    /\ Shell!Init
    /\ Argument!Init /\ (part # "argument" => range = CHOOSE r \in Ranges : TRUE)
    /\ Demo!Init
    /\ Link!Init

(* An action of component p, which leaves the others alone.                *)
In(p, A) ==
    /\ part = p /\ A /\ UNCHANGED part
    /\ IF p = "drive" THEN TRUE ELSE UNCHANGED driveVars
    /\ IF p = "digital" THEN TRUE ELSE UNCHANGED digitalVars
    /\ IF p = "analog" THEN TRUE ELSE UNCHANGED analogVars
    /\ IF p = "output" THEN TRUE ELSE UNCHANGED outputVars
    /\ IF p = "motion" THEN TRUE ELSE UNCHANGED motionVars
    /\ IF p = "shell" THEN TRUE ELSE UNCHANGED shellVars
    /\ IF p = "argument" THEN TRUE ELSE UNCHANGED argumentVars
    /\ IF p = "demo" THEN TRUE ELSE UNCHANGED demoVars
    /\ IF p = "link" THEN TRUE ELSE UNCHANGED linkVars

Next ==
    \/ In("drive", Drive!Next)
    \/ In("digital", Digital!Next)
    \/ In("analog", Analog!Next)
    \/ In("output", Output!Next)
    \/ In("motion", Motion!Next)
    \/ In("shell", Shell!Next)
    \/ In("argument", Argument!Next)
    \/ In("demo", Demo!Next)
    \/ In("link", Link!Next)

vars == <<part, driveVars, digitalVars, analogVars, outputVars, motionVars, shellVars, argumentVars,
          demoVars, linkVars>>

Spec == Init /\ [][Next]_vars
-----------------------------------------------------------------------------
(* The properties of the modules, under the names of this one.             *)

(* An input event survives the readings that fail and the frames that are  *)
(* refused until its value has been sent, for digital inputs (16#6000) and *)
(* analogue ones (16#6401 and the interrupt source 16#6422) alike.         *)
InputEventsLast == Digital!EventsAreRemembered /\ Analog!AnalogInputIsSafe

(* The device's record of its outputs is true: the warning flag, the EMCY  *)
(* bit and the pending stop agree with what the product was given.         *)
OutputStateIsSafe == Output!OutputStateIsSafe

(* The product comes first: no digital input is published past a filter    *)
(* constant (16#6003) that the product has not taken, and while a stop is  *)
(* owed to the outputs no ordinary command reaches them.                   *)
ProductComesFirst == Digital!PublishedUnderFilter /\ Output!StopComesFirst

(* The controller of a drive counts the time and keeps the commands of the *)
(* passes whose SDO transfers had to be repeated.                          *)
RetriesAreAccounted == Drive!RetriesAreAccounted

(* What takes an edge gets one: a fault reset reaches the remote drive as  *)
(* a rising edge of Controlword bit 7, whichever transfers fail, and a new *)
(* set-point or a homing starts in the local drive on a rising edge of     *)
(* bit 4, whatever modes and owners come between.  What stays on after its *)
(* edge takes the drive nearer to the target it was meant for, and never   *)
(* into motion that nobody asked for since the last fault.                 *)
EdgesAreReal == Drive!ResetIsAnEdge /\ Motion!EdgeIsFresh /\ Link!LinkIsSound

(* A start of motion that was acknowledged is not lost, a homing is said   *)
(* to be attained only when it was, a drive is commanded by its owner, and *)
(* the software drive behind the core tells the truth about its motion;    *)
(* controller and device understand each other's words.                    *)
MotionIsSafe == Motion!MotionIsSafe /\ Demo!DemoDriveIsTrue /\ Link!WordsAreUnderstood

(* A console command works on a runtime that is there, is seen whole by    *)
(* the supervisor and the network, and takes the number that was typed.    *)
ConsoleIsSafe == Shell!ShellIsSafe /\ Argument!ArgumentsAreExact
=============================================================================
