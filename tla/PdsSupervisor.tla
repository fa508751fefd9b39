--------------------------- MODULE PdsSupervisor ---------------------------
(***************************************************************************)
(* One axis of the CiA 402 Device core: the PDS state machine, the         *)
(* operation-mode selection and the diagnostic latch, run by the profile   *)
(* worker, against a master that writes Controlword and Modes of           *)
(* operation, the SYNC fast path of co_rt, and communication resets.       *)
(*                                                                         *)
(* CO_402_device_process() runs under lifecycleMutex and the OD lock, so   *)
(* nothing interleaves with a pass before it has published Statusword.     *)
(* The EMCY flush that ends a pass is under lifecycleMutex alone.          *)
(***************************************************************************)
EXTENDS Naturals, FiniteSets

CONSTANTS
    CyclicModes,      \* CSP, CSV, CST: commanded by co_rt at each SYNC
    ProfileModes,     \* PP, PV, HM: commanded by the supervisor
    NoMode,           \* CO_402_MODE_NONE
    Unsupported,      \* a mode this axis does not advertise
    Faults,           \* what the product's DiagIF maps a fault origin to
    NoFault

ASSUME PdsAssumption ==
    /\ NoMode \notin CyclicModes \cup ProfileModes
    /\ Unsupported \notin CyclicModes \cup ProfileModes \cup {NoMode}
    /\ NoFault \notin Faults

VARIABLES
    state,            \* axis->state
    mode,             \* axis->mode
    target,           \* pdsTransitionTargetState, "none" if no operation is latched
    exiting,          \* pendingExitMode
    entering,         \* pendingEnterMode
    resetting,        \* faultResetInProgress
    previousBit,      \* faultResetBitPrevious
    follows,          \* CO_402_device_syncStatuswordBits(&axis->syncRuntime)
    diag,             \* axis->diagnosis: active fault, contractFailed, pending event
    od,               \* 0x6040 and 0x6060, as the master last wrote them
    status,           \* 0x6041 and 0x6061, as the master reads them
    emcy,             \* fault that raised this axis' error bit in CO_EM_t
    link,             \* communicationReady, CANnormal and odBound
    phase,            \* progress of the supervisor pass
    request,          \* 0x6060 as snapshot by the pass
    busy,             \* physical drive action that last answered BUSY
    raised            \* bit 7 written 0 -> 1 since the last snapshot of it

Modes    == CyclicModes \cup ProfileModes
Requests == Modes \cup {NoMode, Unsupported}
Commands == {"disableVoltage", "quickStop", "shutdown", "switchOn", "enable"}

States == {"notReady", "switchOnDisabled", "ready", "switchedOn", "enabled",
           "quickStop", "reaction", "fault"}

(* modeTransitionAllowed() *)
ModeStates == {"switchOnDisabled", "ready", "switchedOn", "enabled"}
Faulted == {"reaction", "fault"}

tokenVars  == <<exiting, entering, resetting>>
ownerVars  == <<target, tokenVars>>
outVars    == <<status, emcy>>
masterVars == <<od, raised>>
vars == <<state, mode, ownerVars, previousBit, follows, diag, masterVars,
          outVars, link, phase, request, busy>>

(* CO_402_device_managerInit() and the first binding *)
Init ==
    /\ state = "notReady" /\ mode = NoMode
    /\ target = "none" /\ exiting = NoMode /\ entering = NoMode /\ resetting = FALSE
    /\ previousBit = FALSE /\ follows = FALSE
    /\ diag = [fault |-> NoFault, contractFailed |-> FALSE, event |-> "none"]
    /\ od = [command |-> "disableVoltage", bit |-> FALSE, mode |-> NoMode]
    /\ raised = FALSE
    /\ status = [state |-> "notReady", mode |-> NoMode, follows |-> FALSE]
    /\ emcy = NoFault /\ link = FALSE
    /\ phase = "idle" /\ request = NoMode
    /\ busy = "none"

-----------------------------------------------------------------------------
(* Ownership of the drive *)

(* releaseOwnerForSafetyTransfer(), and a mutant that forgets mode entry *)
EntryKept    == exiting' = NoMode /\ UNCHANGED entering /\ resetting' = FALSE
RetireTokens == exiting' = NoMode /\ entering' = NoMode /\ resetting' = FALSE

(* CO_402_device_modeTransitionPending() *)
ModePending == exiting # NoMode \/ entering # NoMode

(* CO_402_device_syncFastPathEligible() with its live control-plane check *)
ModeUnchecked == state = "enabled" /\ target = "none" /\ ~ModePending
Eligible ==
    /\ state = "enabled" /\ target = "none" /\ ~ModePending
    /\ mode \in CyclicModes
    /\ od.command = "enable" /\ od.mode = mode

(* CO_402_device_diag_latch(): the product maps the fault, or its mapping  *)
(* is a broken contract that stays recorded.                               *)
LatchedAgain(d, f) ==
    IF f # NoFault THEN [d EXCEPT !.fault = f, !.event = "report"]
                   ELSE [d EXCEPT !.contractFailed = TRUE]

Latched(d, f) == IF d.fault # NoFault THEN d ELSE LatchedAgain(d, f)

(* CO_402_device_axisEnterFaultReaction() *)
EnterFaultReaction ==
    /\ state' = "reaction" /\ target' = "none" /\ RetireTokens
    /\ \E f \in Faults \cup {NoFault} : diag' = Latched(diag, f)

(* A drive callback answers BUSY, DONE or ERROR: continuePdsTransition(). *)
Busy(t) ==
    /\ target' = t /\ busy' = "pds"
    /\ UNCHANGED <<state, diag, tokenVars>>

Done(t) ==
    /\ state' = t /\ target' = "none" /\ busy' = "none"
    /\ UNCHANGED <<diag, tokenVars>>

Error == EnterFaultReaction /\ busy' = "none"

PdsTransition(t) == Busy(t) \/ Done(t) \/ Error

-----------------------------------------------------------------------------
(* Start of a pass: product faults, then the requested mode *)

inputVars == <<mode, previousBit, follows, masterVars, outVars, link>>

(* CO_402_device_diag_pollProductFault() *)
Polled == diag.fault = NoFault /\ ~diag.contractFailed

PassBegin ==
    /\ phase = "idle" /\ link
    /\ \/ UNCHANGED <<state, ownerVars, diag>>
       \/ Polled /\ EnterFaultReaction
    /\ request' \in {od.mode, Unsupported}
    /\ phase' = "fsa"
    /\ UNCHANGED <<inputVars, busy>>

(* CO_402_device_axisControlwordReadFailed() *)
ReadFailed ==
    /\ phase = "fsa"
    /\ IF state = "fault" /\ ~resetting /\ target = "none" /\ ~ModePending
       THEN phase' = "publish" /\ UNCHANGED <<state, ownerVars, diag>>
       ELSE phase' = "react" /\ EnterFaultReaction
    /\ UNCHANGED <<inputVars, request, busy>>

(* processFaultReactionActive(), called at once after a failed takeover; *)
(* the mode phase that may follow does nothing in a fault state.          *)
React ==
    /\ \/ state' = "fault" /\ busy' = "none"
       \/ UNCHANGED state /\ busy' = "reaction"
    /\ UNCHANGED <<ownerVars, diag>>

ReactNow ==
    /\ phase = "react"
    /\ React
    /\ phase' = "publish"
    /\ UNCHANGED <<inputVars, request>>

-----------------------------------------------------------------------------
(* CO_402_device_axisProcess(): one state handler per pass *)

EdgeForgotten == IF state = "fault" THEN od.bit ELSE previousBit
EdgeTracked   == od.bit

(* What every step that read Controlword has in common *)
Snapshot ==
    /\ phase = "fsa"
    /\ previousBit' = EdgeTracked /\ raised' = FALSE
    /\ UNCHANGED <<mode, follows, od, outVars, link, request>>

(* activePdsSafetyPriority() *)
Priority(t) ==
    CASE t = "switchOnDisabled" -> 2
      [] t = "quickStop"        -> 1
      [] OTHER                  -> 0

(* The target a safety command may take the drive for *)
QuickStopAnywhere ==
    CASE od.command = "disableVoltage" -> "switchOnDisabled"
      [] od.command = "quickStop"      -> "quickStop"
      [] OTHER                         -> "none"

SafetyTarget ==
    CASE od.command = "disableVoltage" -> "switchOnDisabled"
      [] od.command = "quickStop" /\ "enabled" \in {state, target} -> "quickStop"
      [] OTHER -> "none"

(* preemptOwnerForSafetyCommand() *)
PriorityIgnored  == target # "none" \/ ModePending
ModeOwnerIgnored == target # "none" /\ Priority(target) < Priority(SafetyTarget)
Preempted ==
    /\ target # "none" \/ ModePending
    /\ Priority(target) < Priority(SafetyTarget)

Preempt ==
    /\ Snapshot /\ Preempted
    /\ RetireTokens
    /\ \/ /\ target' = SafetyTarget /\ busy' = "pds"
          /\ phase' = "mode" /\ UNCHANGED <<state, diag>>
       \/ /\ state' = SafetyTarget /\ target' = "none" /\ busy' = "none"
          /\ phase' = "mode" /\ UNCHANGED diag
       \/ Error /\ phase' = "react"

ModeOwnsDrive ==
    /\ Snapshot /\ ~Preempted /\ ModePending
    /\ phase' = "mode"
    /\ UNCHANGED <<state, ownerVars, diag, busy>>

ContinuePds ==
    /\ Snapshot /\ ~Preempted /\ ~ModePending /\ target # "none"
    /\ PdsTransition(target)
    /\ phase' = "mode"

(* The commands accepted in each state, with the state they lead to *)
Accepted(s, command) ==
    CASE s = "switchOnDisabled" /\ command = "shutdown"       -> "ready"
      [] s \in {"ready", "switchedOn", "enabled", "quickStop"}
           /\ command = "disableVoltage"                      -> "switchOnDisabled"
      [] s \in {"switchedOn", "enabled"} /\ command = "shutdown" -> "ready"
      [] s \in {"ready", "enabled"} /\ command = "switchOn"   -> "switchedOn"
      [] s = "switchedOn" /\ command = "enable"               -> "enabled"
      [] s = "enabled" /\ command = "quickStop"               -> "quickStop"
      [] OTHER                                                -> "none"

Unowned == Snapshot /\ ~Preempted /\ ~ModePending /\ target = "none" /\ phase' = "mode"

StartPds ==
    /\ Unowned
    /\ Accepted(state, od.command) # "none"
    /\ PdsTransition(Accepted(state, od.command))

NoCommand ==
    /\ Unowned
    /\ state \notin Faulted \cup {"notReady"}
    /\ Accepted(state, od.command) = "none"
    /\ UNCHANGED <<state, ownerVars, diag, busy>>

BecomeReady ==
    /\ Unowned /\ state = "notReady"
    /\ state' = "switchOnDisabled"
    /\ UNCHANGED <<ownerVars, diag, busy>>

FaultReaction ==
    /\ Unowned /\ state = "reaction"
    /\ React

-----------------------------------------------------------------------------
(* processFault(): the edge-triggered fault reset *)

RisingEdge == od.bit /\ ~previousBit

StayInFault ==
    /\ Unowned /\ state = "fault" /\ ~resetting /\ ~RisingEdge
    /\ UNCHANGED <<state, ownerVars, diag, busy>>

ResetAllowed == Unowned /\ state = "fault" /\ (resetting \/ RisingEdge)

ResetBusy ==
    /\ ResetAllowed
    /\ resetting' = TRUE /\ busy' = "reset"
    /\ UNCHANGED <<state, target, exiting, entering, diag>>

(* DONE, and CO_402_device_diag_clear() succeeds *)
ContractForgiven == TRUE
Clearable        == ~diag.contractFailed

ResetDone ==
    /\ ResetAllowed /\ Clearable
    /\ state' = "switchOnDisabled" /\ resetting' = FALSE /\ busy' = "none"
    /\ diag' = [diag EXCEPT !.fault = NoFault,
                            !.event = IF diag.fault = NoFault THEN @ ELSE "reset"]
    /\ UNCHANGED <<target, exiting, entering>>

(* ERROR, or DONE with a diagnosis that cannot be cleared: its contract is *)
(* broken already, or breaks now because Error code cannot be written.     *)
ResetFailed ==
    /\ ResetAllowed
    /\ state' = "reaction" /\ target' = "none" /\ RetireTokens /\ busy' = "none"
    /\ \E f \in Faults \cup {NoFault}, notCleared \in BOOLEAN :
           diag' = Latched([diag EXCEPT !.contractFailed = @ \/ notCleared], f)

-----------------------------------------------------------------------------
(* processModeSelection() and processActiveMode() *)

modePhaseVars == <<previousBit, follows, masterVars, outVars, link, request>>

ModePhase == phase = "mode" /\ target = "none" /\ phase' = "publish" /\ UNCHANGED modePhaseVars

PdsOwnsDrive ==
    /\ phase = "mode" /\ target # "none"
    /\ phase' = "publish"
    /\ UNCHANGED <<modePhaseVars, state, mode, ownerVars, diag, busy>>

ModeFailed == UNCHANGED mode /\ Error

(* continueModeExit(), first called with the mode just latched for exit *)
Exit(m) ==
    \/ /\ exiting' = m /\ busy' = "exit"
       /\ UNCHANGED <<state, mode, target, entering, resetting, diag>>
    \/ /\ mode' = NoMode /\ exiting' = NoMode /\ busy' = "none"
       /\ UNCHANGED <<state, target, entering, resetting, diag>>
    \/ ModeFailed

(* continueModeEnter() *)
Enter(m) ==
    \/ /\ entering' = m /\ busy' = "enter"
       /\ UNCHANGED <<state, mode, target, exiting, resetting, diag>>
    \/ /\ mode' = m /\ entering' = NoMode /\ busy' = "none"
       /\ UNCHANGED <<state, target, exiting, resetting, diag>>
    \/ ModeFailed

(* A pending callback is not polled in a state that does not allow it. *)
ContinueMode ==
    /\ ModePhase /\ ModePending
    /\ IF state \notin ModeStates THEN UNCHANGED <<state, mode, ownerVars, diag, busy>>
       ELSE IF exiting # NoMode THEN Exit(exiting)
       ELSE Enter(entering)

Selected ==
    request # Unsupported /\ request # mode /\ state \in ModeStates

SelectMode ==
    /\ ModePhase /\ ~ModePending /\ Selected
    /\ IF mode # NoMode THEN Exit(mode) ELSE Enter(request)

RunMode ==
    /\ ModePhase /\ ~ModePending /\ ~Selected
    /\ \/ UNCHANGED <<state, mode, ownerVars, diag, busy>>
       \/ state = "enabled" /\ mode \in ProfileModes /\ ModeFailed

-----------------------------------------------------------------------------
(* Statusword, then the EMCY bridge *)

Publish ==
    /\ phase = "publish"
    /\ status' = [state |-> state, mode |-> mode, follows |-> Eligible /\ follows]
    /\ phase' = "flush"
    /\ UNCHANGED <<state, mode, ownerVars, previousBit, follows, diag, masterVars,
                   emcy, link, request, busy>>

(* CO_402_device_RTT_flushDiagnostics().  CO_errorReport() of a bit that   *)
(* is already set does nothing.                                            *)
Flushed ==
    /\ diag' = [diag EXCEPT !.event = "none"]
    /\ emcy' = CASE diag.event = "report" -> IF emcy = NoFault THEN diag.fault ELSE emcy
                 [] diag.event = "reset"  -> NoFault
                 [] OTHER                 -> emcy

Flush ==
    /\ phase = "flush"
    /\ Flushed
    /\ phase' = "idle"
    /\ UNCHANGED <<state, mode, ownerVars, previousBit, follows, masterVars,
                   status, link, request, busy>>

-----------------------------------------------------------------------------
(* The rest of the device *)

(* An RPDO or an SDO download, under the OD lock *)
MasterWrites ==
    /\ link /\ phase \in {"idle", "flush"}
    /\ od' \in [command : Commands, bit : BOOLEAN, mode : Requests]
    /\ raised' = (raised \/ (od'.bit /\ ~od.bit))
    /\ UNCHANGED <<state, mode, ownerVars, previousBit, follows, diag, outVars,
                   link, phase, request, busy>>

(* CO_402_device_processSyncLocked() for this axis: the command may be     *)
(* rejected, its feedback missing or stale, the verdict negative.          *)
Sync ==
    /\ link /\ phase = "idle"
    /\ follows' \in IF Eligible THEN BOOLEAN ELSE {FALSE}
    /\ status' = IF mode \in CyclicModes THEN [status EXCEPT !.follows = follows']
                                         ELSE status
    /\ UNCHANGED <<state, mode, ownerVars, previousBit, diag, masterVars, emcy,
                   link, phase, request, busy>>

(* onCommunicationStop(), onCommunicationQuiesced() *)
CommunicationStop ==
    /\ link /\ phase = "idle"
    /\ link' = FALSE
    /\ UNCHANGED <<state, mode, ownerVars, previousBit, follows, diag, masterVars,
                   outVars, phase, request, busy>>

(* onCommunicationBind() with CO_402_device_diag_restoreAxis() and         *)
(* CO_402_device_onCommunicationReset(), then onCommunicationReady(): the  *)
(* new CO_EM_t has no error bit set.                                       *)
NotReplayed == diag.event
Replayed    == IF diag.fault # NoFault THEN "report" ELSE diag.event

CommunicationReady ==
    /\ ~link
    /\ link' = TRUE /\ follows' = FALSE
    /\ emcy' = IF Replayed = "report" THEN diag.fault ELSE NoFault
    /\ diag' = [diag EXCEPT !.event = "none"]
    /\ UNCHANGED <<state, mode, ownerVars, previousBit, masterVars, status, phase,
                   request, busy>>

Pass ==
    \/ PassBegin \/ ReadFailed \/ ReactNow
    \/ Preempt \/ ModeOwnsDrive \/ ContinuePds \/ StartPds \/ NoCommand
    \/ BecomeReady \/ FaultReaction
    \/ StayInFault \/ ResetBusy \/ ResetDone \/ ResetFailed
    \/ PdsOwnsDrive \/ ContinueMode \/ SelectMode \/ RunMode
    \/ Publish \/ Flush

Next == Pass \/ MasterWrites \/ Sync \/ CommunicationStop \/ CommunicationReady

Spec == Init /\ [][Next]_vars

(* The profile worker keeps running passes, the device leaves a reset, and *)
(* the product answers its two last-resort callbacks: faultReaction, and   *)
(* disableVoltage once it is latched.  No other callback need ever answer. *)
FairSpec ==
    /\ Spec
    /\ WF_vars(phase # "idle" /\ Pass)
    /\ SF_vars(PassBegin)
    /\ WF_vars(CommunicationReady)
    /\ SF_vars((FaultReaction \/ ReactNow) /\ state' = "fault")
    /\ SF_vars(ContinuePds /\ target = "switchOnDisabled" /\ target' = "none")

-----------------------------------------------------------------------------
(* Each variable keeps to its type, and only one axis can be mid-pass. *)
TypeOK ==
    /\ state \in States /\ mode \in Modes \cup {NoMode}
    /\ target \in States \cup {"none"}
    /\ exiting \in Modes \cup {NoMode} /\ entering \in Modes \cup {NoMode}
    /\ {resetting, previousBit, follows, link, raised} \subseteq BOOLEAN
    /\ diag \in [fault : Faults \cup {NoFault}, contractFailed : BOOLEAN,
                 event : {"none", "report", "reset"}]
    /\ od \in [command : Commands, bit : BOOLEAN, mode : Requests]
    /\ status \in [state : States, mode : Modes \cup {NoMode}, follows : BOOLEAN]
    /\ emcy \in Faults \cup {NoFault}
    /\ phase \in {"idle", "fsa", "react", "mode", "publish", "flush"}
    /\ request \in Requests
    /\ busy \in {"none", "pds", "exit", "enter", "reset", "reaction"}

(* At most one ownership token exists, and only in a state whose handler   *)
(* polls it: a mode callback left pending in Quick stop or Fault would     *)
(* make axisProcess() return early for ever, for it blocks the FSA and is  *)
(* itself not polled there.                                                *)
OneOwner ==
    /\ Cardinality({t \in {"pds", "exit", "enter", "reset"} :
           CASE t = "pds"   -> target # "none"
             [] t = "exit"  -> exiting # NoMode
             [] t = "enter" -> entering # NoMode
             [] t = "reset" -> resetting}) <= 1
    /\ ModePending => state \in ModeStates
    /\ resetting => state = "fault"
    /\ target # "none" => state \notin Faulted \cup {"notReady"}

(* Between passes the physical action that last answered BUSY is the one   *)
(* the software token names: none is left running without a poller after   *)
(* a takeover, and no token waits for an action the drive has finished.    *)
DriveMatchesOwner ==
    phase = "idle" =>
        CASE target # "none"    -> busy = "pds"
          [] exiting # NoMode   -> busy = "exit"
          [] entering # NoMode  -> busy = "enter"
          [] resetting          -> busy = "reset"
          [] state = "reaction" -> busy \in {"none", "reaction"}
          [] OTHER              -> busy = "none"


(* The axis is in a fault state exactly while a diagnosis is latched or    *)
(* its contract is broken: leaving Fault always clears the latch, so the   *)
(* product is polled again, and a broken contract is never left.           *)
DiagnosisCoherent ==
    state \in Faulted <=> diag.fault # NoFault \/ diag.contractFailed

(* When a pass or a communication reset is over, the error bit of the axis *)
(* in the current CO_EM_t is set exactly while a fault is latched, although*)
(* the event slot holds one event and a reset replaces CO_EM_t.            *)
EmcyMatchesDiagnosis ==
    link /\ phase = "idle" => (emcy # NoFault <=> diag.fault # NoFault)

(* State, latch and the error bit the master sees tell one story.          *)
FaultsAreCoherent == DiagnosisCoherent /\ EmcyMatchesDiagnosis

(* The bit stands for the fault latched now.  CO_402_device_diag_latch()   *)
(* suppresses repeated calls "so one CANopenNode error-status bit cannot   *)
(* silently change meaning mid-fault".                                     *)
EmcyBitKeepsMeaning ==
    link /\ phase = "idle" => emcy \in {NoFault, diag.fault}

(* Drive follows command is read only with Operation enabled and a cyclic  *)
(* mode, though the supervisor and co_rt both write that Statusword.       *)
FollowsOnlyWhenEnabled ==
    status.follows => status.state = "enabled" /\ status.mode \in CyclicModes

(* One owner in software, the drive does what that owner stands for, and   *)
(* Statusword says that it follows only an owner that commands it.         *)
OwnershipIsClear == TypeOK /\ OneOwner /\ DriveMatchesOwner /\ FollowsOnlyWhenEnabled

(* A fault reset starts only on a 0 -> 1 write of bit 7 that no earlier    *)
(* snapshot has seen: a bit held high since before the fault, or through   *)
(* an unreadable Controlword, resets nothing.                              *)
HeldBitNeverResets ==
    [][~resetting /\ state = "fault" /\ (resetting' \/ state' # "fault") => raised]_vars

(* PDS states change along the edges the supervisor documents, whatever    *)
(* is preempted, fails or is lost: no shortcut to Operation enabled, no    *)
(* way back from Quick stop but Disable voltage, no exit from a fault but  *)
(* through its reaction and a reset.                                       *)
Edges ==
    {<<"notReady", "switchOnDisabled">>, <<"switchOnDisabled", "ready">>,
     <<"ready", "switchedOn">>, <<"switchedOn", "ready">>,
     <<"switchedOn", "enabled">>, <<"enabled", "switchedOn">>,
     <<"enabled", "ready">>, <<"switchedOn", "quickStop">>, <<"enabled", "quickStop">>,
     <<"reaction", "fault">>, <<"fault", "switchOnDisabled">>}
    \cup {"ready", "switchedOn", "enabled", "quickStop"} \X {"switchOnDisabled"}
    \cup States \X {"reaction"}

LegalEdges == [][state' # state => <<state, state'>> \in Edges]_vars

(* States change along the documented edges, and out of Fault only on a    *)
(* fresh edge of bit 7.                                                    *)
EdgesAreEarned == HeldBitNeverResets /\ LegalEdges

(* A fault reaction ends in Fault, whatever the master writes and although *)
(* communication may be reset again and again.                             *)
ReactionEnds == state = "reaction" ~> state = "fault"

(* A master that holds Disable voltage gets it, even from an axis whose    *)
(* ordinary PDS or mode callback stays BUSY for ever.                      *)
DisableVoltageWins ==
    <>[](od.command = "disableVoltage") =>
        []<>(state \in {"switchOnDisabled", "fault"})

(* An axis comes to rest: no callback that stays BUSY keeps it from the    *)
(* end of a reaction or from a held Disable voltage.                       *)
AxisComesToRest == ReactionEnds /\ DisableVoltageWins
=============================================================================
