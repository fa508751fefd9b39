---------------------------- MODULE MotionModes ----------------------------
(***************************************************************************)
(* The profile position (PP), profile velocity (PV) and homing (HM) modes  *)
(* of one CiA 402 axis: what the supervisor hands to the product for the   *)
(* Controlword's bit 4, against a master that writes the object            *)
(* dictionary, the console command "cia402" and PDS transitions.           *)
(*                                                                         *)
(* A supervisor pass and a console command each run under lifecycleMutex   *)
(* and the OD lock, so neither sees the other half done.  The PDS state    *)
(* machine is PdsSupervisor's; here it may do in a pass whatever it may do *)
(* to the mode step that follows.                                          *)
(***************************************************************************)
EXTENDS Naturals

CONSTANTS
    Params,           \* contents of the objects with a mode's parameters
    NoMode,           \* CO_402_MODE_NONE
    Other             \* a request for a mode this axis does not advertise

VARIABLES
    pds,              \* "enabled", "idle" (a mode may still change) or "safety"
    owner,            \* axis->pdsTransitionOperation # NULL
    mode, exiting, entering,
    asked,            \* 16#6060
    start,            \* Controlword bit 4
    params,           \* the parameters of the modes in the dictionary
    run,              \* axis->pp, axis->pv or axis->hm, that of the active mode
    handed,           \* what the last mode step gave to the product
    passPhase,        \* "idle", or "mode" once the PDS step of a pass is over
    \* what an observer remembers
    promised,         \* "cia402 start" has been acknowledged and nothing revoked it
    risen,            \* bit 4 rose since the axis last was not ready for a command
    interrupted,      \* bit 4 was seen low since homing began
    ordered           \* the parameters the current command began with

EdgeModes == {"PP", "HM"}
Modes     == EdgeModes \cup {"PV"}

MotionAssumption == Params # {} /\ NoMode \notin Modes /\ Other \notin Modes \cup {NoMode}

axisVars  == <<pds, owner, exiting, entering>>
orderVars == <<asked, start, params>>
seenVars  == <<promised, risen, interrupted, ordered>>
vars == <<axisVars, mode, orderVars, run, handed, passPhase, seenVars>>

Pending == exiting # NoMode \/ entering # NoMode

(* The axis takes commands of its mode. *)
Operational == pds = "enabled" /\ ~owner /\ ~Pending

Unordered == CHOOSE p \in Params : TRUE
Nothing   == [kind |-> "none", params |-> Unordered]

(* CO_402_mode_pp_reset(), CO_402_mode_hm_reset(), CO_402_mode_pv_reset(), *)
(* and a mutant that does not look at the live bit                         *)
Blank(m, sampled) ==
    [previous |-> sampled, acknowledge |-> FALSE, active |-> FALSE, aborting |-> FALSE,
     attained |-> FALSE, reached |-> m = "HM", error |-> FALSE,
     accepted |-> Unordered]
NotSampled(m) == Blank(m, FALSE)
Reset(m)      == Blank(m, start /\ m \in EdgeModes)

(* resetModeRuntime() of the active mode, if there is one *)
ResetIn(m) == run' = IF m = NoMode THEN run ELSE Reset(m)

Init ==
    /\ pds = "idle" /\ owner = FALSE
    /\ mode = NoMode /\ exiting = NoMode /\ entering = NoMode
    /\ asked = NoMode /\ start = FALSE /\ params \in Params
    /\ run = Blank(NoMode, FALSE)
    /\ handed = Nothing
    /\ passPhase = "idle"
    /\ promised = "no" /\ risen = FALSE /\ interrupted = FALSE
    /\ ordered = Unordered

-----------------------------------------------------------------------------
(* The dictionary is written: by the network, or by the console.           *)

Revoked == promised' = IF start' /\ asked' = mode THEN promised ELSE "no"

Written(bit) ==
    /\ passPhase = "idle"
    /\ start' = bit
    /\ risen' = (risen \/ (bit /\ ~start))
    /\ UNCHANGED <<axisVars, mode, run, handed, passPhase, interrupted, ordered>>

(* "cia402 cw" and a received Controlword; "cia402 pds" always clears the  *)
(* bit, and so does "cia402 stop"                                          *)
WriteControlword ==
    /\ \E bit \in BOOLEAN : Written(bit)
    /\ UNCHANGED <<asked, params>> /\ Revoked

(* "cia402 mode", which refuses what the axis does not advertise, and a    *)
(* received 16#6060, which may hold anything                               *)
WriteMode ==
    /\ Written(start)
    /\ asked' \in Modes \cup {NoMode, Other}
    /\ UNCHANGED params /\ Revoked

(* "cia402 pp", "pv" and "hm", and received parameters.  A write that      *)
(* fails half-way leaves some of them; bit 4 stays as it is.               *)
WriteParameters ==
    /\ Written(start)
    /\ params' \in Params
    /\ UNCHANGED <<asked, promised>>

(* CO_402_mshSetBit(): "cia402 start" is refused unless the next pass can  *)
(* see the bit rise in the mode it is meant for.                           *)
Consumable == ~start /\ asked = mode /\ mode \in EdgeModes /\ Operational /\ ~run.previous
NotYetConsumed == ~start /\ asked = mode /\ mode \in EdgeModes /\ Operational

Consumed == Consumable

StartAccepted ==
    /\ Consumed
    /\ Written(TRUE)
    /\ promised' = IF mode = "HM" /\ run.active THEN "abort" ELSE "yes"
    /\ UNCHANGED <<asked, params>>

-----------------------------------------------------------------------------
(* A pass: the PDS step                                                    *)

Faulted == pds' = "safety" /\ owner' = FALSE /\ exiting' = NoMode /\ entering' = NoMode

(* CO_402_device_axisProcess().  A pending mode entry or exit holds back   *)
(* every command but the safety ones, which retire it.                     *)
PdsHolds == UNCHANGED axisVars
PdsMoves ==
    /\ ~Pending
    /\ pds' \in {"enabled", "idle", "safety"} /\ owner' \in BOOLEAN
    /\ pds' = "enabled" => pds # "safety"
    /\ UNCHANGED <<exiting, entering>>
PdsPreempts ==
    /\ Pending
    /\ \/ pds' = pds /\ owner' = TRUE
       \/ pds' \in {"idle", "safety"} /\ owner' = FALSE
    /\ exiting' = NoMode /\ entering' = NoMode

PdsStep ==
    /\ passPhase = "idle" /\ passPhase' = "mode"
    /\ PdsHolds \/ PdsMoves \/ PdsPreempts \/ Faulted
    /\ promised' = IF UNCHANGED axisVars THEN promised ELSE "no"
    /\ handed' = Nothing
    /\ UNCHANGED <<mode, orderVars, run, risen, interrupted, ordered>>

(* CO_402_device_axisControlwordReadFailed(): no mode step in this pass    *)
ReadFailed ==
    /\ passPhase = "idle"
    /\ Faulted
    /\ promised' = "no"
    /\ UNCHANGED <<mode, orderVars, run, handed, passPhase, risen, interrupted, ordered>>

-----------------------------------------------------------------------------
(* The mode step                                                           *)

ModeStep == passPhase = "mode" /\ passPhase' = "idle" /\ UNCHANGED orderVars

(* Nothing is commanded, and the bit has to rise again.                    *)
NotReady ==
    /\ handed' = Nothing
    /\ risen' = FALSE
    /\ IF run'.active \/ run'.attained
       THEN UNCHANGED <<interrupted, ordered>>
       ELSE interrupted' = FALSE /\ ordered' = Unordered

PdsOwns ==
    /\ ModeStep /\ owner
    /\ ResetIn(mode) /\ NotReady
    /\ UNCHANGED <<axisVars, mode, promised>>

(* What is left of a pass that went to mode entry or exit                  *)
Paused == run' = IF pds # "enabled" /\ mode # NoMode THEN Reset(mode) ELSE run

(* continueModeExit(): BUSY, DONE and ERROR                                *)
Exit(m) ==
    /\ \/ exiting' = m /\ Paused /\ UNCHANGED <<pds, owner, entering, mode, promised>>
       \/ /\ pds # "safety" /\ mode' = NoMode /\ exiting' = NoMode
          /\ ResetIn(mode) /\ UNCHANGED <<pds, owner, entering, promised>>
       \/ pds # "safety" /\ Faulted /\ promised' = "no" /\ UNCHANGED <<mode, run>>
    /\ NotReady

(* continueModeEnter(): BUSY, DONE and ERROR                               *)
Enter(m) ==
    /\ \/ entering' = m /\ Paused /\ UNCHANGED <<pds, owner, exiting, mode, promised>>
       \/ /\ pds # "safety" /\ mode' = m /\ entering' = NoMode
          /\ ResetIn(m) /\ UNCHANGED <<pds, owner, exiting, promised>>
       \/ pds # "safety" /\ Faulted /\ promised' = "no" /\ UNCHANGED <<mode, run>>
    /\ NotReady

(* processModeSelection() *)
Selected == asked \in Modes \cup {NoMode} /\ asked # mode /\ pds # "safety"

ContinueExit  == ModeStep /\ ~owner /\ exiting # NoMode /\ Exit(exiting)
ContinueEnter == ModeStep /\ ~owner /\ exiting = NoMode /\ entering # NoMode /\ Enter(entering)
LeaveMode     == ModeStep /\ ~owner /\ ~Pending /\ Selected /\ mode # NoMode /\ Exit(mode)
TakeMode      == ModeStep /\ ~owner /\ ~Pending /\ Selected /\ mode = NoMode /\ Enter(asked)

(* processActiveMode() outside Operation enabled, or with no mode          *)
NoCommand ==
    /\ ModeStep /\ ~owner /\ ~Pending /\ ~Selected
    /\ pds # "enabled" \/ mode = NoMode
    /\ ResetIn(mode) /\ NotReady
    /\ UNCHANGED <<axisVars, mode, promised>>

Commanded(m) ==
    /\ ModeStep /\ Operational /\ ~Selected /\ mode = m
    /\ UNCHANGED mode

Rising == start /\ ~run.previous

(* The product answers BUSY, DONE or ERROR to a command, or the parameters *)
(* of a new one cannot be read; either failure is a fault.                 *)
Succeeds == UNCHANGED axisVars
Fails    == Faulted
Handing(kind, p) ==
    /\ handed' = [kind |-> kind, params |-> p]
    /\ ordered' = IF kind = "edge" THEN params ELSE ordered
    /\ risen' = (risen /\ kind # "edge")
    /\ promised' = IF kind = "edge" \/ pds' = "safety" THEN "no" ELSE promised

NothingHanded ==
    /\ handed' = Nothing
    /\ promised' = IF pds' = "safety" THEN "no" ELSE promised
    /\ UNCHANGED <<ordered, risen>>

-----------------------------------------------------------------------------
(* CO_402_mode_pp_process() *)

(* The parameters of a command are those of its edge.                      *)
LiveParams == params
OwnParams  == IF Rising THEN params ELSE run.accepted

PpSeen == [run EXCEPT !.previous = start, !.acknowledge = @ /\ start, !.error = FALSE]
PpLost == [PpSeen EXCEPT !.acknowledge = FALSE, !.active = FALSE, !.reached = FALSE, !.error = TRUE]

PpWait ==
    /\ Commanded("PP") /\ ~Rising /\ ~run.active
    /\ run' = PpSeen /\ Succeeds /\ NothingHanded
    /\ UNCHANGED interrupted

PpUnreadable ==
    /\ Commanded("PP") /\ Rising
    /\ run' = PpLost /\ Fails /\ NothingHanded
    /\ UNCHANGED interrupted

PpCommand ==
    /\ Commanded("PP") /\ (Rising \/ run.active)
    /\ LET taken == [PpSeen EXCEPT !.acknowledge = @ \/ Rising, !.accepted = OwnParams]
       IN \/ /\ \E busy \in BOOLEAN : run' = [taken EXCEPT !.active = busy, !.reached = ~busy]
             /\ Succeeds
          \/ run' = [PpLost EXCEPT !.accepted = OwnParams] /\ Fails
    /\ Handing(IF Rising THEN "edge" ELSE "poll", OwnParams)
    /\ UNCHANGED interrupted

(* CO_402_mode_pv_process(): the parameters of the moment, every pass      *)
PvCommand ==
    /\ Commanded("PV")
    /\ \/ \E busy \in BOOLEAN : run' = [run EXCEPT !.reached = ~busy] /\ Succeeds
       \/ run' = [run EXCEPT !.reached = FALSE] /\ Fails
    /\ \/ Handing("poll", params)
       \/ NothingHanded /\ pds' = "safety"
    /\ UNCHANGED interrupted

-----------------------------------------------------------------------------
(* CO_402_mode_hm_process() *)

(* An abort that has begun is carried through, whatever bit 4 does next.   *)
LiveAbort == ~start
Aborting  == run.aborting \/ ~start

HmAccepts == Rising /\ ~run.active
HmLost == [run EXCEPT !.previous = start, !.active = FALSE, !.aborting = FALSE,
                      !.attained = FALSE, !.reached = FALSE, !.error = TRUE]

HmWait ==
    /\ Commanded("HM") /\ ~Rising /\ ~run.active
    /\ run' = [run EXCEPT !.previous = start, !.error = FALSE]
    /\ Succeeds /\ NothingHanded
    /\ UNCHANGED interrupted

HmUnreadable ==
    /\ Commanded("HM") /\ HmAccepts
    /\ run' = HmLost /\ Fails /\ NothingHanded
    /\ UNCHANGED interrupted

HmCommand ==
    /\ Commanded("HM") /\ (HmAccepts \/ run.active)
    /\ LET mine == IF HmAccepts THEN params ELSE run.accepted
           base == [run EXCEPT !.previous = start, !.error = FALSE, !.accepted = mine,
                               !.attained = @ /\ ~HmAccepts]
           kind == IF Aborting THEN "abort" ELSE IF Rising THEN "edge" ELSE "poll"
       IN /\ \/ /\ run' = [base EXCEPT !.active = TRUE, !.aborting = Aborting,
                                       !.reached = FALSE]
                /\ Succeeds
             \/ /\ run' = [base EXCEPT !.active = FALSE, !.aborting = FALSE,
                                       !.reached = TRUE, !.attained = ~Aborting]
                /\ Succeeds
             \/ run' = [HmLost EXCEPT !.accepted = mine] /\ Fails
          /\ Handing(kind, mine)
    /\ interrupted' = IF HmAccepts THEN FALSE ELSE interrupted \/ ~start

(* CO_402_mode_hm_statusword() and modeStatusword() *)
HomingAttained == mode = "HM" /\ run.attained

Supervise ==
    \/ PdsOwns \/ ContinueExit \/ ContinueEnter \/ LeaveMode \/ TakeMode \/ NoCommand
    \/ PpWait \/ PpUnreadable \/ PpCommand \/ PvCommand
    \/ HmWait \/ HmUnreadable \/ HmCommand

Next ==
    \/ WriteControlword \/ WriteMode \/ WriteParameters \/ StartAccepted
    \/ PdsStep \/ ReadFailed \/ Supervise

Spec == Init /\ [][Next]_vars
-----------------------------------------------------------------------------
(* A start that "cia402 start" acknowledged is still to be seen by the     *)
(* supervisor until it has been handed to the product as an edge, unless   *)
(* the master or a fault took it back (CO_402_device_RTT_msh.c:586).  Of a *)
(* homing that is being aborted it is not true: that start may be lost.    *)
StartIsKept ==
    passPhase = "idle" /\ promised = "yes" => start /\ ~run.previous /\ Operational

(* Homing attained (Statusword bit 12) is only said of a homing that ran   *)
(* with bit 4 held from its edge to its end: the end of an abort is not    *)
(* taken for it, even if the bit has risen again.                          *)
HomingIsHonest == HomingAttained => ~interrupted

(* While a command runs, the product goes on getting the parameters it     *)
(* began with, whatever has been written to the dictionary since.          *)
CommandIsOwned ==
    mode \in EdgeModes /\ handed.kind \in {"poll", "abort"} => handed.params = ordered

(* The product is told of a new set-point or homing only if bit 4 rose     *)
(* while the axis was ready for it, or in the very write that made it so:  *)
(* a bit left high does not start a motion on mode entry or enabling.      *)
EdgeIsFresh == [][handed'.kind = "edge" /\ passPhase = "mode" => risen]_vars

MotionIsSafe == StartIsKept /\ HomingIsHonest /\ CommandIsOwned
=============================================================================
