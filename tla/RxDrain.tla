------------------------------- MODULE RxDrain -------------------------------
(***************************************************************************)
(* What CO_CANsetNormalMode() and CO_CANmodule_disable() promise about     *)
(* co_rx: it dispatches frames of an open module only, it leaves once it   *)
(* is told to, and the module is closed under no running co_rx.            *)
(***************************************************************************)

VARIABLES module,   \* "open" or "closed"
          rx,       \* co_rx: "off", "idle" or "busy"
          told      \* co_rx has been told to leave

drainVars == <<module, rx, told>>

Init == module = "closed" /\ rx = "off" /\ told = FALSE

Open ==
    /\ module = "closed"
    /\ module' = "open"
    /\ told' = FALSE
    /\ UNCHANGED rx

(* co_rx starts, or could not be started. *)
Start ==
    /\ module = "open" /\ rx = "off"
    /\ told' = FALSE
    /\ rx' \in {"off", "idle"}
    /\ UNCHANGED module

Receive    == rx = "idle" /\ rx' = "busy" /\ UNCHANGED <<module, told>>
Dispatched == rx = "busy" /\ rx' = "idle" /\ UNCHANGED <<module, told>>

Tell ==
    /\ module = "open"
    /\ told' = TRUE
    /\ UNCHANGED <<module, rx>>

Exit ==
    /\ told /\ rx = "idle"
    /\ rx' = "off"
    /\ UNCHANGED <<module, told>>

Close ==
    /\ rx = "off"
    /\ module' = "closed"
    /\ UNCHANGED <<rx, told>>

Next == Open \/ Start \/ Receive \/ Dispatched \/ Tell \/ Exit \/ Close

Spec == Init /\ [][Next]_drainVars

=============================================================================
