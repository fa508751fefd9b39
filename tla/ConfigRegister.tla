---------------------------- MODULE ConfigRegister ----------------------------
(***************************************************************************)
(* What the persisted LSS record promises: a register that holds one whole *)
(* configuration or none.  Only a store touches it; on the way it may lose *)
(* the old value, and it is never seen in between.  A store that reports   *)
(* success has replaced it; one that fails, or is cut off, leaves the old  *)
(* value, the new one, or none.                                            *)
(***************************************************************************)
CONSTANTS Configs, None

VARIABLES
    value,      \* what a start would read
    asked,      \* the configuration being stored, or None
    acked       \* the last one stored with success, None once a store has begun

Init == value = None /\ asked = None /\ acked = None

Begin(c) == asked = None /\ asked' = c /\ acked' = None /\ UNCHANGED value

Lose == asked # None /\ value' = None /\ UNCHANGED <<asked, acked>>

Take == asked # None /\ value' = asked /\ UNCHANGED <<asked, acked>>

Succeed == asked # None /\ value = asked /\ acked' = asked /\ asked' = None /\ UNCHANGED value

(* The store has failed, or power was lost, perhaps in its last write. *)
Fail == asked # None /\ asked' = None /\ value' \in {value, asked, None} /\ UNCHANGED acked

Next == (\E c \in Configs : Begin(c)) \/ Lose \/ Take \/ Succeed \/ Fail

Spec == Init /\ [][Next]_<<value, asked, acked>>

=============================================================================
