---------------------------- MODULE GenerationPin ----------------------------
(***************************************************************************)
(* What lifecycleMutex and the CAN RX drain promise together: a thread     *)
(* that works on a CO_t works on the current one, and a CO_t is retired    *)
(* only when nobody works on it.  Generations number the successive CO_t   *)
(* objects of one application; 0 stands for a NULL pointer.                *)
(***************************************************************************)
EXTENDS Naturals

CONSTANT Users          \* threads that dereference app->canOpenStack

VARIABLES current,      \* generation published in app->canOpenStack, or 0
          made,         \* generations created so far
          pin           \* generation each user works on, or 0

pinVars == <<current, made, pin>>

PinTypeOK ==
    /\ current \in Nat
    /\ made \in Nat
    /\ pin \in [Users -> Nat]

Init ==
    /\ current = 0
    /\ made = 0
    /\ pin = [u \in Users |-> 0]

Create ==
    /\ current = 0
    /\ current' = made + 1
    /\ made' = made + 1
    /\ UNCHANGED pin

Acquire(u) ==
    /\ current # 0
    /\ pin[u] = 0
    /\ pin' = [pin EXCEPT ![u] = current]
    /\ UNCHANGED <<current, made>>

Release(u) ==
    /\ pin[u] # 0
    /\ pin' = [pin EXCEPT ![u] = 0]
    /\ UNCHANGED <<current, made>>

Retire ==
    /\ current # 0
    /\ \A u \in Users : pin[u] = 0
    /\ current' = 0
    /\ UNCHANGED <<made, pin>>

Next ==
    \/ Create
    \/ Retire
    \/ \E u \in Users : Acquire(u) \/ Release(u)

Spec == Init /\ [][Next]_pinVars

=============================================================================
