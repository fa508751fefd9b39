----------------------------- MODULE RemoteCall -----------------------------
(***************************************************************************)
(* What the profile master promises its callers (CO_profile_master_RTT.h): *)
(* a request that was accepted is decided once, at most one is accepted at *)
(* a time, and its caller returns with what was decided for it.            *)
(***************************************************************************)
CONSTANTS
    Callers,   \* application threads
    Outcomes,  \* CO_profile_transfer_status_t
    Undecided  \* no outcome yet

VARIABLES
    accepted,  \* callers that wait for a decision or for its delivery
    decision,  \* what was decided for them
    returned   \* what the last call of each caller returned

vars == <<accepted, decision, returned>>

Init ==
    /\ accepted = {}
    /\ decision = [c \in Callers |-> Undecided]
    /\ returned = [c \in Callers |-> Undecided]

Accept(c) ==
    /\ accepted = {}
    /\ accepted' = {c}
    /\ UNCHANGED <<decision, returned>>

Decide(c, o) ==
    /\ c \in accepted /\ decision[c] = Undecided
    /\ decision' = [decision EXCEPT ![c] = o]
    /\ UNCHANGED <<accepted, returned>>

Return(c) ==
    /\ c \in accepted /\ decision[c] # Undecided
    /\ accepted' = accepted \ {c}
    /\ decision' = [decision EXCEPT ![c] = Undecided]
    /\ returned' = [returned EXCEPT ![c] = decision[c]]

Next == \E c \in Callers :
    \/ Accept(c)
    \/ \E o \in Outcomes : Decide(c, o)
    \/ Return(c)

Spec == Init /\ [][Next]_vars
=============================================================================
