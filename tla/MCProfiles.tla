----------------------------- MODULE MCProfiles -----------------------------
(***************************************************************************)
(* The instance of Profiles on which TLC checks it, and its liveness.      *)
(***************************************************************************)
EXTENDS Profiles, TLC

MCConditionings == {<<1, 0>>, <<2, -1>>}
MCErrorMode     == [o \in {1, 2} |-> "value"]
Type(signed, low, high) == [signed |-> signed, low |-> low, high |-> high]
MCRanges ==
    {Type(TRUE, -32, 31), Type(FALSE, 0, 255), Type(TRUE, -4, 3), Type(FALSE, 0, 1)}

(* Each component's fairness.  Only one of them ever has an action enabled *)
(* in a behaviour, so the fairness of the alternatives is that of each.    *)
Fairness ==
    /\ WF_vars(\/ In("drive", Drive!Process)
               \/ In("analog", Analog!AnalogPass)
               \/ In("output", Output!Classify))
    /\ WF_vars(In("output", \E good \in SUBSET {1, 2} : Output!Apply(good)))
    /\ SF_vars(\/ In("drive", \E dt \in Drive!Steps, reply \in Drive!Replies :
                                  Drive!ReadStatusword(dt, reply))
               \/ In("digital", Digital!GoodPass)
               \/ In("analog", flagged /\ Analog!SendValue(TRUE))
               \/ In("output", Output!Apply({1, 2})))
    /\ SF_vars(\/ In("drive", Drive!ReadControlword /\ driveAt' = "write")
               \/ In("digital", Digital!RequestedSent(1))
               \/ In("analog", sourceFlag /\ Analog!SendSource(TRUE)))
    /\ SF_vars(In("drive", Drive!WriteAccepted) \/ In("digital", Digital!RequestedSent(2)))

FairSpec == Spec /\ Fairness
-----------------------------------------------------------------------------
(* An input event is reported, a stop that is owed reaches every output,   *)
(* and every reset pulse and target of the controller comes to an end, if  *)
(* readings, frames and transfers succeed now and then.                    *)
Goal == <<"OPERATION_ENABLED", "QUICK_STOP_ACTIVE">>

Begun(k) ==
    \/ part = "drive" /\ IF k = 3 THEN Drive!PulseIsOut ELSE target = Goal[k]
    \/ part = "digital" /\ Digital!EventOwed(k)
    \/ part = "analog" /\ eventOwed
    \/ part = "output" /\ mustStop

Ended(k) ==
    \/ part = "drive" /\ IF k = 3 THEN ~Drive!PulseIsOut ELSE Drive!Settled(Goal[k])
    \/ part = "digital" /\ Digital!EventSettled(k)
    \/ part = "analog" /\ Analog!EventSettled
    \/ part = "output" /\ ~mustStop

ProfilesSettle == \A k \in 1 .. 3 : Begun(k) ~> Ended(k)
=============================================================================
