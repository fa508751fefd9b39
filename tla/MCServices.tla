----------------------------- MODULE MCServices -----------------------------
(***************************************************************************)
(* The instance of Services on which TLC checks it, and its liveness.      *)
(***************************************************************************)
EXTENDS Services

(* Each component's fairness.  Only one of them ever has an action enabled *)
(* in a behaviour, so the fairness of the alternatives is that of each.    *)
Fairness ==
    /\ []<>(part = "rx" => Rx!RxBlocked)
    /\ WF_vars(\/ In("rx", Rx!RxSteps)
               \/ In("eeprom", Eeprom!SaveAllByte \/ Eeprom!SaveAllDone \/ Eeprom!Sign)
               \/ In("nmt", Nmt!Demo)
               \/ In("emcy", Emcy!Pass))
    /\ WF_vars(In("emcy", Emcy!Record("co_rx") \/ Emcy!Bind))
    /\ SF_vars(\/ In("rx", Rx!StopSteps)
               \/ In("eeprom", Eeprom!GoodUpdate(1))
               \/ In("nmt", Nmt!OnTime))
    /\ SF_vars(In("eeprom", Eeprom!GoodUpdate(0)))

FairSpec == Spec /\ Fairness
-----------------------------------------------------------------------------
(* Disabling the module returns, the NMT test ends, an automatic entry is  *)
(* saved and the newest emergency message is shown.                        *)
Begun ==
    \/ part = "rx" /\ Rx!StopCalled
    \/ part = "nmt" /\ Nmt!TestBegun
    \/ part = "emcy" /\ Emcy!LastRecorded
Ended ==
    \/ part = "rx" /\ Rx!StopReturned
    \/ part = "nmt" /\ Nmt!TestOver
    \/ part = "emcy" /\ Emcy!LastShown

ServicesSettle == (Begun ~> Ended) /\ Eeprom!AutoSaves
=============================================================================
