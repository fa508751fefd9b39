------------------------------- MODULE MCNode -------------------------------
(***************************************************************************)
(* The instance of Node on which TLC checks it, and its liveness.          *)
(***************************************************************************)
EXTENDS Node, TLC

AxisModes(profile, handoff, cyclic) ==
    [switchesModes |-> TRUE, profile |-> profile, handoff |-> handoff, cyclic |-> cyclic]
FullAxis == AxisModes({"PP", "PV", "HM"}, TRUE, {"CSP", "CSV", "CST"})
PlainAxis == AxisModes({"PV"}, FALSE, {"CST"})
Axis(name, number, modes) == [name |-> name, slot |-> number, interface |-> modes]
Half(number, profile) == [slot |-> number, profile |-> profile]
Hooks == {"readDigital8", "setDigitalInputFilter8", "writeDigital8", "writeDigital8Masked",
          "readAnalog16", "writeAnalog16"}
Product(mixed, number, caps, axes, descriptors) ==
    [mixed |-> mixed, slot |-> number, caps |-> caps, hooks |-> Hooks, axes |-> axes,
     descriptors |-> descriptors]
MCProducts ==
    { Product(TRUE, 0, {"DI", "DO", "AI", "AO"},
              <<Axis("axis1", 1, FullAxis), Axis("axis2", 2, PlainAxis)>>,
              <<Half(0, "401"), Half(1, "402"), Half(2, "402")>>),
      Product(TRUE, 1, {"DI", "AO"},
              <<Axis("axis1", 2, PlainAxis), Axis("axis2", 2, PlainAxis)>>,
              <<Half(1, "401"), Half(2, "402")>>),
      Product(FALSE, 0, {"DO", "AI"}, <<>>, <<>>) }

MCLssDelays == {-1, 2, 11}

Fixes(rtr, bits) == [rtr |-> rtr, fixed |-> bits]
MCSlotRules ==
    << {Fixes(FALSE, <<0, 0, 0>>), Fixes(TRUE, <<0, 1, 0>>)},
       {Fixes(FALSE, <<0, 0, 1>>), Fixes(FALSE, <<0, 0>>)},
       {Fixes(FALSE, <<1, 1, 0>>), Fixes(TRUE, <<0, 1, 1>>)} >>

(* CanFilter's fairness, asked of the behaviours that exercise it.         *)
Fairness ==
    /\ WF_vars(InFilter(Filter!Process))
    /\ \A t \in {"co_main", "other"} :
        /\ WF_vars(InFilter(Filter!Proceed(t)))
        /\ SF_vars(InFilter(Filter!Enter(t)))
        /\ SF_vars(InFilter(Filter!Apply(t)))

FairSpec == Spec /\ Fairness
-----------------------------------------------------------------------------
(* A hardware filter that is owed a rebuild gets it.                       *)
FilterCatchesUp == Filter!FilterCatchesUp
=============================================================================
