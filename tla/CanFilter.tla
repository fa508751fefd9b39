----------------------------- MODULE CanFilter -----------------------------
(***************************************************************************)
(* The hardware receive filter (CO_can_filter_RTT.c).  A change of a       *)
(* software receive rule marks the filter dirty; the table of at most      *)
(* Capacity coarse rules is then rebuilt under rxRuleMutex by the thread   *)
(* that made the change, or later by co_main (CO_CANmodule_process()).     *)
(* A rule is a frame type and the identifier bits it fixes, which is what  *)
(* an identifier and its mask say.                                         *)
(***************************************************************************)
EXTENDS Naturals, FiniteSets, Functions

CONSTANTS
    Width,      \* identifier bits
    SlotRules,  \* SlotRules[i]: the rules written to slot i of rxArray
    Capacity,   \* PKG_CANOPENNODE_RX_HDR_BANK_COUNT
    Threads,    \* threads that configure receive buffers, co_main among them
    Main, Nobody, NoRule

Bits == 1 .. Width
RuleSet == {[rtr |-> r, fixed |-> f] : r \in BOOLEAN, f \in UNION {[B -> {0, 1}] : B \in SUBSET Bits}}
Slots == DOMAIN SlotRules

FilterAssumption ==
    /\ Width \in Nat /\ Capacity \in Nat \ {0} /\ Main \in Threads /\ Nobody \notin Threads
    /\ IsFiniteSet(Slots) /\ Slots = 1 .. Cardinality(Slots)
    /\ \A i \in Slots : SlotRules[i] \subseteq RuleSet

VARIABLES
    slot,       \* rxArray: its rule, NoRule without pCANrx_callback
    dirty,      \* rxFilterDirty
    normal,     \* CANnormal
    inUse,      \* useCANrxFilters
    mutex,      \* holder of rxRuleMutex
    pc,         \* where each thread is
    table,      \* the table a thread has compiled
    broad,      \* fallback: the table is the broad one
    hardware    \* rules in the banks of the controller

vars == <<slot, dirty, normal, inUse, mutex, pc, table, broad, hardware>>

-----------------------------------------------------------------------------
Covers(outer, inner) ==
    /\ outer.rtr = inner.rtr
    /\ DOMAIN outer.fixed \subseteq DOMAIN inner.fixed
    /\ \A b \in DOMAIN outer.fixed : outer.fixed[b] = inner.fixed[b]

AgreeOn(left, right) ==
    {b \in DOMAIN left.fixed \cap DOMAIN right.fixed : left.fixed[b] = right.fixed[b]}
LeftBits(left, right) == DOMAIN left.fixed
MergedBits(left, right) == AgreeOn(left, right)
Merge(left, right) == [left EXCEPT !.fixed = Restrict(left.fixed, MergedBits(left, right))]
Specificity(rule) == Cardinality(DOMAIN rule.fixed)

(* Drops every rule that another one covers.                               *)
Compact(rules) == {r \in rules : \A o \in rules \ {r} : ~Covers(o, r)}

(* The merges the heuristic may choose among: those that keep most bits.   *)
Pairs(rules, others) == {p \in rules \X others : p[1] # p[2] /\ p[1].rtr = p[2].rtr}
Narrowest(pairs) ==
    {p \in pairs : \A q \in pairs : Specificity(Merge(q[1], q[2])) <= Specificity(Merge(p[1], p[2]))}
Merged(rules, p) == Compact((rules \ {p[1], p[2]}) \cup {Merge(p[1], p[2])})

(* The tables one more rule can lead to; none if it does not fit.          *)
Add(rules, rule) ==
    IF \E r \in rules : Covers(r, rule) THEN {rules}
    ELSE IF \E r \in rules : Covers(rule, r) THEN {Compact(rules \cup {rule})}
    ELSE IF Cardinality(rules) < Capacity THEN {rules \cup {rule}}
    ELSE IF Pairs(rules, {rule}) # {} THEN {Merged(rules, p) : p \in Narrowest(Pairs(rules, {rule}))}
    ELSE {Merged(rules, p) \cup {rule} : p \in Narrowest(Pairs(rules, rules))}

(* co_rtt_compile_ingress_rules_locked(): slot after slot; every table the *)
(* choices between equally narrow merges can lead to.                      *)
Compiled(rules) ==
    LET upTo[i \in 0 .. Cardinality(Slots)] ==
            IF i = 0 THEN {{}}
            ELSE IF rules[i] = NoRule THEN upTo[i - 1]
            ELSE UNION {Add(t, rules[i]) : t \in upTo[i - 1]}
    IN  upTo[Cardinality(Slots)]

(* co_rtt_build_broad_fallback_locked(): one open rule per frame type in   *)
(* use, data frames if none is; it may not fit either.                     *)
Open(rtr) == [rtr |-> rtr, fixed |-> Restrict([b \in Bits |-> 0], {})]
Broad(rules) ==
    LET types == {rules[i].rtr : i \in {j \in Slots : rules[j] # NoRule}} IN
    {Open(t) : t \in IF types = {} THEN {FALSE} ELSE types}

-----------------------------------------------------------------------------
Init ==     \* CO_CANmodule_init()
    /\ slot = [i \in Slots |-> NoRule]
    /\ dirty = TRUE /\ normal = FALSE /\ inUse = FALSE
    /\ mutex = Nobody
    /\ pc = [t \in Threads |-> "idle"]
    /\ table = {} /\ broad = FALSE
    /\ hardware = {Open(FALSE), Open(TRUE)}     \* no filter: every frame comes in

Goto(t, label) == pc' = [pc EXCEPT ![t] = label]
MutexIgnored == TRUE
MutexFree == mutex = Nobody

(* CO_CANrxBufferInit(): before normal mode by co_main alone, later by any *)
(* thread that writes an OD entry with a COB-ID.                           *)
BufferInit(t) ==
    /\ pc[t] = "idle" /\ (normal \/ t = Main)
    /\ MutexFree /\ mutex' = t
    /\ Goto(t, "write")
    /\ UNCHANGED <<slot, dirty, normal, inUse, table, broad, hardware>>

WriteRule(t) ==
    /\ pc[t] = "write"
    /\ \E i \in Slots : \E rule \in SlotRules[i] \cup {NoRule} : slot' = [slot EXCEPT ![i] = rule]
    /\ Goto(t, "mark")
    /\ UNCHANGED <<dirty, normal, inUse, mutex, table, broad, hardware>>

AfterWrite == IF normal THEN "check" ELSE "idle"
MarkDirty(t) ==
    /\ pc[t] = "mark"
    /\ dirty' = TRUE /\ mutex' = Nobody
    /\ Goto(t, AfterWrite)
    /\ UNCHANGED <<slot, normal, inUse, table, broad, hardware>>

(* CO_CANsetNormalMode() forces a rebuild before reception starts.         *)
SetNormalMode ==
    /\ pc[Main] = "idle" /\ ~normal
    /\ Goto(Main, "force")
    /\ UNCHANGED <<slot, dirty, normal, inUse, mutex, table, broad, hardware>>

(* CO_CANmodule_process() retries a rebuild that is owed.                  *)
NotRetried == FALSE
Retried == pc[Main] = "idle" /\ normal /\ dirty
Process ==
    /\ Retried
    /\ Goto(Main, "check")
    /\ UNCHANGED <<slot, dirty, normal, inUse, mutex, table, broad, hardware>>

-----------------------------------------------------------------------------
(* co_rtt_can_filter_refresh()                                             *)
FastPath(t) ==
    /\ pc[t] = "check"
    /\ Goto(t, IF dirty THEN "lock" ELSE "idle")
    /\ UNCHANGED <<slot, dirty, normal, inUse, mutex, table, broad, hardware>>

Recheck(t) ==       \* after rt_mutex_take(): another thread may have done it
    /\ pc[t] = "lock" /\ ~dirty /\ MutexFree
    /\ Goto(t, "idle")
    /\ UNCHANGED <<slot, dirty, normal, inUse, mutex, table, broad, hardware>>

(* An empty table is refused by co_rtt_apply_ingress_rules(), so it takes  *)
(* the fallback too.                                                       *)
Compile(t) ==
    /\ pc[t] = "force" \/ (pc[t] = "lock" /\ dirty)
    /\ MutexFree /\ mutex' = t
    /\ IF Compiled(slot) \in {{}, {{}}}
       THEN table' = Broad(slot) /\ broad' = TRUE
       ELSE table' \in Compiled(slot) /\ broad' = FALSE
    /\ Goto(t, IF pc[t] = "force" THEN "programForced" ELSE "program")
    /\ UNCHANGED <<slot, dirty, normal, inUse, hardware>>

Programming(t) == pc[t] \in {"program", "programForced"}

(* Every bank is written, so nothing of an older table stays.              *)
Added == table \cup hardware
Overwritten == table
Apply(t) ==
    /\ Programming(t) /\ Cardinality(table) <= Capacity
    /\ hardware' = Overwritten
    /\ dirty' = FALSE /\ inUse' = TRUE
    /\ mutex' = Nobody
    /\ normal' = (normal \/ pc[t] = "programForced")
    /\ table' = {} /\ broad' = FALSE
    /\ Goto(t, "idle")
    /\ UNCHANGED slot

(* RT_CAN_CMD_SET_FILTER fails: the broad table is tried, if it was not    *)
(* the one that failed.                                                    *)
FallBack(t) ==
    /\ Programming(t) /\ ~broad
    /\ table' = Broad(slot) /\ broad' = TRUE
    /\ UNCHANGED <<slot, dirty, normal, inUse, mutex, pc, hardware>>

Forgiven == FALSE
StillDirty == dirty
GiveUp(t) ==
    /\ Programming(t) /\ broad
    /\ inUse' = FALSE /\ dirty' = StillDirty
    /\ mutex' = Nobody
    /\ table' = {} /\ broad' = FALSE
    /\ Goto(t, "idle")
    /\ UNCHANGED <<slot, normal, hardware>>

Step(t) ==
    \/ BufferInit(t) \/ WriteRule(t) \/ MarkDirty(t) \/ FastPath(t) \/ Recheck(t) \/ Compile(t)
    \/ Apply(t) \/ FallBack(t) \/ GiveUp(t)

Next == SetNormalMode \/ Process \/ \E t \in Threads : Step(t)

Proceed(t) == FastPath(t) \/ WriteRule(t) \/ MarkDirty(t) \/ FallBack(t) \/ GiveUp(t)
Enter(t) == Recheck(t) \/ Compile(t)

(* Threads run, the mutex is handed on, and the controller does not refuse *)
(* the broad table for ever.                                               *)
Fairness ==
    /\ WF_vars(Process)
    /\ \A t \in Threads :
        /\ WF_vars(Proceed(t))
        /\ SF_vars(Enter(t))
        /\ SF_vars(Apply(t))

Spec == Init /\ [][Next]_vars /\ Fairness

-----------------------------------------------------------------------------
TypeOK ==
    /\ \A i \in Slots : slot[i] \in SlotRules[i] \cup {NoRule}
    /\ dirty \in BOOLEAN /\ normal \in BOOLEAN /\ inUse \in BOOLEAN /\ broad \in BOOLEAN
    /\ mutex \in Threads \cup {Nobody}
    /\ pc \in [Threads -> {"idle", "write", "mark", "check", "force", "lock", "program", "programForced"}]
    /\ table \subseteq RuleSet /\ hardware \subseteq RuleSet

(* No frame an active receive rule asks for is kept out by the controller  *)
(* once the filter is clean, however many rules had to be merged into the  *)
(* table and however changes of rules and rebuilds overlapped ("required   *)
(* traffic is never intentionally filtered out").  The thread that is      *)
(* between its write and its mark still holds the mutex.                   *)
Admitted(rule) == \E h \in hardware : Covers(h, rule)
NothingRequiredIsFiltered ==
    ~dirty /\ (\A t \in Threads : pc[t] # "mark") =>
        \A i \in Slots : slot[i] # NoRule => Admitted(slot[i])

(* A table never exceeds the reserved banks, a clean filter in normal mode *)
(* is one that is in use, and a broad table serves every frame type.       *)
TableFits ==
    /\ Cardinality(hardware) <= Capacity \/ ~inUse
    /\ ~dirty => inUse

FilterIsSafe == TypeOK /\ NothingRequiredIsFiltered /\ TableFits

(* In normal mode a filter that is owed a rebuild gets it, although the    *)
(* rebuild of the thread that changed the rule may have failed and nobody  *)
(* else touches that rule again.                                           *)
FilterCatchesUp == []<>(normal => ~dirty)
=============================================================================
