-------------------------- MODULE LifecycleRegistry --------------------------
(***************************************************************************)
(* The extension registry of CO_lifecycle_RTT.c through registration, the  *)
(* automatic attach transaction, canopen_app_rtt_init() with its cleanup,  *)
(* communication reset, failure at every callback, and retry.              *)
(*                                                                         *)
(* The init thread and co_main walk the slots; nobody else changes them.   *)
(* One callback is one step, so every failure falls between two of them.   *)
(***************************************************************************)
EXTENDS Integers, Sequences, SequencesExt

CONSTANTS
    Manual,      \* extensions registered by the application, which owns them
    Automatic,   \* extensions a factory allocates, registers and hands over
    Binders,     \* extensions with a communicationBind callback
    Orders,      \* attach orders a factory may ask for
    Capacity     \* CO_RTT_LIFECYCLE_EXTENSION_CAPACITY

RegistryAssumption ==
    /\ Manual \cap Automatic = {}
    /\ Binders \subseteq Manual \cup Automatic
    /\ Orders \subseteq Nat
    /\ Capacity \in Nat

Ext == Manual \cup Automatic

VARIABLES
    factories,   \* sorted factories: [ext, order]
    firstError,  \* a factory registration failed
    slots,       \* app->lifecycle.slots[0 .. count - 1]
    phase,       \* what the init thread, or co_main, is doing
    next,        \* index of the slot or factory whose turn it is
    checkpoint,  \* slot count when AutoAttachAll() began
    before,      \* history: the slots when AutoAttachAll() began
    running,     \* canopen_app_rtt_init() has returned RT_EOK
    live,        \* contexts allocated by factories and not released
    holds        \* what each extension has acquired in its callbacks

factoryVars == <<factories, firstError>>
attachVars  == <<checkpoint, before>>
extVars     == <<live, holds>>
vars == <<factoryVars, slots, phase, next, attachVars, running, extVars>>

Registered(e) == \E k \in DOMAIN slots : slots[k].ext = e

(* A slot as CO_RTT_lifecycleRegisterEx() publishes it *)
NewSlot(e) == [ext |-> e, owned |-> e \in Automatic, bound |-> FALSE,
               initialized |-> FALSE, deinitRequired |-> FALSE]

Init ==
    /\ factories = <<>> /\ firstError = FALSE
    /\ slots = <<>>
    /\ phase = "down" /\ next = 0
    /\ checkpoint = 0 /\ before = <<>>
    /\ running = FALSE
    /\ live = {} /\ holds = [e \in Ext |-> {}]

Goto(p, k) == phase' = p /\ next' = k

-----------------------------------------------------------------------------
(* Registration *)

(* CO_RTT_lifecycleRegister(): refused for a duplicate or a full registry. *)
Register(e) ==
    /\ phase = "down" /\ e \in Manual
    /\ ~Registered(e) /\ Len(slots) < Capacity
    /\ slots' = Append(slots, NewSlot(e))
    /\ UNCHANGED <<factoryVars, phase, next, attachVars, running, extVars>>

(* CO_RTT_lifecycleFactoryRegister() keeps the factories sorted; any error *)
(* is latched.                                                             *)
FactoryRegister(e, o) ==
    /\ phase \in {"down", "attach"} /\ e \in Automatic
    /\ IF \/ phase = "attach" \/ Len(factories) >= Capacity
          \/ \E k \in DOMAIN factories : factories[k].ext = e \/ factories[k].order = o
       THEN firstError' = TRUE /\ UNCHANGED factories
       ELSE /\ \E place \in 1 .. Len(factories) + 1 :
                   /\ \A k \in DOMAIN factories : k < place <=> factories[k].order < o
                   /\ factories' = InsertAt(factories, place, [ext |-> e, order |-> o])
            /\ UNCHANGED firstError
    /\ UNCHANGED <<slots, phase, next, attachVars, running, extVars>>

-----------------------------------------------------------------------------
(* CO_RTT_lifecycleAutoAttachAll() *)

AutoAttachAll ==
    /\ phase = "down" /\ ~firstError /\ factories # <<>>
    /\ checkpoint' = Len(slots) /\ before' = slots
    /\ Goto("attach", 1)
    /\ UNCHANGED <<factoryVars, slots, running, extVars>>

(* A factory allocates a context and registers it with its release. *)
Attached(e) ==
    /\ ~Registered(e) /\ Len(slots) < Capacity
    /\ slots' = Append(slots, NewSlot(e))
    /\ live' = live \cup {e}

(* It fails, before or after it has registered, or returns RT_EOK without  *)
(* a slot: then everything since the checkpoint is rolled back.            *)
Attach ==
    /\ phase = "attach" /\ next <= Len(factories)
    /\ \/ Attached(factories[next].ext) /\ Goto("attach", next + 1)
       \/ Attached(factories[next].ext) /\ Goto("rollback", 0)
       \/ Goto("rollback", 0) /\ UNCHANGED <<slots, live>>
    /\ UNCHANGED <<factoryVars, attachVars, running, holds>>

AttachedAll ==
    /\ phase = "attach" /\ next > Len(factories)
    /\ Goto("down", 0)
    /\ UNCHANGED <<factoryVars, slots, attachVars, running, extVars>>

(* CO_RTT_lifecycleRollbackAutoSlots() *)
RolledBackOneShort == Len(slots) <= checkpoint + 1
RolledBack         == Len(slots) <= checkpoint

Rollback ==
    /\ phase = "rollback"
    /\ IF RolledBack
       THEN Goto("down", 0) /\ UNCHANGED <<slots, live>>
       ELSE /\ live' = live \ {Last(slots).ext}
            /\ slots' = Front(slots)
            /\ UNCHANGED <<phase, next>>
    /\ UNCHANGED <<factoryVars, attachVars, running, holds>>

-----------------------------------------------------------------------------
(* canopen_app_rtt_init() *)

(* Every failure goes through Quiesced to RuntimeDeinit; in a reset it     *)
(* ends co_main instead, with the registry quiesced.                       *)
Cleanup == Goto("quiesce", Len(slots))

(* Up to the point where extensions are bound; an early error goes to      *)
(* cleanup: or straight to RuntimeDeinit() in co_app_rtt_auto_init().      *)
AppInit ==
    /\ phase = "down"
    /\ \/ Goto("bind", 1)
       \/ Cleanup
       \/ slots # <<>> /\ Goto("deinit", Len(slots))
    /\ UNCHANGED <<factoryVars, slots, attachVars, running, extVars>>

(* CO_RTT_lifecycleBindCommunication(), one slot *)
FreshlyBound(s) == [s EXCEPT !.bound = TRUE, !.deinitRequired = @ \/ s.ext \in Binders]
BoundOnly(s)    == [s EXCEPT !.bound = TRUE]
AfterBind(s)    == FreshlyBound(s)

(* The slot a failed bind of slot k rolls back first *)
PreviousSkipped(k) == k - 2
Previous(k)        == k - 1
LastBound(k)       == Previous(k)

Bind ==
    /\ phase = "bind" /\ next <= Len(slots)
    /\ LET e == slots[next].ext IN
       \/ /\ slots' = [slots EXCEPT ![next] = AfterBind(@)]
          /\ holds' = IF e \in Binders THEN [holds EXCEPT ![e] = @ \cup {"binding", "state"}]
                                       ELSE holds
          /\ Goto("bind", next + 1)
       \/ /\ e \in Binders
          /\ Goto("unbind", LastBound(next))
          /\ UNCHANGED <<slots, holds>>
    /\ UNCHANGED <<factoryVars, attachVars, running, live>>

(* SRDO, PDO, normal mode and the threads may fail after every binding. *)
BoundAll ==
    /\ phase = "bind" /\ next > Len(slots)
    /\ \/ Cleanup
       \/ IF running THEN Goto("up", 0) ELSE Goto("init", 1)
    /\ UNCHANGED <<factoryVars, slots, attachVars, running, extVars>>

(* communicationQuiesced() of one slot that is bound *)
Quiesce(k) ==
    /\ slots' = [slots EXCEPT ![k].bound = FALSE]
    /\ holds' = IF slots[k].bound THEN [holds EXCEPT ![slots[k].ext] = @ \ {"binding"}]
                                  ELSE holds

(* A failed bind rolls back what was bound before it, last first. *)
Unbind ==
    /\ phase = "unbind"
    /\ IF next > 0
       THEN Quiesce(next) /\ Goto("unbind", next - 1)
       ELSE Cleanup /\ UNCHANGED <<slots, holds>>
    /\ UNCHANGED <<factoryVars, attachVars, running, live>>

(* CO_RTT_lifecycleRuntimeInit(), one slot, then the shared worker *)
Initialized(s) == [s EXCEPT !.initialized = TRUE, !.deinitRequired = TRUE]

RuntimeInit ==
    /\ phase = "init" /\ next <= Len(slots)
    /\ \/ /\ slots' = [slots EXCEPT ![next] = Initialized(@)]
          /\ holds' = [holds EXCEPT ![slots[next].ext] = @ \cup {"runtime"}]
          /\ Goto("init", next + 1)
       \/ Cleanup /\ UNCHANGED <<slots, holds>>
    /\ UNCHANGED <<factoryVars, attachVars, running, live>>

(* CO_RTT_lifecycleRuntimeStart(), the timer and co_main *)
RuntimeStart ==
    /\ phase = "init" /\ next > Len(slots)
    /\ \/ Goto("up", 0) /\ running' = TRUE
       \/ Cleanup /\ UNCHANGED running
    /\ UNCHANGED <<factoryVars, slots, attachVars, extVars>>

CommunicationReset ==
    /\ phase = "up"
    /\ Cleanup
    /\ UNCHANGED <<factoryVars, slots, attachVars, running, extVars>>

-----------------------------------------------------------------------------
(* Teardown *)

(* CO_RTT_lifecycleCommunicationQuiesced(), last slot first.  In a reset   *)
(* the next generation is bound, or co_main ends.                          *)
Quiesced ==
    /\ phase = "quiesce"
    /\ IF next > 0
       THEN Quiesce(next) /\ Goto("quiesce", next - 1)
       ELSE /\ IF running THEN Goto("bind", 1) \/ Goto("dead", 0)
                          ELSE Goto("deinit", Len(slots))
            /\ UNCHANGED <<slots, holds>>
    /\ UNCHANGED <<factoryVars, attachVars, running, live>>

(* CO_RTT_lifecycleRuntimeDeinit(): a slot is torn down, last one first,   *)
(* and an owned context is released and its slot dropped.                  *)
NeedsDeinit(s) == s.deinitRequired
WasInitialized(s) == s.initialized
DeinitDue(s) == NeedsDeinit(s)

(* The slot goes with the context it releases. *)
ReleasedByIt(s)  == s.owned
ReleasedAfterUse(s) == s.owned /\ s.initialized
Dropped(s)       == ReleasedByIt(s)

Cleared(s) == [s EXCEPT !.initialized = FALSE, !.deinitRequired = FALSE]

RuntimeDeinit ==
    /\ phase = "deinit" /\ next > 0
    /\ LET s == slots[next] IN
       /\ holds' = IF DeinitDue(s) THEN [holds EXCEPT ![s.ext] = @ \ {"state", "runtime"}]
                                   ELSE holds
       /\ slots' = IF Dropped(s) THEN RemoveAt(slots, next)
                              ELSE [slots EXCEPT ![next] = Cleared(@)]
       /\ live' = live \ {s.ext}
    /\ Goto("deinit", next - 1)
    /\ UNCHANGED <<factoryVars, attachVars, running>>

(* canopen_app_rtt_init() returns its error; it may be called again. *)
InitFailed ==
    /\ phase = "deinit" /\ next = 0
    /\ Goto("down", 0)
    /\ UNCHANGED <<factoryVars, slots, attachVars, running, extVars>>

Dead == phase = "dead" /\ UNCHANGED vars

Next ==
    \/ \E e \in Manual : Register(e)
    \/ \E e \in Automatic, o \in Orders : FactoryRegister(e, o)
    \/ AutoAttachAll \/ Attach \/ AttachedAll \/ Rollback
    \/ AppInit \/ Bind \/ BoundAll \/ Unbind
    \/ RuntimeInit \/ RuntimeStart \/ CommunicationReset
    \/ Quiesced \/ RuntimeDeinit \/ InitFailed \/ Dead

Spec == Init /\ [][Next]_vars

-----------------------------------------------------------------------------
(* A context a factory has allocated belongs to exactly one slot, which    *)
(* releases it once, and no slot outlives its context: nothing leaks, is   *)
(* freed twice or is called after it was freed.                            *)
OneReleaser ==
    \A e \in Automatic :
        IF e \in live
        THEN \E k \in DOMAIN slots :
                 \A j \in DOMAIN slots : slots[j].ext = e <=> j = k
        ELSE ~Registered(e) /\ holds[e] = {}

(* Extensions are unwound in the reverse of the order they were registered *)
(* in, on every error path: one that is bound, or initialised, has all its *)
(* predecessors bound, or initialised, beneath it.                         *)
UnwindsInReverse ==
    \A j, k \in DOMAIN slots : j < k =>
        /\ "binding" \in holds[slots[k].ext] /\ slots[j].ext \in Binders
               => "binding" \in holds[slots[j].ext]
        /\ "runtime" \in holds[slots[k].ext] => "runtime" \in holds[slots[j].ext]

(* A failed init leaves no extension holding anything, although any of its *)
(* callbacks may have been the last to succeed: it can be called again.    *)
CleanFailure ==
    /\ phase = "down" => \A e \in Ext : holds[e] = {}
    /\ phase = "dead" => \A e \in Ext : "binding" \notin holds[e]

(* AutoAttachAll() publishes every factory's slot or none: after a failure *)
(* the slots are what they were.                                           *)
AttachIsAtomic ==
    [][phase = "rollback" /\ phase' = "down" => slots' = before]_vars

=============================================================================
