---------------------------- MODULE Node_proofs -----------------------------
(***************************************************************************)
(* Proofs about the components below the profiles, for every value of the  *)
(* constants.  Each has a section of its own: its inductive invariant, the *)
(* lemmas about its steps, and what follows.                               *)
(***************************************************************************)
EXTENDS Node, SequencesExt, FiniteSetTheorems, SequenceTheorems, WellFoundedInduction, TLAPS

(* A behaviour starts in an initial state of every component. *)
LEMMA Starts ==
    Init => Registry!Init /\ Binding!Init /\ Loop!Init /\ Filter!Init /\ Transmit!Init
BY DEF Init

(* Every step is a step of each component or leaves it alone. *)
LEMMA Steps ==
    [Next]_vars =>
        /\ [Registry!Next]_(Registry!vars)
        /\ [Binding!Next]_(Binding!vars)
        /\ [Loop!Next]_(Loop!vars)
        /\ [Filter!Next]_(Filter!vars)
        /\ [Transmit!Next]_(Transmit!vars)
<1> SUFFICES ASSUME [Next]_vars
             PROVE  /\ [Registry!Next]_(Registry!vars)
                    /\ [Binding!Next]_(Binding!vars)
                    /\ [Loop!Next]_(Loop!vars)
                    /\ [Filter!Next]_(Filter!vars)
                    /\ [Transmit!Next]_(Transmit!vars)
  OBVIOUS
<1>1. UNCHANGED registryVars => UNCHANGED Registry!vars
  BY DEF registryVars, Registry!vars, Registry!factoryVars, Registry!attachVars, Registry!extVars
<1>2. UNCHANGED bindingVars => UNCHANGED Binding!vars
  BY DEF bindingVars, Binding!vars
<1>3. UNCHANGED loopVars => UNCHANGED Loop!vars
  BY DEF loopVars, Loop!vars
<1>4. UNCHANGED filterVars => UNCHANGED Filter!vars
  BY DEF filterVars, Filter!vars
<1>5. UNCHANGED transmitVars => UNCHANGED Transmit!vars
  BY DEF transmitVars, Transmit!vars
<1>6. CASE UNCHANGED vars
  BY <1>1, <1>2, <1>3, <1>4, <1>5, <1>6 DEF vars
<1>7. CASE Next
  BY <1>1, <1>2, <1>3, <1>4, <1>5, <1>7
     DEF Next, InRegistry, InBinding, InLoop, InFilter, InTransmit
<1> QED
  BY <1>6, <1>7


(* The library's operators are the same under the name of an instance. *)
LEMMA RegistryLibrary ==
    /\ \A s, i, e : Registry!InsertAt(s, i, e) = InsertAt(s, i, e)
    /\ \A s, i : Registry!RemoveAt(s, i) = RemoveAt(s, i)
    /\ \A s : Registry!Front(s) = Front(s) /\ Registry!Last(s) = Last(s)
BY DEF InsertAt, Registry!InsertAt, RemoveAt, Registry!RemoveAt, Front, Registry!Front,
   Last, Registry!Last

LEMMA FilterLibrary ==
    /\ \A S : Filter!Cardinality(S) = Cardinality(S)
    /\ \A S : Filter!IsFiniteSet(S) <=> IsFiniteSet(S)
    /\ \A f, S : Filter!Restrict(f, S) = Restrict(f, S)
<1>1. \A S : Filter!Cardinality(S) = Cardinality(S)
  BY DEF Cardinality, Filter!Cardinality
<1>2. \A S : Filter!IsFiniteSet(S) <=> IsFiniteSet(S)
  BY DEF IsFiniteSet, Filter!IsFiniteSet
<1>3. \A f, S : Filter!Restrict(f, S) = Restrict(f, S)
  BY DEF Restrict, Filter!Restrict
<1> QED
  BY <1>1, <1>2, <1>3

-----------------------------------------------------------------------------
(***************************************************************************)
(* The lifecycle registry: the slots are in the order in which they were   *)
(* attached, an automatic one after its predecessors, and whatever a       *)
(* partial start has put in place is above the checkpoint, from where the  *)
(* unwinding takes it back, last in first out.                             *)
(***************************************************************************)

Slot == [ext : Registry!Ext, owned : BOOLEAN, bound : BOOLEAN, initialized : BOOLEAN,
    deinitRequired : BOOLEAN]

RegistryTypeOK ==
    /\ factories \in Seq([ext : Automatic, order : Orders])
    /\ slots \in Seq(Slot) /\ before \in Seq(Slot)
    /\ turn \in Nat /\ checkpoint \in Nat
    /\ running \in BOOLEAN
    /\ live \subseteq Automatic
    /\ holds \in [Registry!Ext -> SUBSET {"binding", "state", "runtime"}]
    /\ step \in {"down", "attach", "rollback", "bind", "unbind", "init", "up", "quiesce",
        "deinit", "dead"}

(* One slot per extension; an extension's context lives as long as its slot. *)
Ownership ==
    /\ \A k \in DOMAIN slots : slots[k].owned <=> slots[k].ext \in Automatic
    /\ \A j, k \in DOMAIN slots : slots[j].ext = slots[k].ext => j = k
    /\ \A e \in Automatic : e \in live <=> Registry!Registered(e)

(* What an extension holds is what the flags of its slot say.              *)
FlagsAreTrue ==
    /\ \A e \in Registry!Ext : Registry!Registered(e) \/ holds[e] = {}
    /\ \A k \in DOMAIN slots :
        /\ "binding" \in holds[slots[k].ext] <=> slots[k].bound /\ slots[k].ext \in Binders
        /\ "runtime" \in holds[slots[k].ext] <=> slots[k].initialized
        /\ "state" \in holds[slots[k].ext] => slots[k].deinitRequired
        /\ slots[k].initialized => slots[k].deinitRequired

(* Which slots are bound while the registry is walked, and up to where.    *)
Walked ==
    /\ \A j, k \in DOMAIN slots : j < k /\ slots[k].bound => slots[j].bound
    /\ step \in {"down", "attach", "rollback", "deinit", "dead"} =>
         \A k \in DOMAIN slots : ~slots[k].bound
    /\ step \in {"init", "up"} => \A k \in DOMAIN slots : slots[k].bound
    /\ step = "bind" => /\ turn \in 1 .. Len(slots) + 1
                        /\ \A k \in DOMAIN slots : slots[k].bound <=> k < turn
    /\ step = "unbind" => /\ turn \in 0 .. Len(slots)
                          /\ \A k \in DOMAIN slots : slots[k].bound <=> k <= turn
    /\ step = "quiesce" => /\ turn \in 0 .. Len(slots)
                           /\ \A k \in DOMAIN slots : k > turn => ~slots[k].bound

(* Which slots are initialized, and still have something to tear down.     *)
Started ==
    /\ \A j, k \in DOMAIN slots : j < k /\ slots[k].initialized => slots[j].initialized
    /\ step \in {"down", "attach", "rollback", "init", "deinit"} => ~running
    /\ step \in {"up", "dead"} => running
    /\ running => \A k \in DOMAIN slots : slots[k].initialized
    /\ step \in {"down", "attach", "rollback"} =>
         \A k \in DOMAIN slots : ~slots[k].initialized /\ ~slots[k].deinitRequired
    /\ step \in {"bind", "unbind"} /\ ~running => \A k \in DOMAIN slots : ~slots[k].initialized
    /\ step = "init" => /\ turn \in 1 .. Len(slots) + 1
                        /\ \A k \in DOMAIN slots : slots[k].initialized <=> k < turn
    /\ step = "deinit" => /\ turn \in 0 .. Len(slots)
                          /\ \A k \in DOMAIN slots : k > turn =>
                               ~slots[k].initialized /\ ~slots[k].deinitRequired

(* The slots of the automatic attach follow those there were before it.    *)
AttachInv ==
    step \in {"attach", "rollback"} =>
        /\ checkpoint = Len(before) /\ checkpoint <= Len(slots)
        /\ \A k \in 1 .. checkpoint : slots[k] = before[k]
        /\ step = "attach" => turn >= 1

RegistryInv == RegistryTypeOK /\ Ownership /\ FlagsAreTrue /\ Walked /\ Started /\ AttachInv


(* What the slot operators do to the flags of a slot. *)
LEMMA NewSlotIs ==
    ASSUME NEW e \in Registry!Ext
    PROVE  /\ Registry!NewSlot(e) \in Slot /\ Registry!NewSlot(e).ext = e /\
              (Registry!NewSlot(e).owned <=> e \in Automatic)
           /\ ~Registry!NewSlot(e).bound /\ ~Registry!NewSlot(e).initialized /\
               ~Registry!NewSlot(e).deinitRequired
<1>1. /\ Registry!NewSlot(e).ext = e /\ Registry!NewSlot(e).owned = (e \in Automatic)
      /\ Registry!NewSlot(e).bound = FALSE /\ Registry!NewSlot(e).initialized = FALSE
      /\ Registry!NewSlot(e).deinitRequired = FALSE
  BY DEF Registry!NewSlot
<1>2. Registry!NewSlot(e) \in Slot
  BY DEF Registry!NewSlot, Slot
<1>q. QED
  BY <1>1, <1>2, Zenon

LEMMA SlotUpdates ==
    ASSUME NEW s \in Slot
    PROVE  /\ Registry!AfterBind(s) \in Slot /\ Registry!AfterBind(s).ext = s.ext /\
              Registry!AfterBind(s).owned = s.owned
           /\ Registry!AfterBind(s).bound = TRUE /\ Registry!AfterBind(s).initialized =
               s.initialized
           /\ s.deinitRequired \/ s.ext \in Binders => Registry!AfterBind(s).deinitRequired
           /\ Registry!Initialized(s) \in Slot /\ Registry!Initialized(s).ext = s.ext /\
               Registry!Initialized(s).owned = s.owned
           /\ Registry!Initialized(s).bound = s.bound /\ Registry!Initialized(s).initialized = TRUE
           /\ Registry!Initialized(s).deinitRequired = TRUE
           /\ Registry!Cleared(s) \in Slot /\ Registry!Cleared(s).ext = s.ext /\
               Registry!Cleared(s).owned = s.owned
           /\ Registry!Cleared(s).bound = s.bound /\ Registry!Cleared(s).initialized = FALSE
           /\ Registry!Cleared(s).deinitRequired = FALSE
<1>1. /\ s.deinitRequired \in BOOLEAN /\ (s.deinitRequired \/ s.ext \in Binders) \in BOOLEAN
      /\ s.ext \in Registry!Ext
  BY Zenon DEF Slot
<1>2. /\ Registry!AfterBind(s) \in Slot /\ Registry!AfterBind(s).ext = s.ext /\
         Registry!AfterBind(s).owned = s.owned
      /\ Registry!AfterBind(s).bound = TRUE /\ Registry!AfterBind(s).initialized = s.initialized
  BY <1>1 DEF Registry!AfterBind, Registry!FreshlyBound, Slot
<1>3. s.deinitRequired \/ s.ext \in Binders => Registry!AfterBind(s).deinitRequired
  BY <1>1 DEF Registry!AfterBind, Registry!FreshlyBound, Slot
<1>4. /\ Registry!Initialized(s) \in Slot /\ Registry!Initialized(s).ext = s.ext /\
         Registry!Initialized(s).owned = s.owned
      /\ Registry!Initialized(s).bound = s.bound /\ Registry!Initialized(s).initialized = TRUE
      /\ Registry!Initialized(s).deinitRequired = TRUE
  BY DEF Registry!Initialized, Slot
<1>5. /\ Registry!Cleared(s) \in Slot /\ Registry!Cleared(s).ext = s.ext /\
         Registry!Cleared(s).owned = s.owned
      /\ Registry!Cleared(s).bound = s.bound /\ Registry!Cleared(s).initialized = FALSE
      /\ Registry!Cleared(s).deinitRequired = FALSE
  BY DEF Registry!Cleared, Slot
<1>q. QED
  BY <1>2, <1>3, <1>4, <1>5

LEMMA ReleasedSlot ==
    ASSUME NEW s \in Slot
    PROVE  LET r == [s EXCEPT !.bound = FALSE] IN
           /\ r \in Slot /\ r.ext = s.ext /\ r.owned = s.owned /\ r.bound = FALSE
           /\ r.initialized = s.initialized /\ r.deinitRequired = s.deinitRequired
  BY DEF Slot

(* What the walks do to the sequence of slots. *)
LEMMA Appended ==
    ASSUME NEW q \in Seq(Slot), NEW s \in Slot
    PROVE  /\ Append(q, s) \in Seq(Slot) /\ Len(Append(q, s)) = Len(q) + 1
           /\ \A k \in 1 .. Len(q) : Append(q, s)[k] = q[k]
           /\ Append(q, s)[Len(q) + 1] = s
  OBVIOUS

LEMMA WithoutLast ==
    ASSUME NEW q \in Seq(Slot), Len(q) > 0
    PROVE  /\ Front(q) \in Seq(Slot) /\ Len(Front(q)) = Len(q) - 1
           /\ \A k \in 1 .. Len(q) - 1 : Front(q)[k] = q[k]
<1> DEFINE n == Len(q) - 1
<1>1. n \in Nat /\ n <= Len(q) /\ Front(q) = SubSeq(q, 1, n)
  BY DEF Front
<1> HIDE DEF n
<1>2. SubSeq(q, 1, n) \in Seq(Slot)
  BY <1>1
<1>3. Len(SubSeq(q, 1, n)) = n /\ \A k \in 1 .. n : SubSeq(q, 1, n)[k] = q[k]
  BY <1>1
<1>q. QED
  BY <1>1, <1>2, <1>3 DEF n

LEMMA Updated ==
    ASSUME NEW q \in Seq(Slot), NEW i \in 1 .. Len(q), NEW s \in Slot
    PROVE  LET u == [q EXCEPT ![i] = s] IN
           /\ u \in Seq(Slot) /\ Len(u) = Len(q)
           /\ \A k \in 1 .. Len(q) : u[k] = IF k = i THEN s ELSE q[k]
  OBVIOUS

LEMMA Removed ==
    ASSUME NEW q \in Seq(Slot), NEW i \in 1 .. Len(q)
    PROVE  /\ RemoveAt(q, i) \in Seq(Slot) /\ Len(RemoveAt(q, i)) = Len(q) - 1
           /\ \A k \in 1 .. Len(q) - 1 : RemoveAt(q, i)[k] = IF k < i THEN q[k] ELSE q[k + 1]
<1> DEFINE a == SubSeq(q, 1, i - 1)
           b == SubSeq(q, i + 1, Len(q))
<1>1. a \in Seq(Slot) /\ Len(a) = i - 1 /\ \A k \in 1 .. i - 1 : a[k] = q[k]
  OBVIOUS
<1>2. b \in Seq(Slot) /\ Len(b) = Len(q) - i /\ \A k \in 1 .. Len(q) - i : b[k] = q[k + i]
  OBVIOUS
<1>3. RemoveAt(q, i) = a \o b
  BY DEF RemoveAt
<1> HIDE DEF a, b
<1>4. a \o b \in Seq(Slot) /\ Len(a \o b) = Len(q) - 1
  <2>1. a \o b \in Seq(Slot) /\ Len(a \o b) = Len(a) + Len(b)
    BY <1>1, <1>2, ConcatProperties, Zenon
  <2>2. Len(q) \in Nat
    OBVIOUS
  <2>q. QED
    BY <1>1, <1>2, <2>1, <2>2
<1>5. ASSUME NEW k \in 1 .. Len(q) - 1
      PROVE  (a \o b)[k] = IF k < i THEN q[k] ELSE q[k + 1]
  <2>1. (a \o b)[k] = IF k <= Len(a) THEN a[k] ELSE b[k - Len(a)]
    BY <1>1, <1>2
  <2>2. CASE k < i
    BY <1>1, <2>1, <2>2
  <2>3. CASE ~(k < i)
    <3>1. k - Len(a) \in 1 .. Len(q) - i /\ (k - Len(a)) + i = k + 1
      BY <1>1, <2>3
    <3>q. QED
      BY <1>1, <1>2, <2>1, <2>3, <3>1
  <2>q. QED
    BY <2>2, <2>3
<1>q. QED
  BY <1>3, <1>4, <1>5

LEMMA Inserted ==
    ASSUME NEW T, NEW q \in Seq(T), NEW i \in 1 .. Len(q) + 1, NEW x \in T
    PROVE  InsertAt(q, i, x) \in Seq(T)
<1>1. SubSeq(q, 1, i - 1) \in Seq(T) /\ SubSeq(q, i, Len(q)) \in Seq(T) /\ <<x>> \in Seq(T)
  OBVIOUS
<1>q. QED
  BY <1>1 DEF InsertAt

(* One lemma for each action: it preserves the invariant. *)
LEMMA FactoryRegisterStep ==
    ASSUME RegistryInv, NEW e \in Automatic, NEW o \in Orders, Registry!FactoryRegister(e, o)
    PROVE  RegistryInv'
<1>1. UNCHANGED <<slots, step, turn, checkpoint, before, running, holds, live>>
  BY DEF Registry!FactoryRegister, Registry!attachVars, Registry!extVars
<1>2. factories' \in Seq([ext : Automatic, order : Orders])
  <2>1. [ext |-> e, order |-> o] \in [ext : Automatic, order : Orders]
    OBVIOUS
  <2>2. CASE UNCHANGED factories
    BY <2>2 DEF RegistryInv, RegistryTypeOK
  <2>3. CASE ~ UNCHANGED factories
    <3>0. PICK place \in 1 .. Len(factories) + 1 :
            factories' = Registry!InsertAt(factories, place, [ext |-> e, order |-> o])
      BY <2>3, Zenon DEF Registry!FactoryRegister
    <3>1. factories' = InsertAt(factories, place, [ext |-> e, order |-> o])
      BY <3>0, RegistryLibrary
    <3>q. QED
      BY <2>1, <3>1, Inserted DEF RegistryInv, RegistryTypeOK
  <2>q. QED
    BY <2>2, <2>3
<1>3. RegistryTypeOK'
  BY <1>1, <1>2 DEF RegistryInv, RegistryTypeOK
<1>4. Ownership'
  BY <1>1, <1>2 DEF RegistryInv, Ownership, RegistryTypeOK, Registry!Registered
<1>5. FlagsAreTrue'
  BY <1>1, <1>2 DEF RegistryInv, FlagsAreTrue, RegistryTypeOK, Registry!Registered, Ownership
<1>6. Walked'
  BY <1>1, <1>2 DEF RegistryInv, Walked, RegistryTypeOK
<1>7. Started'
  BY <1>1, <1>2 DEF RegistryInv, Started, RegistryTypeOK
<1>8. AttachInv'
  BY <1>1, <1>2 DEF RegistryInv, AttachInv, RegistryTypeOK
<1>q. QED
  BY <1>3, <1>4, <1>5, <1>6, <1>7, <1>8 DEF RegistryInv

(* The steps between two walks. *)
LEMMA WalkStep ==
    ASSUME RegistryInv, Registry!AutoAttachAll \/ Registry!AttachedAll \/ Registry!AppInit \/
        Registry!BoundAll \/ Registry!RuntimeStart \/
       Registry!CommunicationReset \/ Registry!InitFailed
    PROVE  RegistryInv'
<1>1. UNCHANGED <<factories, slots, holds, live>> /\ slots \in Seq(Slot) /\ Len(slots) \in Nat
  BY DEF Registry!AutoAttachAll, Registry!AttachedAll, Registry!AppInit, Registry!BoundAll,
     Registry!RuntimeStart, Registry!CommunicationReset, Registry!InitFailed,
         Registry!factoryVars, Registry!extVars, RegistryInv, RegistryTypeOK
<1>2. \/ /\ step = "down" /\ step' = "attach" /\ turn' = 1 /\ before' = slots
         /\ checkpoint' = Len(slots) /\ UNCHANGED running
      \/ /\ UNCHANGED <<checkpoint, before>>
         /\ \/ step = "attach" /\ step' = "down" /\ turn' = 0 /\ UNCHANGED running
            \/ step = "down" /\ step' = "bind" /\ turn' = 1 /\ UNCHANGED running
            \/ step = "down" /\ step' = "deinit" /\ turn' = Len(slots) /\ UNCHANGED running
            \/ /\ step = "bind" /\ turn > Len(slots) /\ running /\ step' = "up" /\ turn' = 0
               /\ UNCHANGED running
            \/ /\ step = "bind" /\ turn > Len(slots) /\ ~running /\ step' = "init" /\ turn' = 1
               /\ UNCHANGED running
            \/ /\ step = "init" /\ turn > Len(slots) /\ step' = "up" /\ turn' = 0 /\ running'
            \/ step = "deinit" /\ turn = 0 /\ step' = "down" /\ turn' = 0 /\ UNCHANGED running
            \/ /\ \/ step \in {"down", "up"}
                  \/ step \in {"bind", "init"} /\ turn > Len(slots)
               /\ step' = "quiesce" /\ turn' = Len(slots) /\ UNCHANGED running
  BY Zenon DEF Registry!AutoAttachAll, Registry!AttachedAll, Registry!AppInit, Registry!BoundAll,
     Registry!RuntimeStart, Registry!CommunicationReset,
         Registry!InitFailed, Registry!Goto, Registry!Cleanup, Registry!attachVars
<1>3. running' \in BOOLEAN /\ turn' \in Nat /\ checkpoint' \in Nat
  <2>1. running' \in BOOLEAN
    BY Zenon DEF Registry!AutoAttachAll, Registry!AttachedAll, Registry!AppInit,
       Registry!BoundAll, Registry!RuntimeStart, Registry!CommunicationReset,
         Registry!InitFailed, RegistryInv, RegistryTypeOK
  <2>q. QED
    BY <1>1, <1>2, <2>1 DEF RegistryInv, RegistryTypeOK
<1>4. RegistryTypeOK'
  BY <1>1, <1>2, <1>3 DEF RegistryInv, RegistryTypeOK
<1>5. Ownership'
  BY <1>1, <1>2, <1>3 DEF RegistryInv, Ownership, RegistryTypeOK, Registry!Registered
<1>6. FlagsAreTrue'
  BY <1>1, <1>2, <1>3 DEF RegistryInv, FlagsAreTrue, RegistryTypeOK, Registry!Registered, Ownership
<1>7. Walked'
  BY <1>1, <1>2, <1>3 DEF RegistryInv, Walked, RegistryTypeOK
<1>8. Started'
  BY <1>1, <1>2, <1>3 DEF RegistryInv, Started, RegistryTypeOK
<1>9. AttachInv'
  BY <1>1, <1>2, <1>3 DEF RegistryInv, AttachInv, RegistryTypeOK
<1>q. QED
  BY <1>4, <1>5, <1>6, <1>7, <1>8, <1>9 DEF RegistryInv

(* An application extension gets a slot. *)
LEMMA RegisterStep ==
    ASSUME RegistryInv, NEW e \in Manual, Registry!Register(e)
    PROVE  RegistryInv'
<1> DEFINE s == Registry!NewSlot(e)
<1>1. /\ step = "down" /\ ~Registry!Registered(e) /\ slots' = Append(slots,
         Registry!NewSlot(e)) /\ e \in Registry!Ext
      /\ UNCHANGED <<factories, step, turn, checkpoint, before, running, holds, live>>
  BY DEF Registry!Register, Registry!factoryVars, Registry!attachVars, Registry!extVars,
     Registry!Ext
<1>2. /\ slots' \in Seq(Slot) /\ Len(slots') = Len(slots) + 1 /\ Len(slots) \in Nat
      /\ \A k \in 1 .. Len(slots) : slots'[k] = slots[k]
      /\ slots'[Len(slots) + 1] = s
  BY <1>1, NewSlotIs, Appended DEF RegistryInv, RegistryTypeOK
<1>3. e \notin Automatic /\ e \in Registry!Ext
  BY NodeAssumption DEF Registry!RegistryAssumption, Registry!Ext
<1>4. /\ s \in Slot /\ s.ext = e /\ (s.owned <=> e \in Automatic)
      /\ ~s.bound /\ ~s.initialized /\ ~s.deinitRequired
  BY <1>1, NewSlotIs
<1>5. DOMAIN slots = 1 .. Len(slots) /\ DOMAIN slots' = 1 .. Len(slots) + 1
  BY <1>2 DEF RegistryInv, RegistryTypeOK
<1> HIDE DEF s
<1>6. RegistryTypeOK'
  BY <1>1, <1>2, <1>3, <1>4, <1>5 DEF RegistryInv, RegistryTypeOK
<1>7. Ownership'
  BY <1>1, <1>2, <1>3, <1>4, <1>5 DEF RegistryInv, Ownership, RegistryTypeOK, Registry!Registered
<1>8. FlagsAreTrue'
  BY <1>1, <1>2, <1>3, <1>4, <1>5
     DEF RegistryInv, FlagsAreTrue, RegistryTypeOK, Registry!Registered, Ownership
<1>9. Walked'
  BY <1>1, <1>2, <1>3, <1>4, <1>5 DEF RegistryInv, Walked, RegistryTypeOK
<1>10. Started'
  BY <1>1, <1>2, <1>3, <1>4, <1>5 DEF RegistryInv, Started, RegistryTypeOK
<1>11. AttachInv'
  BY <1>1, <1>2, <1>3, <1>4, <1>5 DEF RegistryInv, AttachInv, RegistryTypeOK
<1>q. QED
  BY <1>6, <1>7, <1>8, <1>9, <1>10, <1>11 DEF RegistryInv

(* A linked extension gets a slot, and its factory may fail after that. *)
LEMMA AttachedStep ==
    ASSUME RegistryInv, NEW e \in Automatic, step = "attach", Registry!Attached(e),
        step' \in {"attach",
       "rollback"}, turn' \in Nat, (step' = "attach" => turn' >= 1), UNCHANGED
       <<factories, checkpoint, before, running, holds>>
    PROVE  RegistryInv'
<1> DEFINE s == Registry!NewSlot(e)
<1>1. /\ ~Registry!Registered(e) /\ slots' = Append(slots, Registry!NewSlot(e)) /\
         e \in Registry!Ext
      /\ live' = live \cup {e}
  BY DEF Registry!Attached, Registry!Ext
<1>2. /\ slots' \in Seq(Slot) /\ Len(slots') = Len(slots) + 1 /\ Len(slots) \in Nat
      /\ \A k \in 1 .. Len(slots) : slots'[k] = slots[k]
      /\ slots'[Len(slots) + 1] = s
  BY <1>1, NewSlotIs, Appended DEF RegistryInv, RegistryTypeOK
<1>3. e \in Registry!Ext
  BY <1>1
<1>4. /\ s \in Slot /\ s.ext = e /\ (s.owned <=> e \in Automatic)
      /\ ~s.bound /\ ~s.initialized /\ ~s.deinitRequired
  BY <1>1, NewSlotIs
<1>5. DOMAIN slots = 1 .. Len(slots) /\ DOMAIN slots' = 1 .. Len(slots) + 1
  BY <1>2 DEF RegistryInv, RegistryTypeOK
<1> HIDE DEF s
<1>6. RegistryTypeOK'
  BY <1>1, <1>2, <1>3, <1>4, <1>5 DEF RegistryInv, RegistryTypeOK
<1>7. Ownership'
  BY <1>1, <1>2, <1>3, <1>4, <1>5 DEF RegistryInv, Ownership, RegistryTypeOK, Registry!Registered
<1>8. FlagsAreTrue'
  BY <1>1, <1>2, <1>3, <1>4, <1>5
     DEF RegistryInv, FlagsAreTrue, RegistryTypeOK, Registry!Registered, Ownership
<1>9. Walked'
  BY <1>1, <1>2, <1>3, <1>4, <1>5 DEF RegistryInv, Walked, RegistryTypeOK
<1>10. Started'
  BY <1>1, <1>2, <1>3, <1>4, <1>5 DEF RegistryInv, Started, RegistryTypeOK
<1>11. AttachInv'
  <2>1. checkpoint = Len(before) /\ checkpoint <= Len(slots) /\ checkpoint \in Nat
        /\ \A k \in 1 .. checkpoint : slots[k] = before[k]
    BY <1>1 DEF RegistryInv, RegistryTypeOK, AttachInv
  <2>2. \A k \in 1 .. checkpoint : slots'[k] = slots[k]
    BY <1>2, <2>1
  <2>3. step' = "attach" => turn' >= 1
    BY Zenon
  <2>q. QED
    BY <1>2, <2>1, <2>2, <2>3 DEF AttachInv
<1>q. QED
  BY <1>6, <1>7, <1>8, <1>9, <1>10, <1>11 DEF RegistryInv

LEMMA AttachStep ==
    ASSUME RegistryInv, Registry!Attach
    PROVE  RegistryInv'
<1> DEFINE e == factories[turn].ext
<1>1. /\ step = "attach" /\ turn \in Nat /\ turn <= Len(factories)
      /\ UNCHANGED <<factories, checkpoint, before, running, holds>>
  BY DEF Registry!Attach, Registry!factoryVars, Registry!attachVars, RegistryInv, RegistryTypeOK
<1>2. CASE UNCHANGED <<slots, live>> /\ step' = "rollback" /\ turn' = 0
  BY <1>1, <1>2 DEF RegistryInv, RegistryTypeOK, Ownership, Registry!Registered, FlagsAreTrue,
     Walked, Started, AttachInv
<1>3. CASE Registry!Attached(e) /\ step' \in {"attach", "rollback"} /\ turn' \in {0, turn + 1}
           /\ (step' = "attach" => turn' = turn + 1)
  <2>1. turn \in 1 .. Len(factories)
    BY <1>1 DEF RegistryInv, AttachInv
  <2>2. factories[turn] \in [ext : Automatic, order : Orders]
    BY <2>1, LenProperties DEF RegistryInv, RegistryTypeOK
  <2>3. e \in Automatic
    BY <2>2
  <2>4. turn' \in Nat /\ (step' = "attach" => turn' >= 1)
    BY <1>1, <1>3
  <2> HIDE DEF e
  <2>q. QED
    BY <1>1, <1>3, <2>3, <2>4, AttachedStep
<1>q. QED
  BY <1>1, <1>2, <1>3 DEF Registry!Attach, Registry!Goto

(* A slot of the failed attach goes, with its context. *)
LEMMA RollbackStep ==
    ASSUME RegistryInv, Registry!Rollback, ~Registry!RolledBack
    PROVE  RegistryInv'
<1>1. /\ step = "rollback" /\ Len(slots) > checkpoint /\ Len(slots) > 0
      /\ slots' = Front(slots) /\ live' = live \ {slots[Len(slots)].ext}
      /\ UNCHANGED <<factories, step, turn, checkpoint, before, running, holds>>
  BY RegistryLibrary DEF Registry!Rollback, Registry!RolledBack, Last, Registry!factoryVars,
     Registry!attachVars, RegistryInv, RegistryTypeOK
<1>2. /\ slots' \in Seq(Slot) /\ Len(slots') = Len(slots) - 1 /\ Len(slots) \in Nat
      /\ \A k \in 1 .. Len(slots) - 1 : slots'[k] = slots[k]
  BY <1>1, WithoutLast DEF RegistryInv, RegistryTypeOK
<1>3. /\ slots \in Seq(Slot) /\ Len(slots) \in Nat /\ DOMAIN slots = 1 .. Len(slots)
      /\ DOMAIN slots' = 1 .. Len(slots) - 1
  BY <1>1, <1>2 DEF RegistryInv, RegistryTypeOK
<1>4. PICK n \in Nat : n = Len(slots) /\ n > 0
  <2>1. Len(slots) \in Nat /\ Len(slots) > 0
    BY <1>1, <1>3
  <2>q. QED
    BY <2>1
<1>5. /\ step = "rollback" /\ n > checkpoint
      /\ live' \subseteq Automatic /\ \A e \in Registry!Ext : e \in live' <=> e \in live /\
          e # slots[n].ext
      /\ UNCHANGED <<factories, step, turn, checkpoint, before, running, holds>>
  BY <1>1, <1>4 DEF RegistryInv, RegistryTypeOK
<1>6. /\ slots' \in Seq(Slot) /\ Len(slots') = n - 1 /\ DOMAIN slots = 1 .. n
      /\ n \in Nat /\ n > 0 /\ Len(slots) = n
      /\ DOMAIN slots' = 1 .. n - 1
      /\ \A k \in 1 .. n - 1 : slots'[k] = slots[k]
  BY <1>2, <1>3, <1>4
<1>7. \A e \in Registry!Ext : Registry!Registered(e)' <=> Registry!Registered(e) /\ e # slots[n].ext
  <2>1. \A e \in Registry!Ext : Registry!Registered(e) <=> \E k \in 1 .. n : slots[k].ext = e
    BY <1>6 DEF Registry!Registered
  <2>2. \A e \in Registry!Ext : Registry!Registered(e)' <=> \E k \in 1 .. n - 1 : slots[k].ext = e
    BY <1>6 DEF Registry!Registered
  <2>3. \A j, k \in 1 .. n : slots[j].ext = slots[k].ext => j = k
    BY <1>6 DEF RegistryInv, Ownership
  <2>q. QED
    BY <1>6, <2>1, <2>2, <2>3
<1>8. \A k \in 1 .. n : slots[k] \in Slot /\ slots[k].ext \in Registry!Ext
  <2>1. \A k \in 1 .. n : slots[k] \in Slot
    BY <1>3, <1>6, LenProperties
  <2>q. QED
    BY <2>1 DEF Slot
<1>9. RegistryTypeOK'
  BY <1>5, <1>6, <1>7, <1>8 DEF RegistryInv, RegistryTypeOK
<1>10. Ownership'
  <2>1. \A k \in 1 .. n - 1 : slots[k].owned <=> slots[k].ext \in Automatic
    BY <1>6 DEF RegistryInv, Ownership
  <2>2. \A j, k \in 1 .. n - 1 : slots[j].ext = slots[k].ext => j = k
    BY <1>6 DEF RegistryInv, Ownership
  <2>3. \A e \in Automatic : e \in live' <=> Registry!Registered(e)'
    BY <1>5, <1>7 DEF RegistryInv, Ownership, Registry!Ext
  <2>q. QED
    BY <1>6, <2>1, <2>2, <2>3 DEF Ownership
<1>11. FlagsAreTrue'
  <2>1. \A e \in Registry!Ext : Registry!Registered(e)' \/ holds'[e] = {}
    <3>1. /\ "binding" \notin holds[slots[n].ext] /\ "runtime" \notin holds[slots[n].ext]
          /\ "state" \notin holds[slots[n].ext]
      BY <1>5, <1>6 DEF RegistryInv, FlagsAreTrue, Walked, Started
    <3>2. slots[n].ext \in Registry!Ext
      BY <1>6, <1>8
    <3>3. holds[slots[n].ext] \subseteq {"binding", "runtime", "state"}
      BY <3>2 DEF RegistryInv, RegistryTypeOK
    <3>4. holds[slots[n].ext] = {}
      BY <3>1, <3>3
    <3>q. QED
      BY <1>5, <1>7, <3>4 DEF RegistryInv, FlagsAreTrue
  <2>q. QED
    BY <1>5, <1>6, <2>1 DEF RegistryInv, FlagsAreTrue
<1>12. Walked'
  BY <1>5, <1>6, <1>7, <1>8 DEF RegistryInv, Walked, RegistryTypeOK
<1>13. Started'
  BY <1>5, <1>6, <1>7, <1>8 DEF RegistryInv, Started, RegistryTypeOK
<1>14. AttachInv'
  BY <1>5, <1>6, <1>7, <1>8 DEF RegistryInv, AttachInv, RegistryTypeOK
<1>q. QED
  BY <1>9, <1>10, <1>11, <1>12, <1>13, <1>14 DEF RegistryInv

(* The attach is rolled back: the slots are what they were. *)
LEMMA RolledBackStep ==
    ASSUME RegistryInv, Registry!Rollback, Registry!RolledBack
    PROVE  RegistryInv'
<1>1. /\ step = "rollback" /\ step' = "down" /\ turn' = 0
      /\ UNCHANGED <<factories, slots, checkpoint, before, running, live, holds>>
  BY DEF Registry!Rollback, Registry!Goto, Registry!factoryVars, Registry!attachVars
<1>2. RegistryTypeOK'
  BY <1>1 DEF RegistryInv, RegistryTypeOK
<1>3. Ownership'
  BY <1>1 DEF RegistryInv, Ownership, RegistryTypeOK, Registry!Registered
<1>4. FlagsAreTrue'
  BY <1>1 DEF RegistryInv, FlagsAreTrue, RegistryTypeOK, Registry!Registered, Ownership
<1>5. Walked'
  BY <1>1 DEF RegistryInv, Walked, RegistryTypeOK
<1>6. Started'
  BY <1>1 DEF RegistryInv, Started, RegistryTypeOK
<1>7. AttachInv'
  BY <1>1 DEF RegistryInv, AttachInv, RegistryTypeOK
<1>q. QED
  BY <1>2, <1>3, <1>4, <1>5, <1>6, <1>7 DEF RegistryInv

(* Facts about a step that changes the flags of one slot. *)
LEMMA OneSlot ==
    ASSUME RegistryTypeOK, NEW i \in 1 .. Len(slots), NEW s \in Slot, slots' =
        [slots EXCEPT ![i] = s],
           s.ext = slots[i].ext, s.owned = slots[i].owned
    PROVE  /\ slots' \in Seq(Slot) /\ Len(slots') = Len(slots) /\ Len(slots) \in Nat
           /\ DOMAIN slots = 1 .. Len(slots) /\ DOMAIN slots' = 1 .. Len(slots)
           /\ slots'[i] = s
           /\ \A k \in 1 .. Len(slots) : /\ k # i => slots'[k] = slots[k]
                                         /\ slots'[k].ext = slots[k].ext
                                         /\ slots'[k].owned = slots[k].owned
                                         /\ slots[k] \in Slot /\ slots[k].ext \in Registry!Ext
           /\ \A e : Registry!Registered(e)' <=> Registry!Registered(e)
<1>1. /\ slots' \in Seq(Slot) /\ Len(slots') = Len(slots) /\ Len(slots) \in Nat
      /\ DOMAIN slots = 1 .. Len(slots) /\ DOMAIN slots' = 1 .. Len(slots)
      /\ \A k \in 1 .. Len(slots) : slots'[k] = IF k = i THEN s ELSE slots[k]
  BY Updated DEF RegistryTypeOK
<1>2. \A k \in 1 .. Len(slots) : /\ slots'[k].ext = slots[k].ext
                                 /\ slots'[k].owned = slots[k].owned
  BY <1>1
<1>3. \A k \in 1 .. Len(slots) : slots[k] \in Slot
  BY <1>1, LenProperties DEF RegistryTypeOK
<1>4. \A k \in 1 .. Len(slots) : slots[k].ext \in Registry!Ext
  BY <1>3 DEF Slot
<1>5. \A e : Registry!Registered(e)' <=> Registry!Registered(e)
  BY <1>1, <1>2 DEF Registry!Registered
<1>q. QED
  BY <1>1, <1>2, <1>3, <1>4, <1>5

(* The flags of the walked slots as the invariant needs them. *)
LEMMA OwnershipKept ==
    ASSUME RegistryInv, UNCHANGED live, DOMAIN slots' = DOMAIN slots,
           \A k \in DOMAIN slots : /\ slots'[k].ext = slots[k].ext
                                   /\ slots'[k].owned = slots[k].owned,
           \A e : Registry!Registered(e)' <=> Registry!Registered(e)
    PROVE  Ownership'
  BY DEF RegistryInv, Ownership

LEMMA QuiesceIs ==
    ASSUME RegistryInv, NEW i \in 1 .. Len(slots), Registry!Quiesce(i)
    PROVE  /\ slots' \in Seq(Slot) /\ Len(slots') = Len(slots) /\ Len(slots) \in Nat
           /\ DOMAIN slots = 1 .. Len(slots) /\ DOMAIN slots' = 1 .. Len(slots)
           /\ \A k \in 1 .. Len(slots) :
                /\ slots'[k].ext = slots[k].ext /\ slots'[k].owned = slots[k].owned
                /\ slots'[k].bound <=> k # i /\ slots[k].bound
                /\ slots'[k].initialized <=> slots[k].initialized
                /\ slots'[k].deinitRequired <=> slots[k].deinitRequired
                /\ slots[k].ext \in Registry!Ext
           /\ \A e : Registry!Registered(e)' <=> Registry!Registered(e)
           /\ holds' \in [Registry!Ext -> SUBSET {"binding", "state", "runtime"}]
           /\ \A f \in Registry!Ext : /\ f # slots[i].ext => holds'[f] = holds[f]
                                      /\ holds'[f] \subseteq holds[f]
                                      /\ "runtime" \in holds'[f] <=> "runtime" \in holds[f]
           /\ "binding" \notin holds'[slots[i].ext]
<1> DEFINE s == [slots[i] EXCEPT !.bound = FALSE]
           e == slots[i].ext
<1>1. slots[i] \in Slot /\ e \in Registry!Ext /\ holds[e] \subseteq {"binding", "state", "runtime"}
  <2>1. slots[i] \in Slot
    BY LenProperties DEF RegistryInv, RegistryTypeOK
  <2>q. QED
    BY <2>1 DEF Slot, RegistryInv, RegistryTypeOK
<1>2. s \in Slot /\ s.ext = slots[i].ext /\ s.owned = slots[i].owned /\ s.bound = FALSE
      /\ s.initialized = slots[i].initialized /\ s.deinitRequired = slots[i].deinitRequired
  BY <1>1, ReleasedSlot
<1>3. slots' = [slots EXCEPT ![i] = s]
  BY DEF Registry!Quiesce
<1> HIDE DEF s
<1>4. /\ slots' \in Seq(Slot) /\ Len(slots') = Len(slots) /\ Len(slots) \in Nat
      /\ DOMAIN slots = 1 .. Len(slots) /\ DOMAIN slots' = 1 .. Len(slots)
      /\ slots'[i] = s
      /\ \A k \in 1 .. Len(slots) : /\ k # i => slots'[k] = slots[k]
                                    /\ slots'[k].ext = slots[k].ext
                                    /\ slots'[k].owned = slots[k].owned
                                    /\ slots[k] \in Slot /\ slots[k].ext \in Registry!Ext
      /\ \A x : Registry!Registered(x)' <=> Registry!Registered(x)
  BY <1>2, <1>3, OneSlot DEF RegistryInv
<1>5. \A k \in 1 .. Len(slots) :
                /\ slots'[k].bound <=> k # i /\ slots[k].bound
                /\ slots'[k].initialized <=> slots[k].initialized
                /\ slots'[k].deinitRequired <=> slots[k].deinitRequired
  BY <1>2, <1>4
<1>6. holds' = IF slots[i].bound THEN [holds EXCEPT ![e] = holds[e] \ {"binding"}] ELSE holds
  BY DEF Registry!Quiesce
<1>7. /\ holds' \in [Registry!Ext -> SUBSET {"binding", "state", "runtime"}]
      /\ \A f \in Registry!Ext : /\ f # e => holds'[f] = holds[f]
                                 /\ holds'[f] \subseteq holds[f]
                                 /\ "runtime" \in holds'[f] <=> "runtime" \in holds[f]
  BY <1>1, <1>6 DEF RegistryInv, RegistryTypeOK
<1>8. "binding" \notin holds'[e]
  <2>1. ~slots[i].bound => "binding" \notin holds[e]
    BY <1>4 DEF RegistryInv, FlagsAreTrue
  <2>q. QED
    BY <1>1, <1>6, <2>1 DEF RegistryInv, RegistryTypeOK
<1>q. QED
  BY <1>4, <1>5, <1>7, <1>8

(* A failed bind releases the slots before it, and a walk all of them. *)
LEMMA UnbindStep ==
    ASSUME RegistryInv, Registry!Unbind, turn > 0
    PROVE  RegistryInv'
<1>1. /\ step = "unbind" /\ turn \in 1 .. Len(slots) /\ Registry!Quiesce(turn)
      /\ step' = "unbind" /\ turn' = turn - 1
      /\ UNCHANGED <<factories, checkpoint, before, running, live>>
  BY DEF Registry!Unbind, Registry!Goto, Registry!factoryVars, Registry!attachVars, RegistryInv,
     RegistryTypeOK, Walked
<1>2. /\ slots' \in Seq(Slot) /\ Len(slots') = Len(slots) /\ Len(slots) \in Nat
      /\ DOMAIN slots = 1 .. Len(slots) /\ DOMAIN slots' = 1 .. Len(slots)
      /\ \A k \in 1 .. Len(slots) :
           /\ slots'[k].ext = slots[k].ext /\ slots'[k].owned = slots[k].owned
           /\ slots'[k].bound <=> k # turn /\ slots[k].bound
           /\ slots'[k].initialized <=> slots[k].initialized
           /\ slots'[k].deinitRequired <=> slots[k].deinitRequired
           /\ slots[k].ext \in Registry!Ext
      /\ \A e : Registry!Registered(e)' <=> Registry!Registered(e)
      /\ holds' \in [Registry!Ext -> SUBSET {"binding", "state", "runtime"}]
      /\ \A f \in Registry!Ext : /\ f # slots[turn].ext => holds'[f] = holds[f]
                                 /\ holds'[f] \subseteq holds[f]
                                 /\ "runtime" \in holds'[f] <=> "runtime" \in holds[f]
      /\ "binding" \notin holds'[slots[turn].ext]
  BY <1>1, QuiesceIs
<1>3. RegistryTypeOK'
  BY <1>1, <1>2 DEF RegistryInv, RegistryTypeOK
<1>4. Ownership'
  BY <1>1, <1>2, OwnershipKept
<1>5. FlagsAreTrue'
  <2>1. \A e \in Registry!Ext : Registry!Registered(e)' \/ holds'[e] = {}
    BY <1>2 DEF RegistryInv, FlagsAreTrue
  <2>2. \A k \in 1 .. Len(slots) :
        "binding" \in holds'[slots[k].ext] <=> slots'[k].bound /\ slots[k].ext \in Binders
    <3>1. \A k \in 1 .. Len(slots) : slots[k].ext = slots[turn].ext => k = turn
      BY <1>1, <1>2 DEF RegistryInv, Ownership
    <3>2. \A k \in 1 .. Len(slots) : k # turn =>
             ("binding" \in holds[slots[k].ext] <=> slots'[k].bound /\ slots[k].ext \in Binders)
      BY <1>2 DEF RegistryInv, FlagsAreTrue
    <3>q. QED
      BY <1>1, <1>2, <3>1, <3>2
  <2>3. \A k \in 1 .. Len(slots) :
        /\ "runtime" \in holds'[slots[k].ext] <=> slots'[k].initialized
        /\ "state" \in holds'[slots[k].ext] => slots'[k].deinitRequired
        /\ slots'[k].initialized => slots'[k].deinitRequired
    BY <1>2 DEF RegistryInv, FlagsAreTrue
  <2>q. QED
    BY <1>2, <2>1, <2>2, <2>3 DEF FlagsAreTrue
<1>6. Walked'
  <2>1. \A k \in 1 .. Len(slots) : slots'[k].bound <=> k <= turn - 1
    BY <1>1, <1>2 DEF RegistryInv, Walked
  <2>2. \A j, k \in DOMAIN slots' : j < k /\ slots'[k].bound => slots'[j].bound
    BY <1>1, <1>2, <2>1
  <2>q. QED
    BY <1>1, <1>2, <2>1, <2>2 DEF Walked
<1>7. Started'
  BY <1>1, <1>2 DEF RegistryInv, Started, RegistryTypeOK
<1>8. AttachInv'
  BY <1>1, <1>2 DEF RegistryInv, AttachInv, RegistryTypeOK
<1>q. QED
  BY <1>3, <1>4, <1>5, <1>6, <1>7, <1>8 DEF RegistryInv

(* The walk of a teardown. *)
LEMMA QuiesceStep ==
    ASSUME RegistryInv, Registry!Quiesced, turn > 0
    PROVE  RegistryInv'
<1>1. /\ step = "quiesce" /\ turn \in 1 .. Len(slots) /\ Registry!Quiesce(turn)
      /\ step' = "quiesce" /\ turn' = turn - 1
      /\ UNCHANGED <<factories, checkpoint, before, running, live>>
  BY DEF Registry!Quiesced, Registry!Goto, Registry!factoryVars, Registry!attachVars,
     RegistryInv, RegistryTypeOK, Walked
<1>2. /\ slots' \in Seq(Slot) /\ Len(slots') = Len(slots) /\ Len(slots) \in Nat
      /\ DOMAIN slots = 1 .. Len(slots) /\ DOMAIN slots' = 1 .. Len(slots)
      /\ \A k \in 1 .. Len(slots) :
           /\ slots'[k].ext = slots[k].ext /\ slots'[k].owned = slots[k].owned
           /\ slots'[k].bound <=> k # turn /\ slots[k].bound
           /\ slots'[k].initialized <=> slots[k].initialized
           /\ slots'[k].deinitRequired <=> slots[k].deinitRequired
           /\ slots[k].ext \in Registry!Ext
      /\ \A e : Registry!Registered(e)' <=> Registry!Registered(e)
      /\ holds' \in [Registry!Ext -> SUBSET {"binding", "state", "runtime"}]
      /\ \A f \in Registry!Ext : /\ f # slots[turn].ext => holds'[f] = holds[f]
                                 /\ holds'[f] \subseteq holds[f]
                                 /\ "runtime" \in holds'[f] <=> "runtime" \in holds[f]
      /\ "binding" \notin holds'[slots[turn].ext]
  BY <1>1, QuiesceIs
<1>3. RegistryTypeOK'
  BY <1>1, <1>2 DEF RegistryInv, RegistryTypeOK
<1>4. Ownership'
  BY <1>1, <1>2, OwnershipKept
<1>5. FlagsAreTrue'
  <2>1. \A e \in Registry!Ext : Registry!Registered(e)' \/ holds'[e] = {}
    BY <1>2 DEF RegistryInv, FlagsAreTrue
  <2>2. \A k \in 1 .. Len(slots) :
        "binding" \in holds'[slots[k].ext] <=> slots'[k].bound /\ slots[k].ext \in Binders
    <3>1. \A k \in 1 .. Len(slots) : slots[k].ext = slots[turn].ext => k = turn
      BY <1>1, <1>2 DEF RegistryInv, Ownership
    <3>2. \A k \in 1 .. Len(slots) : k # turn =>
             ("binding" \in holds[slots[k].ext] <=> slots'[k].bound /\ slots[k].ext \in Binders)
      BY <1>2 DEF RegistryInv, FlagsAreTrue
    <3>q. QED
      BY <1>1, <1>2, <3>1, <3>2
  <2>3. \A k \in 1 .. Len(slots) :
        /\ "runtime" \in holds'[slots[k].ext] <=> slots'[k].initialized
        /\ "state" \in holds'[slots[k].ext] => slots'[k].deinitRequired
        /\ slots'[k].initialized => slots'[k].deinitRequired
    BY <1>2 DEF RegistryInv, FlagsAreTrue
  <2>q. QED
    BY <1>2, <2>1, <2>2, <2>3 DEF FlagsAreTrue
<1>6. Walked'
  <2>1. \A k \in 1 .. Len(slots) : k > turn - 1 => ~slots'[k].bound
    BY <1>1, <1>2 DEF RegistryInv, Walked
  <2>2. \A j, k \in 1 .. Len(slots) : j < k /\ slots[k].bound => slots[j].bound
    BY <1>2 DEF RegistryInv, Walked
  <2>3. \A j, k \in 1 .. Len(slots) : j < k /\ slots'[k].bound => slots'[j].bound
    BY <1>1, <1>2, <2>1, <2>2
  <2>q. QED
    BY <1>1, <1>2, <2>1, <2>3 DEF Walked
<1>7. Started'
  BY <1>1, <1>2 DEF RegistryInv, Started, RegistryTypeOK
<1>8. AttachInv'
  BY <1>1, <1>2 DEF RegistryInv, AttachInv, RegistryTypeOK
<1>q. QED
  BY <1>3, <1>4, <1>5, <1>6, <1>7, <1>8 DEF RegistryInv

(* The ends of these walks. *)
LEMMA WalkEndStep ==
    ASSUME RegistryInv, Registry!Unbind \/ Registry!Quiesced, ~(turn > 0)
    PROVE  RegistryInv'
<1>1. /\ UNCHANGED <<factories, slots, checkpoint, before, running, live, holds>>
      /\ turn = 0 /\ slots \in Seq(Slot) /\ Len(slots) \in Nat
  BY DEF Registry!Unbind, Registry!Quiesced, Registry!Goto, Registry!factoryVars,
     Registry!attachVars, RegistryInv, RegistryTypeOK
<1>2. \/ step = "unbind" /\ step' = "quiesce" /\ turn' = Len(slots)
      \/ step = "quiesce" /\ running /\ step' = "bind" /\ turn' = 1
      \/ step = "quiesce" /\ running /\ step' = "dead" /\ turn' = 0
      \/ step = "quiesce" /\ ~running /\ step' = "deinit" /\ turn' = Len(slots)
  BY Zenon DEF Registry!Unbind, Registry!Quiesced, Registry!Goto, Registry!Cleanup
<1>3. RegistryTypeOK'
  BY <1>1, <1>2 DEF RegistryInv, RegistryTypeOK
<1>4. Ownership'
  BY <1>1, <1>2 DEF RegistryInv, Ownership, RegistryTypeOK, Registry!Registered
<1>5. FlagsAreTrue'
  BY <1>1, <1>2 DEF RegistryInv, FlagsAreTrue, RegistryTypeOK, Registry!Registered, Ownership
<1>6. Walked'
  BY <1>1, <1>2 DEF RegistryInv, Walked, RegistryTypeOK
<1>7. Started'
  BY <1>1, <1>2 DEF RegistryInv, Started, RegistryTypeOK
<1>8. AttachInv'
  BY <1>1, <1>2 DEF RegistryInv, AttachInv, RegistryTypeOK
<1>q. QED
  BY <1>3, <1>4, <1>5, <1>6, <1>7, <1>8 DEF RegistryInv

(* A bind that fails has changed nothing of its own slot. *)
LEMMA BindFailsStep ==
    ASSUME RegistryInv, Registry!Bind, step' # "bind"
    PROVE  RegistryInv'
<1>1. /\ step = "bind" /\ step' = "unbind" /\ turn' = turn - 1
      /\ UNCHANGED <<factories, slots, checkpoint, before, running, live, holds>>
  BY DEF Registry!Bind, Registry!Goto, Registry!LastBound, Registry!Previous,
     Registry!factoryVars, Registry!attachVars
<1>2. turn \in 1 .. Len(slots) /\ Len(slots) \in Nat
  BY <1>1 DEF Registry!Bind, RegistryInv, RegistryTypeOK, Walked
<1>3. RegistryTypeOK'
  BY <1>1, <1>2 DEF RegistryInv, RegistryTypeOK
<1>4. Ownership'
  BY <1>1, <1>2 DEF RegistryInv, Ownership, RegistryTypeOK, Registry!Registered
<1>5. FlagsAreTrue'
  BY <1>1, <1>2 DEF RegistryInv, FlagsAreTrue, RegistryTypeOK, Registry!Registered, Ownership
<1>6. Walked'
  BY <1>1, <1>2 DEF RegistryInv, Walked, RegistryTypeOK
<1>7. Started'
  BY <1>1, <1>2 DEF RegistryInv, Started, RegistryTypeOK
<1>8. AttachInv'
  BY <1>1, <1>2 DEF RegistryInv, AttachInv, RegistryTypeOK
<1>q. QED
  BY <1>3, <1>4, <1>5, <1>6, <1>7, <1>8 DEF RegistryInv

(* A slot is bound. *)
LEMMA BindStep ==
    ASSUME RegistryInv, Registry!Bind, step' = "bind"
    PROVE  RegistryInv'
<1> DEFINE s == Registry!AfterBind(slots[turn])
           e == slots[turn].ext
<1>1. /\ step = "bind" /\ step' = "bind" /\ turn' = turn + 1 /\ turn <= Len(slots)
      /\ slots' = [slots EXCEPT ![turn] = s]
      /\ holds' = IF e \in Binders THEN [holds EXCEPT ![e] = holds[e] \cup {"binding",
          "state"}] ELSE holds
      /\ UNCHANGED <<factories, checkpoint, before, running, live>>
  BY DEF Registry!Bind, Registry!Goto, Registry!factoryVars, Registry!attachVars
<1>2. turn \in 1 .. Len(slots) /\ slots[turn] \in Slot /\ e \in Registry!Ext
  <2>1. turn \in 1 .. Len(slots)
    BY <1>1 DEF RegistryInv, Walked, Started, RegistryTypeOK
  <2>2. slots[turn] \in Slot
    BY <2>1, LenProperties DEF RegistryInv, RegistryTypeOK
  <2>q. QED
    BY <2>1, <2>2 DEF Slot
<1>3. s \in Slot /\ s.ext = e /\ s.owned = slots[turn].owned
      /\ s.bound = TRUE /\ s.initialized = slots[turn].initialized
      /\ (slots[turn].deinitRequired \/ e \in Binders => s.deinitRequired)
  BY <1>2, SlotUpdates
<1> HIDE DEF s
<1>4. /\ slots' \in Seq(Slot) /\ Len(slots') = Len(slots) /\ Len(slots) \in Nat
      /\ DOMAIN slots = 1 .. Len(slots) /\ DOMAIN slots' = 1 .. Len(slots)
      /\ slots'[turn] = s
      /\ \A k \in 1 .. Len(slots) : /\ k # turn => slots'[k] = slots[k]
                                    /\ slots'[k].ext = slots[k].ext
                                    /\ slots'[k].owned = slots[k].owned
                                    /\ slots[k] \in Slot /\ slots[k].ext \in Registry!Ext
      /\ \A x : Registry!Registered(x)' <=> Registry!Registered(x)
  BY <1>1, <1>2, <1>3, OneSlot DEF RegistryInv
<1>5. /\ \A k \in 1 .. Len(slots) : slots[k].ext = e => k = turn
      /\ Registry!Registered(e)
  BY <1>2, <1>4 DEF RegistryInv, Ownership, Registry!Registered
<1>6. /\ holds' \in [Registry!Ext -> SUBSET {"binding", "state", "runtime"}]
      /\ \A f \in Registry!Ext : f # e => holds'[f] = holds[f]
      /\ "binding" \in holds'[e] <=> "binding" \in holds[e] \/ e \in Binders
      /\ "state" \in holds'[e] => "state" \in holds[e] \/ e \in Binders
      /\ "runtime" \in holds'[e] <=> "runtime" \in holds[e]
  BY <1>1, <1>2 DEF RegistryInv, RegistryTypeOK
<1>7. RegistryTypeOK'
  BY <1>1, <1>2, <1>3, <1>4, <1>5, <1>6 DEF RegistryInv, RegistryTypeOK
<1>8. Ownership'
  BY <1>1, <1>4, OwnershipKept
<1>9. FlagsAreTrue'
  <2>1. \A x \in Registry!Ext : Registry!Registered(x)' \/ holds'[x] = {}
    BY <1>4, <1>5, <1>6 DEF RegistryInv, FlagsAreTrue
  <2>2. ASSUME NEW k \in 1 .. Len(slots), k # turn
        PROVE  /\ "binding" \in holds'[slots'[k].ext] <=> slots'[k].bound /\
                  slots'[k].ext \in Binders
               /\ "runtime" \in holds'[slots'[k].ext] <=> slots'[k].initialized
               /\ "state" \in holds'[slots'[k].ext] => slots'[k].deinitRequired
               /\ slots'[k].initialized => slots'[k].deinitRequired
    BY <2>2, <1>4, <1>5, <1>6 DEF RegistryInv, FlagsAreTrue
  <2>3. /\ "binding" \in holds'[e] <=> s.bound /\ e \in Binders
        /\ "runtime" \in holds'[e] <=> s.initialized
        /\ "state" \in holds'[e] => s.deinitRequired
        /\ s.initialized => s.deinitRequired
    <3>1. /\ "binding" \in holds[e] <=> slots[turn].bound /\ e \in Binders
          /\ "runtime" \in holds[e] <=> slots[turn].initialized
          /\ "state" \in holds[e] => slots[turn].deinitRequired
          /\ slots[turn].initialized => slots[turn].deinitRequired
      BY <1>2, <1>4 DEF RegistryInv, FlagsAreTrue
    <3>q. QED
      BY <1>3, <1>6, <3>1
  <2>q. QED
    BY <1>2, <1>3, <1>4, <2>1, <2>2, <2>3 DEF FlagsAreTrue
<1>10. Walked'
  BY <1>1, <1>2, <1>3, <1>4, <1>5, <1>6 DEF RegistryInv, Walked, RegistryTypeOK
<1>11. Started'
  BY <1>1, <1>2, <1>3, <1>4, <1>5, <1>6 DEF RegistryInv, Started, RegistryTypeOK
<1>12. AttachInv'
  BY <1>1, <1>2, <1>3, <1>4, <1>5, <1>6 DEF RegistryInv, AttachInv, RegistryTypeOK
<1>q. QED
  BY <1>7, <1>8, <1>9, <1>10, <1>11, <1>12 DEF RegistryInv

(* A slot is initialized. *)
LEMMA RuntimeInitStep ==
    ASSUME RegistryInv, Registry!RuntimeInit, step' = "init"
    PROVE  RegistryInv'
<1> DEFINE s == Registry!Initialized(slots[turn])
           e == slots[turn].ext
<1>1. /\ step = "init" /\ step' = "init" /\ turn' = turn + 1 /\ turn <= Len(slots)
      /\ slots' = [slots EXCEPT ![turn] = s]
      /\ holds' = [holds EXCEPT ![e] = holds[e] \cup {"runtime"}]
      /\ UNCHANGED <<factories, checkpoint, before, running, live>>
  BY DEF Registry!RuntimeInit, Registry!Goto, Registry!Cleanup, Registry!factoryVars,
     Registry!attachVars
<1>2. turn \in 1 .. Len(slots) /\ slots[turn] \in Slot /\ e \in Registry!Ext
  <2>1. turn \in 1 .. Len(slots)
    BY <1>1 DEF RegistryInv, Walked, Started, RegistryTypeOK
  <2>2. slots[turn] \in Slot
    BY <2>1, LenProperties DEF RegistryInv, RegistryTypeOK
  <2>q. QED
    BY <2>1, <2>2 DEF Slot
<1>3. s \in Slot /\ s.ext = e /\ s.owned = slots[turn].owned
      /\ s.bound = slots[turn].bound /\ s.initialized = TRUE /\ s.deinitRequired = TRUE
  BY <1>2, SlotUpdates
<1> HIDE DEF s
<1>4. /\ slots' \in Seq(Slot) /\ Len(slots') = Len(slots) /\ Len(slots) \in Nat
      /\ DOMAIN slots = 1 .. Len(slots) /\ DOMAIN slots' = 1 .. Len(slots)
      /\ slots'[turn] = s
      /\ \A k \in 1 .. Len(slots) : /\ k # turn => slots'[k] = slots[k]
                                    /\ slots'[k].ext = slots[k].ext
                                    /\ slots'[k].owned = slots[k].owned
                                    /\ slots[k] \in Slot /\ slots[k].ext \in Registry!Ext
      /\ \A x : Registry!Registered(x)' <=> Registry!Registered(x)
  BY <1>1, <1>2, <1>3, OneSlot DEF RegistryInv
<1>5. /\ \A k \in 1 .. Len(slots) : slots[k].ext = e => k = turn
      /\ Registry!Registered(e)
  BY <1>2, <1>4 DEF RegistryInv, Ownership, Registry!Registered
<1>6. /\ holds' \in [Registry!Ext -> SUBSET {"binding", "state", "runtime"}]
      /\ \A f \in Registry!Ext : f # e => holds'[f] = holds[f]
      /\ "binding" \in holds'[e] <=> "binding" \in holds[e]
      /\ "state" \in holds'[e] <=> "state" \in holds[e]
      /\ "runtime" \in holds'[e]
  BY <1>1, <1>2 DEF RegistryInv, RegistryTypeOK
<1>7. RegistryTypeOK'
  BY <1>1, <1>2, <1>3, <1>4, <1>5, <1>6 DEF RegistryInv, RegistryTypeOK
<1>8. Ownership'
  BY <1>1, <1>4, OwnershipKept
<1>9. FlagsAreTrue'
  <2>1. \A x \in Registry!Ext : Registry!Registered(x)' \/ holds'[x] = {}
    BY <1>4, <1>5, <1>6 DEF RegistryInv, FlagsAreTrue
  <2>2. ASSUME NEW k \in 1 .. Len(slots), k # turn
        PROVE  /\ "binding" \in holds'[slots'[k].ext] <=> slots'[k].bound /\
                  slots'[k].ext \in Binders
               /\ "runtime" \in holds'[slots'[k].ext] <=> slots'[k].initialized
               /\ "state" \in holds'[slots'[k].ext] => slots'[k].deinitRequired
               /\ slots'[k].initialized => slots'[k].deinitRequired
    BY <2>2, <1>4, <1>5, <1>6 DEF RegistryInv, FlagsAreTrue
  <2>3. /\ "binding" \in holds'[e] <=> s.bound /\ e \in Binders
        /\ "runtime" \in holds'[e] <=> s.initialized
        /\ "state" \in holds'[e] => s.deinitRequired
        /\ s.initialized => s.deinitRequired
    <3>1. /\ "binding" \in holds[e] <=> slots[turn].bound /\ e \in Binders
          /\ "runtime" \in holds[e] <=> slots[turn].initialized
          /\ "state" \in holds[e] => slots[turn].deinitRequired
          /\ slots[turn].initialized => slots[turn].deinitRequired
      BY <1>2, <1>4 DEF RegistryInv, FlagsAreTrue
    <3>q. QED
      BY <1>3, <1>6, <3>1
  <2>q. QED
    BY <1>2, <1>3, <1>4, <2>1, <2>2, <2>3 DEF FlagsAreTrue
<1>10. Walked'
  BY <1>1, <1>2, <1>3, <1>4, <1>5, <1>6 DEF RegistryInv, Walked, RegistryTypeOK
<1>11. Started'
  BY <1>1, <1>2, <1>3, <1>4, <1>5, <1>6 DEF RegistryInv, Started, RegistryTypeOK
<1>12. AttachInv'
  BY <1>1, <1>2, <1>3, <1>4, <1>5, <1>6 DEF RegistryInv, AttachInv, RegistryTypeOK
<1>q. QED
  BY <1>7, <1>8, <1>9, <1>10, <1>11, <1>12 DEF RegistryInv

(* An initialization that fails has changed nothing of its own slot. *)
LEMMA RuntimeInitFailsStep ==
    ASSUME RegistryInv, Registry!RuntimeInit, step' # "init"
    PROVE  RegistryInv'
<1>1. /\ step = "init" /\ step' = "quiesce" /\ turn' = Len(slots) /\ Len(slots) \in Nat
      /\ UNCHANGED <<factories, slots, checkpoint, before, running, live, holds>>
  BY DEF Registry!RuntimeInit, Registry!Goto, Registry!Cleanup, Registry!factoryVars,
     Registry!attachVars, RegistryInv, RegistryTypeOK
<1>2. RegistryTypeOK'
  BY <1>1 DEF RegistryInv, RegistryTypeOK
<1>3. Ownership'
  BY <1>1 DEF RegistryInv, Ownership, RegistryTypeOK, Registry!Registered
<1>4. FlagsAreTrue'
  BY <1>1 DEF RegistryInv, FlagsAreTrue, RegistryTypeOK, Registry!Registered, Ownership
<1>5. Walked'
  BY <1>1 DEF RegistryInv, Walked, RegistryTypeOK
<1>6. Started'
  BY <1>1 DEF RegistryInv, Started, RegistryTypeOK
<1>7. AttachInv'
  BY <1>1 DEF RegistryInv, AttachInv, RegistryTypeOK
<1>q. QED
  BY <1>2, <1>3, <1>4, <1>5, <1>6, <1>7 DEF RegistryInv

(* The slot of an application extension is torn down and kept. *)
LEMMA DeinitKeptStep ==
    ASSUME RegistryInv, Registry!RuntimeDeinit, ~Registry!Dropped(slots[turn])
    PROVE  RegistryInv'
<1> DEFINE s == Registry!Cleared(slots[turn])
           e == slots[turn].ext
<1>1. /\ step = "deinit" /\ step' = "deinit" /\ turn' = turn - 1 /\ turn > 0
      /\ holds' = IF slots[turn].deinitRequired THEN [holds EXCEPT ![e] = holds[e] \ {"state",
          "runtime"}]
                  ELSE holds
      /\ UNCHANGED <<factories, checkpoint, before, running>>
      /\ slots' = [slots EXCEPT ![turn] = s] /\ live' = live \ {e} /\ ~slots[turn].owned
  BY DEF Registry!RuntimeDeinit, Registry!Goto, Registry!DeinitDue, Registry!NeedsDeinit,
     Registry!Dropped, Registry!ReleasedByIt, Registry!factoryVars, Registry!attachVars
<1>2. turn \in 1 .. Len(slots) /\ slots[turn] \in Slot /\ e \in Registry!Ext
  <2>1. turn \in 1 .. Len(slots)
    BY <1>1 DEF RegistryInv, Walked, Started, RegistryTypeOK
  <2>2. slots[turn] \in Slot
    BY <2>1, LenProperties DEF RegistryInv, RegistryTypeOK
  <2>q. QED
    BY <2>1, <2>2 DEF Slot
<1>3. s \in Slot /\ s.ext = e /\ s.owned = slots[turn].owned
      /\ s.bound = slots[turn].bound /\ s.initialized = FALSE /\ s.deinitRequired = FALSE
  BY <1>2, SlotUpdates
<1> HIDE DEF s
<1>4. /\ slots' \in Seq(Slot) /\ Len(slots') = Len(slots) /\ Len(slots) \in Nat
      /\ DOMAIN slots = 1 .. Len(slots) /\ DOMAIN slots' = 1 .. Len(slots)
      /\ slots'[turn] = s
      /\ \A k \in 1 .. Len(slots) : /\ k # turn => slots'[k] = slots[k]
                                    /\ slots'[k].ext = slots[k].ext
                                    /\ slots'[k].owned = slots[k].owned
                                    /\ slots[k] \in Slot /\ slots[k].ext \in Registry!Ext
      /\ \A x : Registry!Registered(x)' <=> Registry!Registered(x)
  BY <1>1, <1>2, <1>3, OneSlot DEF RegistryInv
<1>5. /\ \A k \in 1 .. Len(slots) : slots[k].ext = e => k = turn
      /\ Registry!Registered(e)
  BY <1>2, <1>4 DEF RegistryInv, Ownership, Registry!Registered
<1>6. /\ holds' \in [Registry!Ext -> SUBSET {"binding", "state", "runtime"}]
      /\ \A f \in Registry!Ext : f # e => holds'[f] = holds[f]
      /\ holds'[e] = {}
  <2>1. /\ "binding" \notin holds[e]
        /\ slots[turn].deinitRequired \/ ("state" \notin holds[e] /\ "runtime" \notin holds[e])
    BY <1>1, <1>2 DEF RegistryInv, FlagsAreTrue, Walked
  <2>2. holds[e] \subseteq {"binding", "state", "runtime"} /\
      holds \in [Registry!Ext -> SUBSET {"binding", "state", "runtime"}]
    BY <1>2 DEF RegistryInv, RegistryTypeOK
  <2>3. holds' \in [Registry!Ext -> SUBSET {"binding", "state", "runtime"}]
    BY <1>1, <1>2, <2>2
  <2>4. \A f \in Registry!Ext : f # e => holds'[f] = holds[f]
    BY <1>1, <1>2, <2>2
  <2>5. CASE slots[turn].deinitRequired
    BY <1>1, <1>2, <2>1, <2>2, <2>5
  <2>6. CASE ~slots[turn].deinitRequired
    BY <1>1, <1>2, <2>1, <2>2, <2>6
  <2>q. QED
    BY <2>3, <2>4, <2>5, <2>6
<1>7. UNCHANGED live
  <2>1. e \notin Automatic /\ live \subseteq Automatic
    BY <1>1, <1>2, <1>4 DEF RegistryInv, Ownership, RegistryTypeOK
  <2>q. QED
    BY <1>1, <2>1
<1>8. RegistryTypeOK'
  BY <1>1, <1>2, <1>3, <1>4, <1>5, <1>6, <1>7 DEF RegistryInv, RegistryTypeOK
<1>9. Ownership'
  BY <1>4, <1>7, OwnershipKept
<1>10. FlagsAreTrue'
  <2>1. \A x \in Registry!Ext : Registry!Registered(x)' \/ holds'[x] = {}
    BY <1>4, <1>5, <1>6 DEF RegistryInv, FlagsAreTrue
  <2>2. ASSUME NEW k \in 1 .. Len(slots), k # turn
        PROVE  /\ "binding" \in holds'[slots'[k].ext] <=> slots'[k].bound /\
                  slots'[k].ext \in Binders
               /\ "runtime" \in holds'[slots'[k].ext] <=> slots'[k].initialized
               /\ "state" \in holds'[slots'[k].ext] => slots'[k].deinitRequired
               /\ slots'[k].initialized => slots'[k].deinitRequired
    BY <2>2, <1>4, <1>5, <1>6 DEF RegistryInv, FlagsAreTrue
  <2>3. /\ "binding" \in holds'[e] <=> s.bound /\ e \in Binders
        /\ "runtime" \in holds'[e] <=> s.initialized
        /\ "state" \in holds'[e] => s.deinitRequired
        /\ s.initialized => s.deinitRequired
    <3>1. /\ "binding" \in holds[e] <=> slots[turn].bound /\ e \in Binders
          /\ "runtime" \in holds[e] <=> slots[turn].initialized
          /\ "state" \in holds[e] => slots[turn].deinitRequired
          /\ slots[turn].initialized => slots[turn].deinitRequired
      BY <1>2, <1>4 DEF RegistryInv, FlagsAreTrue
    <3>q. QED
      BY <1>1, <1>2, <1>3, <1>6, <3>1 DEF RegistryInv, Walked
  <2>q. QED
    BY <1>2, <1>3, <1>4, <2>1, <2>2, <2>3 DEF FlagsAreTrue
<1>11. Walked'
  BY <1>1, <1>2, <1>3, <1>4, <1>5, <1>6, <1>7 DEF RegistryInv, Walked, RegistryTypeOK
<1>12. Started'
  BY <1>1, <1>2, <1>3, <1>4, <1>5, <1>6, <1>7 DEF RegistryInv, Started, RegistryTypeOK
<1>13. AttachInv'
  BY <1>1, <1>2, <1>3, <1>4, <1>5, <1>6, <1>7 DEF RegistryInv, AttachInv, RegistryTypeOK
<1>q. QED
  BY <1>8, <1>9, <1>10, <1>11, <1>12, <1>13 DEF RegistryInv

(* The slot of a linked extension goes with its context. *)
LEMMA DeinitDroppedStep ==
    ASSUME RegistryInv, Registry!RuntimeDeinit, Registry!Dropped(slots[turn])
    PROVE  RegistryInv'
<1> DEFINE e == slots[turn].ext
           n == Len(slots)
<1>1. /\ step = "deinit" /\ step' = "deinit" /\ turn' = turn - 1 /\ turn > 0
      /\ holds' = IF slots[turn].deinitRequired THEN [holds EXCEPT ![e] = holds[e] \ {"state",
          "runtime"}]
                  ELSE holds
      /\ UNCHANGED <<factories, checkpoint, before, running>>
      /\ slots' = RemoveAt(slots, turn) /\ live' = live \ {e}
  BY RegistryLibrary DEF Registry!RuntimeDeinit, Registry!Goto, Registry!DeinitDue,
     Registry!NeedsDeinit, Registry!factoryVars, Registry!attachVars
<1>2. /\ turn \in 1 .. n /\ n \in Nat /\ slots[turn] \in Slot /\ e \in Registry!Ext /\
         DOMAIN slots = 1 .. n
      /\ \A k \in 1 .. n : slots[k] \in Slot /\ slots[k].ext \in Registry!Ext
  <2>1. turn \in 1 .. n /\ n \in Nat /\ DOMAIN slots = 1 .. n
    BY <1>1 DEF RegistryInv, Walked, Started, RegistryTypeOK
  <2>2. \A k \in 1 .. n : slots[k] \in Slot
    BY <2>1, LenProperties DEF RegistryInv, RegistryTypeOK
  <2>3. \A k \in 1 .. n : slots[k].ext \in Registry!Ext
    BY <2>2 DEF Slot
  <2>q. QED
    BY <2>1, <2>2, <2>3
<1>3. /\ slots' \in Seq(Slot) /\ Len(slots') = n - 1 /\ DOMAIN slots' = 1 .. n - 1
      /\ \A k \in 1 .. n - 1 : slots'[k] = IF k < turn THEN slots[k] ELSE slots[k + 1]
  <2>1. /\ RemoveAt(slots, turn) \in Seq(Slot) /\ Len(RemoveAt(slots, turn)) = n - 1
        /\ \A k \in 1 .. n - 1 : RemoveAt(slots, turn)[k] =
            IF k < turn THEN slots[k] ELSE slots[k + 1]
    BY <1>2, Removed DEF RegistryInv, RegistryTypeOK
  <2>2. slots' \in Seq(Slot) /\ Len(slots') = n - 1
    BY <1>1, <2>1
  <2>3. DOMAIN slots' = 1 .. n - 1
    BY <2>2
  <2>q. QED
    BY <1>1, <2>1, <2>2, <2>3
<1>4. PICK old \in [1 .. n - 1 -> 1 .. n] : \A k \in 1 .. n - 1 : old[k] =
    IF k < turn THEN k ELSE k + 1
  <2>1. [k \in 1 .. n - 1 |-> IF k < turn THEN k ELSE k + 1] \in [1 .. n - 1 -> 1 .. n]
    BY <1>2
  <2>q. QED
    BY <2>1
<1>5. /\ \A k \in 1 .. n - 1 : slots'[k] = slots[old[k]] /\ old[k] \in 1 .. n /\ old[k] # turn
      /\ \A j, k \in 1 .. n - 1 : j < k <=> old[j] < old[k]
      /\ \A k \in 1 .. n - 1 : k > turn - 1 => old[k] > turn
      /\ \A j \in 1 .. n : j # turn => \E k \in 1 .. n - 1 : old[k] = j
  <2>1. ASSUME NEW k \in 1 .. n - 1
        PROVE  slots'[k] = slots[old[k]] /\ old[k] \in 1 .. n /\ old[k] # turn
    <3>1. n \in Nat /\ turn \in 1 .. n
      BY <1>2
    <3>2. old[k] = IF k < turn THEN k ELSE k + 1
      BY <1>4
    <3>3. slots'[k] = IF k < turn THEN slots[k] ELSE slots[k + 1]
      BY <1>3
    <3>4. old[k] \in 1 .. n /\ old[k] # turn
      BY <3>1, <3>2
    <3>q. QED
      BY <3>2, <3>3, <3>4
  <2>2. \A j, k \in 1 .. n - 1 : j < k <=> old[j] < old[k]
    BY <1>2, <1>4
  <2>3. \A k \in 1 .. n - 1 : k > turn - 1 => old[k] > turn
    BY <1>2, <1>4
  <2>4. ASSUME NEW j \in 1 .. n, j # turn PROVE \E k \in 1 .. n - 1 : old[k] = j
    <3>1. CASE j < turn
      <4>1. j \in 1 .. n - 1 /\ old[j] = j
        BY <1>2, <1>4, <3>1
      <4>q. QED
        BY <4>1
    <3>2. CASE j > turn
      <4>1. j - 1 \in 1 .. n - 1 /\ old[j - 1] = j
        BY <1>2, <1>4, <3>2
      <4>q. QED
        BY <4>1
    <3>q. QED
      BY <1>2, <2>4, <3>1, <3>2
  <2>q. QED
    BY <2>1, <2>2, <2>3, <2>4
<1>6. /\ holds' \in [Registry!Ext -> SUBSET {"binding", "state", "runtime"}]
      /\ \A f \in Registry!Ext : f # e => holds'[f] = holds[f]
      /\ holds'[e] = {}
  <2>1. /\ "binding" \notin holds[e]
        /\ slots[turn].deinitRequired \/ ("state" \notin holds[e] /\ "runtime" \notin holds[e])
    BY <1>1, <1>2 DEF RegistryInv, FlagsAreTrue, Walked
  <2>2. holds[e] \subseteq {"binding", "state", "runtime"} /\
      holds \in [Registry!Ext -> SUBSET {"binding", "state", "runtime"}]
    BY <1>2 DEF RegistryInv, RegistryTypeOK
  <2>3. holds' \in [Registry!Ext -> SUBSET {"binding", "state", "runtime"}]
    BY <1>1, <1>2, <2>2
  <2>4. \A f \in Registry!Ext : f # e => holds'[f] = holds[f]
    BY <1>1, <1>2, <2>2
  <2>5. CASE slots[turn].deinitRequired
    BY <1>1, <1>2, <2>1, <2>2, <2>5
  <2>6. CASE ~slots[turn].deinitRequired
    BY <1>1, <1>2, <2>1, <2>2, <2>6
  <2>q. QED
    BY <2>3, <2>4, <2>5, <2>6
<1>7. /\ \A k \in 1 .. n : slots[k].ext = e => k = turn
      /\ \A x \in Registry!Ext : Registry!Registered(x)' <=> Registry!Registered(x) /\ x # e
      /\ Registry!Registered(e)
  <2>1. \A k \in 1 .. n : slots[k].ext = e => k = turn
    BY <1>2 DEF RegistryInv, Ownership
  <2>2. \A x \in Registry!Ext : Registry!Registered(x) <=> \E k \in 1 .. n : slots[k].ext = x
    BY <1>2 DEF Registry!Registered
  <2>3. \A x \in Registry!Ext : Registry!Registered(x)' <=> \E k \in 1 .. n - 1 : slots'[k].ext = x
    BY <1>3 DEF Registry!Registered
  <2>4. ASSUME NEW x \in Registry!Ext PROVE Registry!Registered(x)' =>
      Registry!Registered(x) /\ x # e
    <3> SUFFICES ASSUME Registry!Registered(x)' PROVE Registry!Registered(x) /\ x # e
      OBVIOUS
    <3>1. PICK k \in 1 .. n - 1 : slots'[k].ext = x
      BY <2>3
    <3>2. slots[old[k]].ext = x /\ old[k] \in 1 .. n /\ old[k] # turn
      BY <1>5, <3>1
    <3>q. QED
      BY <2>1, <2>2, <3>2
  <2>5. ASSUME NEW x \in Registry!Ext, Registry!Registered(x), x # e PROVE Registry!Registered(x)'
    <3>1. PICK j \in 1 .. n : slots[j].ext = x
      BY <2>2, <2>5
    <3>2. PICK k \in 1 .. n - 1 : old[k] = j
      BY <1>5, <2>5, <3>1
    <3>q. QED
      BY <1>5, <2>3, <3>1, <3>2
  <2>q. QED
    BY <1>2, <2>1, <2>2, <2>4, <2>5
<1> HIDE DEF n, e
<1>8. RegistryTypeOK'
  <2>1. live' \subseteq Automatic
    BY <1>1 DEF RegistryInv, RegistryTypeOK
  <2>2. turn' \in Nat
    BY <1>1, <1>2
  <2>q. QED
    BY <1>1, <1>3, <1>6, <2>1, <2>2 DEF RegistryInv, RegistryTypeOK
<1>9. Ownership'
  <2>1. \A j \in 1 .. n : slots[j].owned <=> slots[j].ext \in Automatic
    BY <1>2 DEF RegistryInv, Ownership
  <2>2. \A k \in 1 .. n - 1 : slots'[k].owned <=> slots'[k].ext \in Automatic
    BY <1>5, <2>1
  <2>3. ASSUME NEW j \in 1 .. n - 1, NEW k \in 1 .. n - 1, slots'[j].ext = slots'[k].ext
        PROVE  j = k
    <3>1. old[j] = old[k]
      BY <1>2, <1>5, <2>3 DEF RegistryInv, Ownership
    <3>q. QED
      BY <1>2, <1>5, <3>1
  <2>4. \A x \in Automatic : x \in live' <=> Registry!Registered(x)'
    BY <1>1, <1>7 DEF RegistryInv, Ownership, Registry!Ext
  <2>q. QED
    BY <1>3, <2>2, <2>3, <2>4 DEF Ownership
<1>10. FlagsAreTrue'
  <2>1. \A x \in Registry!Ext : Registry!Registered(x)' \/ holds'[x] = {}
    BY <1>2, <1>6, <1>7 DEF RegistryInv, FlagsAreTrue
  <2>2. ASSUME NEW k \in 1 .. n - 1
        PROVE  /\ "binding" \in holds'[slots'[k].ext] <=> slots'[k].bound /\
                  slots'[k].ext \in Binders
               /\ "runtime" \in holds'[slots'[k].ext] <=> slots'[k].initialized
               /\ "state" \in holds'[slots'[k].ext] => slots'[k].deinitRequired
               /\ slots'[k].initialized => slots'[k].deinitRequired
    <3>1. PICK j \in 1 .. n : j # turn /\ slots'[k] = slots[j]
      BY <1>5
    <3>2. holds'[slots[j].ext] = holds[slots[j].ext]
      BY <1>2, <1>6, <1>7, <3>1
    <3>q. QED
      BY <1>2, <3>1, <3>2 DEF RegistryInv, FlagsAreTrue
  <2>q. QED
    BY <1>3, <2>1, <2>2 DEF FlagsAreTrue
<1>11. Walked'
  <2>1. \A k \in 1 .. n - 1 : ~slots'[k].bound
    BY <1>1, <1>2, <1>5 DEF RegistryInv, Walked
  <2>q. QED
    BY <1>1, <1>3, <2>1 DEF Walked
<1>12. Started'
  <2>1. ASSUME NEW j \in 1 .. n - 1, NEW k \in 1 .. n - 1, j < k, slots'[k].initialized
        PROVE  slots'[j].initialized
    BY <1>2, <1>5, <2>1 DEF RegistryInv, Started
  <2>2. \A k \in 1 .. n - 1 : k > turn' => ~slots'[k].initialized /\ ~slots'[k].deinitRequired
    BY <1>1, <1>2, <1>5 DEF RegistryInv, Started
  <2>3. turn' \in 0 .. n - 1
    BY <1>1, <1>2
  <2>q. QED
    BY <1>1, <1>3, <2>1, <2>2, <2>3 DEF RegistryInv, Started
<1>13. AttachInv'
  BY <1>1 DEF AttachInv
<1>q. QED
  BY <1>8, <1>9, <1>10, <1>11, <1>12, <1>13 DEF RegistryInv

(* The invariant, and what it implies. *)
LEMMA RegistryInvariant == Spec => []RegistryInv
<1>1. Registry!Init => RegistryInv
  <2> SUFFICES ASSUME Registry!Init PROVE RegistryInv
    OBVIOUS
  <2>1. factories \in Seq([ext : Automatic, order : Orders]) /\ slots \in Seq(Slot) /\
      before \in Seq(Slot)
    BY DEF Registry!Init
  <2>2. holds \in [Registry!Ext -> SUBSET {"binding", "state", "runtime"}] /\
      \A e \in Registry!Ext : holds[e] = {}
    BY DEF Registry!Init
  <2>3. RegistryTypeOK
    BY <2>1, <2>2 DEF Registry!Init, RegistryTypeOK
  <2>4. DOMAIN slots = {} /\ \A e : ~Registry!Registered(e)
    BY DEF Registry!Init, Registry!Registered
  <2>5. Ownership
    BY <2>4 DEF Registry!Init, Ownership
  <2>6. FlagsAreTrue
    BY <2>2, <2>4 DEF FlagsAreTrue
  <2>7. Walked /\ Started
    BY <2>4 DEF Registry!Init, Walked, Started
  <2>q. QED
    BY <2>3, <2>5, <2>6, <2>7 DEF Registry!Init, RegistryInv, AttachInv
<1>2. RegistryInv /\ [Registry!Next]_(Registry!vars) => RegistryInv'
  <2> SUFFICES ASSUME RegistryInv, [Registry!Next]_(Registry!vars) PROVE RegistryInv'
    OBVIOUS
  <2>1. CASE UNCHANGED Registry!vars
    BY <2>1 DEF Registry!vars, Registry!factoryVars, Registry!attachVars, Registry!extVars,
       RegistryInv, RegistryTypeOK, Ownership, FlagsAreTrue, Walked,
       Started, AttachInv, Registry!Registered
  <2>2. CASE Registry!Next
    <3>1. CASE \E e \in Manual : Registry!Register(e)
      BY <3>1, RegisterStep
    <3>2. CASE \E e \in Automatic, o \in Orders : Registry!FactoryRegister(e, o)
      BY <3>2, FactoryRegisterStep
    <3>3. CASE Registry!Rollback \/ Registry!Attach
      BY <3>3, RollbackStep, RolledBackStep, AttachStep
    <3>4. CASE Registry!Bind
      BY <3>4, BindStep, BindFailsStep
    <3>5. CASE Registry!Unbind \/ Registry!Quiesced
      BY <3>5, UnbindStep, QuiesceStep, WalkEndStep
    <3>6. CASE Registry!RuntimeInit
      BY <3>6, RuntimeInitStep, RuntimeInitFailsStep
    <3>7. CASE Registry!RuntimeDeinit
      BY <3>7, DeinitKeptStep, DeinitDroppedStep
    <3>8. CASE Registry!Dead
      BY <2>1, <3>8 DEF Registry!Dead
    <3>9. CASE Registry!AutoAttachAll \/ Registry!AttachedAll \/ Registry!AppInit \/
        Registry!BoundAll \/ Registry!RuntimeStart
               \/ Registry!CommunicationReset \/ Registry!InitFailed
      BY <3>9, WalkStep
    <3>q. QED
      BY <2>2, <3>1, <3>2, <3>3, <3>4, <3>5, <3>6, <3>7, <3>8, <3>9 DEF Registry!Next
  <2>q. QED
    BY <2>1, <2>2
<1>q. QED
  BY <1>1, <1>2, Starts, Steps, PTL DEF Spec

(* Every context has one releaser, extensions are unwound in reverse, and  *)
(* a failed initialization leaves nothing held (CO_lifecycle_RTT.c:297).   *)
THEOREM RegistryUnwinds == Spec => [](Registry!OneReleaser /\ Registry!UnwindsInReverse /\
    Registry!CleanFailure)
<1>1. ASSUME RegistryInv PROVE Registry!OneReleaser
  <2> SUFFICES ASSUME NEW e \in Automatic
               PROVE  IF e \in live
                      THEN \E k \in DOMAIN slots : \A j \in DOMAIN slots : slots[j].ext =
                          e <=> j = k
                      ELSE ~Registry!Registered(e) /\ holds[e] = {}
    BY DEF Registry!OneReleaser
  <2>1. CASE e \in live
    <3>1. PICK k \in DOMAIN slots : slots[k].ext = e
      BY <1>1, <2>1 DEF RegistryInv, Ownership, Registry!Registered
    <3>2. \A j \in DOMAIN slots : slots[j].ext = e <=> j = k
      BY <1>1, <3>1 DEF RegistryInv, Ownership
    <3>q. QED
      BY <2>1, <3>2
  <2>2. CASE e \notin live
    BY <1>1, <2>2 DEF RegistryInv, Ownership, FlagsAreTrue, Registry!Ext
  <2>q. QED
    BY <2>1, <2>2
<1>2. ASSUME RegistryInv PROVE Registry!UnwindsInReverse
  BY <1>2 DEF RegistryInv, FlagsAreTrue, Walked, Started, Registry!UnwindsInReverse
<1>3. ASSUME RegistryInv PROVE Registry!CleanFailure
  <2>1. ASSUME NEW e \in Registry!Ext, step = "down" PROVE holds[e] = {}
    <3>1. CASE ~Registry!Registered(e)
      BY <1>3, <3>1 DEF RegistryInv, FlagsAreTrue
    <3>2. CASE Registry!Registered(e)
      <4>1. PICK k \in DOMAIN slots : slots[k].ext = e
        BY <3>2 DEF Registry!Registered
      <4>2. "binding" \notin holds[e] /\ "runtime" \notin holds[e] /\ "state" \notin holds[e]
        BY <1>3, <2>1, <4>1 DEF RegistryInv, FlagsAreTrue, Walked, Started
      <4>3. holds[e] \subseteq {"binding", "state", "runtime"}
        BY <1>3 DEF RegistryInv, RegistryTypeOK
      <4>q. QED
        BY <4>2, <4>3
    <3>q. QED
      BY <3>1, <3>2
  <2>2. ASSUME NEW e \in Registry!Ext, step = "dead" PROVE "binding" \notin holds[e]
    <3>1. CASE ~Registry!Registered(e)
      BY <1>3, <3>1 DEF RegistryInv, FlagsAreTrue
    <3>2. CASE Registry!Registered(e)
      BY <1>3, <2>2, <3>2 DEF RegistryInv, FlagsAreTrue, Walked, Registry!Registered
    <3>q. QED
      BY <3>1, <3>2
  <2>q. QED
    BY <2>1, <2>2 DEF Registry!CleanFailure
<1>q. QED
  BY <1>1, <1>2, <1>3, RegistryInvariant, PTL

(* A failed automatic attach leaves the slots as they were.                *)
THEOREM AttachRollsBack == Spec => Registry!AttachIsAtomic
<1>1. RegistryInv /\ [Registry!Next]_(Registry!vars) => [step = "rollback" /\ step' = "down" =>
    slots' = before]_(Registry!vars)
  <2> SUFFICES ASSUME RegistryInv, Registry!Next, step = "rollback", step' = "down"
               PROVE  slots' = before
    BY DEF Registry!vars, Registry!factoryVars, Registry!attachVars, Registry!extVars
  <2>1. Registry!Rollback
    BY DEF Registry!Next, Registry!Register, Registry!FactoryRegister, Registry!AutoAttachAll,
       Registry!Attach, Registry!AttachedAll, Registry!AppInit, Registry!Bind,
       Registry!BoundAll, Registry!Unbind, Registry!RuntimeInit, Registry!RuntimeStart,
           Registry!CommunicationReset, Registry!Quiesced, Registry!RuntimeDeinit,
       Registry!InitFailed, Registry!Dead, Registry!vars
  <2>2. UNCHANGED slots /\ Len(slots) <= checkpoint
    BY <2>1 DEF Registry!Rollback, Registry!RolledBack
  <2>3. /\ slots \in Seq(Slot) /\ before \in Seq(Slot) /\ checkpoint = Len(before)
        /\ checkpoint <= Len(slots) /\ \A k \in 1 .. checkpoint : slots[k] = before[k]
    BY DEF RegistryInv, RegistryTypeOK, AttachInv
  <2>4. Len(slots) = Len(before)
    BY <2>2, <2>3
  <2>5. slots = before
    BY <2>3, <2>4, SeqEqual
  <2>q. QED
    BY <2>2, <2>5
<1>q. QED
  BY <1>1, RegistryInvariant, Starts, Steps, PTL DEF Spec, Registry!AttachIsAtomic

-----------------------------------------------------------------------------
(***************************************************************************)
(* The dictionary binding: what was checked before an adapter was bound    *)
(* still holds while it is, since neither the product nor the generated    *)
(* dictionary changes, and the contracts that were checked name every      *)
(* object a pass accesses.                                                 *)
(***************************************************************************)

(* How far the walk of the managers has come.                              *)
PhaseInv ==
    /\ bindPhase = "unbound" => managersBound = 0
    /\ bindPhase = "binding" => managersBound < Len(Binding!Managers)
    /\ bindPhase = "bound" => managersBound = Len(Binding!Managers)

(* What was checked before an adapter was bound still holds: neither the   *)
(* product nor the generated dictionary changes.                           *)
Accepted ==
    /\ Binding!IsBound("io") => \A row \in Binding!IoRows : Binding!IoRowHolds(row)
    /\ Binding!IsBound("drives") => \A a \in Binding!AxesOf(product) :
        \A row \in Binding!AxisRows : Binding!AxisRowHolds(a, row)

(* Who owns which extension.                                               *)
Owned ==
    /\ \A e \in Binding!IoExtended :
         IF Binding!IsBound("io") THEN extension[e] \in {"io", "foreign"} ELSE extension[e] # "io"
    /\ \A a \in Binding!AxesOf(product) : \A e \in Binding!AxisExtended(a) :
         IF Binding!IsBound("drives") THEN extension[e] \in {a.name,
             "foreign"} ELSE extension[e] \notin Binding!AxisNames

Described ==
    Binding!IsBound("validator") =>
        \A i \in DOMAIN product.descriptors :
           descriptorOwners[product.descriptors[i].slot] = product.descriptors[i].profile

BindingInv == Binding!TypeOK /\ PhaseInv /\ Accepted /\ Owned /\ Described

(* Which managers are bound. *)
LEMMA BoundAre ==
    ASSUME product.mixed \in BOOLEAN, managersBound \in 0 .. Len(Binding!Managers)
    PROVE  /\ product.mixed => /\ Binding!Managers = <<"validator", "io", "drives">> /\
                                  Len(Binding!Managers) = 3
                               /\ Binding!IsBound("validator") <=> managersBound >= 1
                               /\ Binding!IsBound("io") <=> managersBound >= 2
                               /\ Binding!IsBound("drives") <=> managersBound >= 3
           /\ ~product.mixed => /\ Binding!Managers = <<"io">> /\ Len(Binding!Managers) = 1
                                /\ Binding!IsBound("io") <=> managersBound >= 1
                                /\ ~Binding!IsBound("validator") /\ ~Binding!IsBound("drives")
<1>1. CASE product.mixed
  <2>1. Binding!Managers = <<"validator", "io", "drives">>
    BY <1>1 DEF Binding!Managers
  <2>2. /\ Len(Binding!Managers) = 3 /\ Binding!Managers[1] = "validator" /\
           Binding!Managers[2] = "io"
        /\ Binding!Managers[3] = "drives"
    BY <2>1
  <2>3. managersBound \in 0 .. 3
    BY <2>2
  <2>4. /\ Binding!IsBound("validator") <=> managersBound >= 1
        /\ Binding!IsBound("io") <=> managersBound >= 2
        /\ Binding!IsBound("drives") <=> managersBound >= 3
    BY <2>2, <2>3 DEF Binding!IsBound
  <2>q. QED
    BY <1>1, <2>1, <2>2, <2>4
<1>2. CASE ~product.mixed
  <2>1. Binding!Managers = <<"io">>
    BY <1>2 DEF Binding!Managers
  <2>2. Len(Binding!Managers) = 1 /\ Binding!Managers[1] = "io"
    BY <2>1
  <2>3. managersBound \in 0 .. 1
    BY <2>2
  <2>4. /\ Binding!IsBound("io") <=> managersBound >= 1
        /\ ~Binding!IsBound("validator") /\ ~Binding!IsBound("drives")
    BY <2>2, <2>3 DEF Binding!IsBound
  <2>q. QED
    BY <1>2, <2>1, <2>2, <2>4
<1>q. QED
  BY <1>1, <1>2

(* What follows from the product alone stays. *)
LEMMA ProductStays ==
    ASSUME UNCHANGED <<product, flaw>>
    PROVE  /\ Binding!Extended' = Binding!Extended /\ Binding!IoExtended' =
              Binding!IoExtended /\ Binding!AxisNames' = Binding!AxisNames
           /\ Binding!Managers' = Binding!Managers /\ Binding!AxesOf(product)' =
               Binding!AxesOf(product)
           /\ \A a : Binding!AxisExtended(a)' = Binding!AxisExtended(a)
           /\ \A row : Binding!IoRowHolds(row)' = Binding!IoRowHolds(row)
           /\ \A a, row : Binding!AxisRowHolds(a, row)' = Binding!AxisRowHolds(a, row)
           /\ Binding!Flaws(product)' = Binding!Flaws(product)
<1>1. Binding!Extended' = Binding!Extended /\ Binding!IoExtended' = Binding!IoExtended /\
    Binding!AxisNames' = Binding!AxisNames
  BY DEF Binding!Extended, Binding!IoExtended, Binding!AxisNames, Binding!AxesOf
<1>2. Binding!Managers' = Binding!Managers /\ Binding!AxesOf(product)' =
    Binding!AxesOf(product) /\ Binding!Flaws(product)' = Binding!Flaws(product)
  BY DEF Binding!Managers
<1>3. \A a : Binding!AxisExtended(a)' = Binding!AxisExtended(a)
  BY DEF Binding!AxisExtended
<1>4. \A row : Binding!IoRowHolds(row)' = Binding!IoRowHolds(row)
  BY DEF Binding!IoRowHolds, Binding!Entry
<1>5. \A a, row : Binding!AxisRowHolds(a, row)' = Binding!AxisRowHolds(a, row)
  BY DEF Binding!AxisRowHolds, Binding!Entry
<1>q. QED
  BY <1>1, <1>2, <1>3, <1>4, <1>5

(* The extensions of the drives are none of the process images, and belong *)
(* to one drive each once the drives are accepted.                         *)
LEMMA AxisEntries ==
    /\ Binding!IoExtended \subseteq Binding!Extended
    /\ \A a \in Binding!AxesOf(product) : Binding!AxisExtended(a) \subseteq Binding!Extended /\
        a.name \in Binding!AxisNames
    /\ \A a \in Binding!AxesOf(product) : \A e \in Binding!AxisExtended(a) : e[1] = a.slot /\
        e \notin Binding!IoExtended
<1>1. Binding!IoExtended \subseteq Binding!Extended
  BY DEF Binding!Extended
<1>2. \A a \in Binding!AxesOf(product) : Binding!AxisExtended(a) \subseteq Binding!Extended /\
    a.name \in Binding!AxisNames
  BY DEF Binding!Extended, Binding!AxisNames
<1>3. \A a \in Binding!AxesOf(product) : \A e \in Binding!AxisExtended(a) : e[1] = a.slot /\
    e[2] \in {"6040", "6060"}
  BY DEF Binding!AxisExtended
<1>4. \A e \in Binding!IoExtended : e[2] \in {"6000", "6003", "6200", "6401", "6411", "6422"}
  BY DEF Binding!IoExtended
<1>q. QED
  BY <1>1, <1>2, <1>3, <1>4

LEMMA OwnersDiffer ==
    ASSUME Binding!TypeOK
    PROVE  product.mixed \in BOOLEAN /\ "none" \notin Binding!AxisNames /\
        "foreign" \notin Binding!AxisNames
           /\ "io" \notin Binding!AxisNames
  BY NodeAssumption DEF Binding!TypeOK, Binding!BindingAssumption, Binding!AxisNames, Binding!AxesOf

LEMMA LastOwnerIs ==
    ASSUME Binding!TypeOK, Binding!DistinctSlots
    PROVE  /\ \A a \in Binding!AxesOf(product) : \A e \in Binding!AxisExtended(a) :
              Binding!LastOwner(e) = a.name
           /\ \A e : (\A a \in Binding!AxesOf(product) : e \notin Binding!AxisExtended(a)) =>
               Binding!LastOwner(e) = extension[e]
<1>1. ASSUME NEW a \in Binding!AxesOf(product), NEW e \in Binding!AxisExtended(a)
      PROVE  Binding!LastOwner(e) = a.name
  <2> DEFINE mine == {i \in DOMAIN product.axes : e \in Binding!AxisExtended(product.axes[i])}
  <2>1. PICK i \in DOMAIN product.axes : product.axes[i] = a
    BY DEF Binding!AxesOf
  <2>2. i \in mine
    BY <2>1
  <2>3. \A j \in mine : product.axes[j].slot = a.slot
    BY DEF Binding!AxisExtended
  <2>4. \A j \in mine : j = i
    BY <2>1, <2>2, <2>3 DEF Binding!DistinctSlots
  <2>5. mine = {i}
    BY <2>2, <2>4
  <2>6. i \in Nat
    BY NodeAssumption DEF Binding!TypeOK, Binding!BindingAssumption
  <2>7. Binding!LastOwner(e) = product.axes[CHOOSE k \in mine : \A j \in mine : j <= k].name
    BY <2>2 DEF Binding!LastOwner
  <2>8. (CHOOSE k \in mine : \A j \in mine : j <= k) = i
    <3> HIDE DEF mine
    <3>q. QED
      BY <2>5, <2>6
  <2>q. QED
    BY <2>1, <2>7, <2>8
<1>2. ASSUME NEW e, \A a \in Binding!AxesOf(product) : e \notin Binding!AxisExtended(a)
      PROVE  Binding!LastOwner(e) = extension[e]
  BY <1>2 DEF Binding!LastOwner, Binding!AxesOf
<1>q. QED
  BY <1>1, <1>2

-----------------------------------------------------------------------------
(* The steps. *)

LEMMA BindingTypeOKStep ==
    ASSUME BindingInv, [Binding!Next]_(Binding!vars)
    PROVE  Binding!TypeOK' /\ PhaseInv'
<1>1. UNCHANGED <<product, flaw>>
  BY DEF Binding!Next, Binding!StartBinding, Binding!BindValidator, Binding!BindIo,
     Binding!BindDrives, Binding!BindFails, Binding!CommunicationReset, Binding!Quiesce,
     Binding!TakeOver, Binding!GiveUp, Binding!Advance, Binding!vars
<1>2. /\ Binding!Extended' = Binding!Extended /\ Binding!AxisNames' = Binding!AxisNames /\
         Binding!Managers' = Binding!Managers
      /\ Binding!Flaws(product)' = Binding!Flaws(product)
  BY <1>1, ProductStays
<1>3. product \in Products /\ flaw \in Binding!Flaws(product)
  BY DEF BindingInv, Binding!TypeOK
<1>4. Len(Binding!Managers) \in {1, 3}
  BY BoundAre, OwnersDiffer DEF BindingInv, Binding!TypeOK
<1>5. extension' \in [Binding!Extended -> {"none", "foreign", "io"} \cup Binding!AxisNames]
  <2>0. extension \in [Binding!Extended -> {"none", "foreign", "io"} \cup Binding!AxisNames]
    BY DEF BindingInv, Binding!TypeOK
  <2>1. CASE Binding!BindIo
    BY <2>0, <2>1 DEF Binding!BindIo
  <2>2. CASE Binding!BindDrives
    <3>1. \A e \in Binding!Extended : Binding!LastOwner(e) \in {"none", "foreign",
        "io"} \cup Binding!AxisNames
      <4>1. Binding!DistinctSlots
        BY <2>2 DEF Binding!BindDrives, Binding!DrivesHold, Binding!AxesHold
      <4>2. ASSUME NEW e \in Binding!Extended
            PROVE  Binding!LastOwner(e) \in {"none", "foreign", "io"} \cup Binding!AxisNames
        <5>1. CASE \E a \in Binding!AxesOf(product) : e \in Binding!AxisExtended(a)
          BY <4>1, <5>1, LastOwnerIs, AxisEntries DEF BindingInv
        <5>2. CASE ~ \E a \in Binding!AxesOf(product) : e \in Binding!AxisExtended(a)
          BY <2>0, <4>1, <5>2, LastOwnerIs DEF BindingInv
        <5>q. QED
          BY <5>1, <5>2
      <4>q. QED
        BY <4>2
    <3>q. QED
      BY <2>2, <3>1 DEF Binding!BindDrives
  <2>3. CASE Binding!Quiesce
    BY <2>0, <2>3 DEF Binding!Quiesce, Binding!Detached
  <2>4. CASE \E e \in Binding!Extended : Binding!TakeOver(e) \/ Binding!GiveUp(e)
    BY <2>0, <2>4 DEF Binding!TakeOver, Binding!GiveUp
  <2>5. CASE Binding!StartBinding \/ Binding!BindValidator \/ Binding!BindFails \/
      Binding!CommunicationReset \/ UNCHANGED Binding!vars
    BY <2>0, <2>5 DEF Binding!StartBinding, Binding!BindValidator, Binding!BindFails,
       Binding!CommunicationReset, Binding!vars
  <2>q. QED
    BY <2>1, <2>2, <2>3, <2>4, <2>5 DEF Binding!Next
<1>6. descriptorOwners' \in [Binding!LogicalDevices -> {"none", "401", "402"}]
  <2>0. descriptorOwners \in [Binding!LogicalDevices -> {"none", "401", "402"}]
    BY DEF BindingInv, Binding!TypeOK
  <2>1. CASE Binding!BindValidator
    <3>1. \A i \in DOMAIN product.descriptors :
            /\ product.descriptors[i].profile \in {"401", "402"}
            /\ Binding!SlotType(product.descriptors[i].slot).profile =
                product.descriptors[i].profile
      BY <1>3, <2>1, NodeAssumption
         DEF Binding!BindValidator, Binding!DescriptorsHold, Binding!BindingAssumption
    <3>q. QED
      BY <2>1, <3>1 DEF Binding!BindValidator
  <2>2. CASE ~Binding!BindValidator
    BY <2>0, <2>2 DEF Binding!Next, Binding!StartBinding, Binding!BindIo, Binding!BindDrives,
       Binding!BindFails, Binding!CommunicationReset, Binding!Quiesce,
       Binding!TakeOver, Binding!GiveUp, Binding!vars
  <2>q. QED
    BY <2>1, <2>2
<1>7. /\ managersBound' \in 0 .. Len(Binding!Managers) /\ bindPhase' \in {"unbound", "binding",
         "bound", "releasing"}
      /\ bindPhase' = "unbound" => managersBound' = 0
      /\ bindPhase' = "binding" => managersBound' < Len(Binding!Managers)
      /\ bindPhase' = "bound" => managersBound' = Len(Binding!Managers)
  <2> DEFINE n == Len(Binding!Managers)
  <2>0. n \in {1, 3} /\ managersBound \in 0 .. n /\ PhaseInv
        /\ bindPhase \in {"unbound", "binding", "bound", "releasing"}
    BY <1>4 DEF BindingInv, Binding!TypeOK
  <2>1. CASE Binding!BindValidator \/ Binding!BindIo \/ Binding!BindDrives
    <3>1. bindPhase = "binding" /\ managersBound' = managersBound + 1 /\ bindPhase' =
        IF managersBound + 1 = n THEN "bound" ELSE "binding"
      BY <2>1 DEF Binding!BindValidator, Binding!BindIo, Binding!BindDrives, Binding!Advance,
         Binding!Turn
    <3> HIDE DEF n
    <3>q. QED
      BY <2>0, <3>1 DEF PhaseInv, n
  <2>2. CASE Binding!Quiesce
    <3>1. CASE managersBound = 0
      <4>1. managersBound' = 0 /\ bindPhase' = "unbound"
        BY <2>2, <3>1 DEF Binding!Quiesce
      <4>q. QED
        BY <2>0, <4>1
    <3>2. CASE managersBound # 0
      <4>1. managersBound' = managersBound - 1 /\ bindPhase' = "releasing"
        BY <2>2, <3>2 DEF Binding!Quiesce
      <4>q. QED
        BY <2>0, <3>2, <4>1
    <3>q. QED
      BY <3>1, <3>2
  <2>3. CASE Binding!StartBinding \/ Binding!CommunicationReset \/ Binding!BindFails
    <3>1. managersBound' = managersBound /\ \/ bindPhase = "unbound" /\ bindPhase' = "binding"
                                            \/ bindPhase' = "releasing"
      BY <2>3 DEF Binding!StartBinding, Binding!CommunicationReset, Binding!BindFails
    <3>q. QED
      BY <2>0, <3>1 DEF PhaseInv
  <2>4. CASE (\E e \in Binding!Extended : Binding!TakeOver(e) \/ Binding!GiveUp(e)) \/
      UNCHANGED Binding!vars
    BY <2>0, <2>4 DEF Binding!TakeOver, Binding!GiveUp, Binding!vars, PhaseInv
  <2>q. QED
    BY <2>1, <2>2, <2>3, <2>4 DEF Binding!Next
<1>q. QED
  BY <1>1, <1>2, <1>3, <1>5, <1>6, <1>7 DEF Binding!TypeOK, PhaseInv

LEMMA AcceptedStep ==
    ASSUME BindingInv, Binding!TypeOK', [Binding!Next]_(Binding!vars)
    PROVE  Accepted' /\ Described'
<1>1. UNCHANGED <<product, flaw>>
  BY DEF Binding!Next, Binding!StartBinding, Binding!BindValidator, Binding!BindIo,
     Binding!BindDrives, Binding!BindFails, Binding!CommunicationReset, Binding!Quiesce,
     Binding!TakeOver, Binding!GiveUp, Binding!Advance, Binding!vars
<1>2. /\ Binding!Managers' = Binding!Managers /\ Binding!AxesOf(product)' = Binding!AxesOf(product)
      /\ \A row : Binding!IoRowHolds(row)' = Binding!IoRowHolds(row)
      /\ \A a, row : Binding!AxisRowHolds(a, row)' = Binding!AxisRowHolds(a, row)
  BY <1>1, ProductStays
<1>3. product.mixed \in BOOLEAN /\ managersBound \in 0 .. Len(Binding!Managers) /\
    managersBound' \in 0 .. Len(Binding!Managers)
  BY <1>2, OwnersDiffer DEF BindingInv, Binding!TypeOK
<1>4. \A m : Binding!IsBound(m)' <=> \E i \in 1 .. managersBound' : Binding!Managers[i] = m
  BY <1>2 DEF Binding!IsBound
<1>5. CASE Binding!BindValidator \/ Binding!BindIo \/ Binding!BindDrives
  <2>0. managersBound' = managersBound + 1 /\ bindPhase = "binding" /\
      managersBound + 1 \in 1 .. Len(Binding!Managers)
    BY <1>3, <1>5 DEF Binding!BindValidator, Binding!BindIo, Binding!BindDrives, Binding!Advance,
       Binding!Turn, BindingInv, PhaseInv
  <2>1. \A m : Binding!IsBound(m)' <=> Binding!IsBound(m) \/ Binding!Managers[managersBound + 1] = m
    <3>1. \A m : Binding!IsBound(m) <=> \E i \in 1 .. managersBound : Binding!Managers[i] = m
      BY DEF Binding!IsBound
    <3>2. 1 .. managersBound' = (1 .. managersBound) \cup {managersBound + 1}
      BY <1>3, <2>0
    <3>q. QED
      BY <1>4, <3>1, <3>2
  <2>2. CASE Binding!BindIo
    <3>1. Binding!Managers[managersBound + 1] = "io" /\ (\A row \in Binding!IoRows :
        Binding!IoRowHolds(row)) /\ UNCHANGED descriptorOwners
      BY <2>2 DEF Binding!BindIo, Binding!Turn, Binding!IoHolds
    <3>q. QED
      BY <1>1, <1>2, <2>1, <3>1 DEF BindingInv, Accepted, Described
  <2>3. CASE Binding!BindDrives
    <3>1. /\ Binding!Managers[managersBound + 1] = "drives" /\ UNCHANGED descriptorOwners
          /\ \A a \in Binding!AxesOf(product) : \A row \in Binding!AxisRows :
              Binding!AxisRowHolds(a, row)
      BY <2>3 DEF Binding!BindDrives, Binding!Turn, Binding!DrivesHold
    <3>q. QED
      BY <1>1, <1>2, <2>1, <3>1 DEF BindingInv, Accepted, Described
  <2>4. CASE Binding!BindValidator
    <3>1. Binding!Managers[managersBound + 1] = "validator" /\ Binding!DescriptorsHold
      BY <2>4 DEF Binding!BindValidator, Binding!Turn
    <3>2. \A i \in DOMAIN product.descriptors :
            descriptorOwners'[product.descriptors[i].slot] = product.descriptors[i].profile
      BY <2>4, <3>1 DEF Binding!BindValidator, Binding!DescriptorsHold
    <3>3. Accepted'
      BY <1>1, <1>2, <2>1, <3>1 DEF BindingInv, Accepted
    <3>q. QED
      BY <1>1, <3>2, <3>3 DEF Described
  <2>q. QED
    BY <1>5, <2>2, <2>3, <2>4
<1>6. CASE Binding!Quiesce
  <2>1. CASE managersBound = 0
    <3>1. UNCHANGED <<managersBound, descriptorOwners>>
      BY <1>6, <2>1 DEF Binding!Quiesce
    <3>2. \A m : Binding!IsBound(m)' <=> Binding!IsBound(m)
      BY <1>4, <3>1 DEF Binding!IsBound
    <3>q. QED
      BY <1>1, <1>2, <3>1, <3>2 DEF BindingInv, Accepted, Described
  <2>2. CASE managersBound # 0
    <3>1. /\ managersBound' = managersBound - 1
          /\ Binding!Managers[managersBound] # "validator" => UNCHANGED descriptorOwners
      BY <1>6, <2>2 DEF Binding!Quiesce
    <3>2. \A m : Binding!IsBound(m)' => Binding!IsBound(m)
      BY <1>3, <1>4, <3>1 DEF Binding!IsBound
    <3>3. Binding!Managers[managersBound] = "validator" => ~Binding!IsBound("validator")'
      <4>1. \A i \in 1 .. Len(Binding!Managers) : Binding!Managers[i] = "validator" => i = 1
        <5>1. CASE product.mixed
          <6>1. Binding!Managers = <<"validator", "io", "drives">>
            BY <1>3, <5>1, BoundAre
          <6>q. QED
            BY <6>1
        <5>2. CASE ~product.mixed
          BY <1>3, <5>2, BoundAre
        <5>q. QED
          BY <5>1, <5>2
      <4>2. managersBound \in 1 .. Len(Binding!Managers) /\ \A i \in 1 .. managersBound' :
          i \in 1 .. Len(Binding!Managers) /\ i # managersBound
        BY <1>3, <2>2, <3>1
      <4>q. QED
        BY <1>4, <4>1, <4>2
    <3>q. QED
      BY <1>1, <1>2, <3>1, <3>2, <3>3 DEF BindingInv, Accepted, Described
  <2>q. QED
    BY <2>1, <2>2
<1>7. CASE \/ Binding!StartBinding \/ Binding!CommunicationReset \/ Binding!BindFails \/
              UNCHANGED Binding!vars
           \/ \E e \in Binding!Extended : Binding!TakeOver(e) \/ Binding!GiveUp(e)
  <2>1. UNCHANGED <<managersBound, descriptorOwners>>
    BY <1>7 DEF Binding!StartBinding, Binding!CommunicationReset, Binding!BindFails,
       Binding!TakeOver, Binding!GiveUp, Binding!vars
  <2>2. \A m : Binding!IsBound(m)' <=> Binding!IsBound(m)
    BY <1>4, <2>1 DEF Binding!IsBound
  <2>q. QED
    BY <1>1, <1>2, <2>1, <2>2 DEF BindingInv, Accepted, Described
<1>q. QED
  BY <1>5, <1>6, <1>7 DEF Binding!Next

LEMMA OwnedStep ==
    ASSUME BindingInv, Binding!TypeOK', [Binding!Next]_(Binding!vars)
    PROVE  Owned'
<1>1. UNCHANGED <<product, flaw>>
  BY DEF Binding!Next, Binding!StartBinding, Binding!BindValidator, Binding!BindIo,
     Binding!BindDrives, Binding!BindFails, Binding!CommunicationReset, Binding!Quiesce,
     Binding!TakeOver, Binding!GiveUp, Binding!Advance, Binding!vars
<1>2. /\ Binding!Extended' = Binding!Extended /\ Binding!IoExtended' = Binding!IoExtended /\
         Binding!AxisNames' = Binding!AxisNames
      /\ Binding!Managers' = Binding!Managers /\ Binding!AxesOf(product)' = Binding!AxesOf(product)
      /\ \A a : Binding!AxisExtended(a)' = Binding!AxisExtended(a)
  BY <1>1, ProductStays
<1>3. /\ product.mixed \in BOOLEAN /\ managersBound \in 0 .. Len(Binding!Managers) /\
         managersBound' \in 0 .. Len(Binding!Managers)
      /\ "none" \notin Binding!AxisNames /\ "foreign" \notin Binding!AxisNames /\
          "io" \notin Binding!AxisNames
  BY <1>2, OwnersDiffer DEF BindingInv, Binding!TypeOK
<1>4. \A m : Binding!IsBound(m)' <=> \E i \in 1 .. managersBound' : Binding!Managers[i] = m
  BY <1>2 DEF Binding!IsBound
<1>5. Owned' <=>
        /\ \A e \in Binding!IoExtended :
             IF Binding!IsBound("io")' THEN extension'[e] \in {"io",
                 "foreign"} ELSE extension'[e] # "io"
        /\ \A a \in Binding!AxesOf(product) : \A e \in Binding!AxisExtended(a) :
             IF Binding!IsBound("drives")' THEN extension'[e] \in {a.name, "foreign"}
             ELSE extension'[e] \notin Binding!AxisNames
  BY <1>2 DEF Owned
<1>6. /\ \A e \in Binding!IoExtended :
             IF Binding!IsBound("io") THEN extension[e] \in {"io",
                 "foreign"} ELSE extension[e] # "io"
      /\ \A a \in Binding!AxesOf(product) : \A e \in Binding!AxisExtended(a) :
             IF Binding!IsBound("drives") THEN extension[e] \in {a.name, "foreign"}
             ELSE extension[e] \notin Binding!AxisNames
  BY DEF BindingInv, Owned
<1>7. /\ Binding!IoExtended \subseteq Binding!Extended
      /\ \A a \in Binding!AxesOf(product) :
          Binding!AxisExtended(a) \subseteq Binding!Extended /\ a.name \in Binding!AxisNames
      /\ \A a \in Binding!AxesOf(product) : \A e \in Binding!AxisExtended(a) :
          e \notin Binding!IoExtended
  BY AxisEntries
<1>8. CASE Binding!BindValidator \/ Binding!BindIo \/ Binding!BindDrives
  <2>0. managersBound' = managersBound + 1 /\ bindPhase = "binding" /\
      managersBound + 1 \in 1 .. Len(Binding!Managers)
    BY <1>3, <1>8 DEF Binding!BindValidator, Binding!BindIo, Binding!BindDrives, Binding!Advance,
       Binding!Turn, BindingInv, PhaseInv
  <2>1. \A m : Binding!IsBound(m)' <=> Binding!IsBound(m) \/ Binding!Managers[managersBound + 1] = m
    <3>1. \A m : Binding!IsBound(m) <=> \E i \in 1 .. managersBound : Binding!Managers[i] = m
      BY DEF Binding!IsBound
    <3>2. 1 .. managersBound' = (1 .. managersBound) \cup {managersBound + 1}
      BY <1>3, <2>0
    <3>q. QED
      BY <1>4, <3>1, <3>2
  <2>2. CASE Binding!BindIo
    <3>1. /\ Binding!Managers[managersBound + 1] = "io"
          /\ extension' =
              [e \in Binding!Extended |-> IF e \in Binding!IoExtended THEN "io" ELSE extension[e]]
      BY <2>2 DEF Binding!BindIo, Binding!Turn
    <3>2. Binding!IsBound("io")' /\ (Binding!IsBound("drives")' <=> Binding!IsBound("drives"))
      BY <2>1, <3>1
    <3>3. \A e \in Binding!IoExtended : extension'[e] = "io"
      BY <1>7, <3>1
    <3>4. \A a \in Binding!AxesOf(product) : \A e \in Binding!AxisExtended(a) : extension'[e] =
        extension[e]
      BY <1>7, <3>1
    <3>q. QED
      BY <1>5, <1>6, <3>2, <3>3, <3>4
  <2>3. CASE Binding!BindDrives
    <3>1. Binding!Managers[managersBound + 1] = "drives" /\ extension' =
        [e \in Binding!Extended |-> Binding!LastOwner(e)] /\ Binding!DistinctSlots
      BY <2>3 DEF Binding!BindDrives, Binding!Turn, Binding!DrivesHold, Binding!AxesHold
    <3>2. Binding!IsBound("drives")' /\ (Binding!IsBound("io")' <=> Binding!IsBound("io"))
      BY <2>1, <3>1
    <3>3. \A a \in Binding!AxesOf(product) : \A e \in Binding!AxisExtended(a) :
        Binding!LastOwner(e) = a.name
      BY <3>1, LastOwnerIs DEF BindingInv
    <3>4. \A e \in Binding!IoExtended : Binding!LastOwner(e) = extension[e]
      BY <1>7, <3>1, LastOwnerIs DEF BindingInv
    <3>5. \A e \in Binding!IoExtended : extension'[e] = extension[e]
      BY <1>7, <3>1, <3>4
    <3>6. \A a \in Binding!AxesOf(product) : \A e \in Binding!AxisExtended(a) : extension'[e] =
        a.name
      BY <1>7, <3>1, <3>3
    <3>q. QED
      BY <1>5, <1>6, <3>2, <3>5, <3>6
  <2>4. CASE Binding!BindValidator
    <3>1. Binding!Managers[managersBound + 1] = "validator" /\ UNCHANGED extension
      BY <2>4 DEF Binding!BindValidator, Binding!Turn
    <3>q. QED
      BY <1>5, <1>6, <2>1, <3>1
  <2>q. QED
    BY <1>8, <2>2, <2>3, <2>4
<1>9. CASE Binding!Quiesce
  <2>1. CASE managersBound = 0
    <3>1. UNCHANGED <<managersBound, extension>>
      BY <1>9, <2>1 DEF Binding!Quiesce
    <3>2. \A m : Binding!IsBound(m)' <=> Binding!IsBound(m)
      BY <1>4, <3>1 DEF Binding!IsBound
    <3>q. QED
      BY <1>5, <1>6, <3>1, <3>2
  <2>2. CASE managersBound # 0
    <3>1. managersBound' = managersBound - 1 /\ extension' =
        Binding!Detached(Binding!Managers[managersBound])
      BY <1>9, <2>2 DEF Binding!Quiesce
    <3>2. \A e \in Binding!Extended : extension'[e] =
        IF extension[e] \in Binding!OwnersOf(Binding!Managers[managersBound]) THEN "none"
                                              ELSE extension[e]
      BY <3>1 DEF Binding!Detached
    <3>3. managersBound \in 1 .. Len(Binding!Managers)
      BY <1>3, <2>2
    <3>4. \A i \in 1 .. managersBound : i = managersBound \/ i \in 1 .. managersBound'
      BY <1>3, <3>1, <3>3
    <3>5. \A i \in 1 .. managersBound' : i \in 1 .. managersBound /\ i # managersBound
      BY <1>3, <3>1, <3>3
    <3>6. \A i, j \in 1 .. Len(Binding!Managers) : Binding!Managers[i] = Binding!Managers[j] =>
        i = j
      <4>1. CASE product.mixed
        <5>1. Binding!Managers = <<"validator", "io", "drives">>
          BY <1>3, <4>1, BoundAre
        <5>q. QED
          BY <5>1
      <4>2. CASE ~product.mixed
        <5>1. Binding!Managers = <<"io">>
          BY <1>3, <4>2, BoundAre
        <5>q. QED
          BY <5>1
      <4>q. QED
        BY <4>1, <4>2
    <3>7. \A m : Binding!IsBound(m)' <=> Binding!IsBound(m) /\ m # Binding!Managers[managersBound]
      <4>1. \A i \in 1 .. managersBound : i \in 1 .. Len(Binding!Managers)
        BY <1>3, <3>3
      <4>q. QED
        BY <1>4, <3>3, <3>4, <3>5, <3>6, <4>1 DEF Binding!IsBound
    <3>8. Binding!Managers[managersBound] \in {"validator", "io", "drives"} /\
        Binding!IsBound(Binding!Managers[managersBound])
      <4>1. Binding!Managers[managersBound] \in {"validator", "io", "drives"}
        <5>1. CASE product.mixed
          <6>1. Binding!Managers = <<"validator", "io", "drives">>
            BY <1>3, <5>1, BoundAre
          <6>q. QED
            BY <3>3, <6>1
        <5>2. CASE ~product.mixed
          <6>1. Binding!Managers = <<"io">>
            BY <1>3, <5>2, BoundAre
          <6>q. QED
            BY <3>3, <6>1
        <5>q. QED
          BY <5>1, <5>2
      <4>q. QED
        BY <3>3, <4>1 DEF Binding!IsBound
    <3>9. CASE Binding!Managers[managersBound] = "validator"
      <4>1. Binding!OwnersOf(Binding!Managers[managersBound]) = {}
        BY <3>9 DEF Binding!OwnersOf
      <4>q. QED
        BY <1>5, <1>6, <1>7, <3>2, <3>7, <3>9, <4>1
    <3>10. CASE Binding!Managers[managersBound] = "io"
      <4>1. Binding!OwnersOf(Binding!Managers[managersBound]) = {"io"}
        BY <3>10 DEF Binding!OwnersOf
      <4>2. \A e \in Binding!IoExtended : extension'[e] # "io"
        BY <1>7, <3>2, <4>1
      <4>3. ~Binding!IsBound("io")' /\ (Binding!IsBound("drives")' <=> Binding!IsBound("drives"))
        BY <3>7, <3>10
      <4>4. \A a \in Binding!AxesOf(product) : \A e \in Binding!AxisExtended(a) :
              extension[e] = "io" \/ extension'[e] = extension[e]
        BY <1>7, <3>2, <4>1
      <4>5. \A a \in Binding!AxesOf(product) : \A e \in Binding!AxisExtended(a) :
          extension'[e] # extension[e] =>
              extension[e] = "io" /\ extension'[e] = "none"
        BY <1>7, <3>2, <4>1
      <4>6. \A a \in Binding!AxesOf(product) : a.name # "io"
        BY <1>3, <1>7
      <4>q. QED
        BY <1>3, <1>5, <1>6, <4>2, <4>3, <4>5, <4>6
    <3>11. CASE Binding!Managers[managersBound] = "drives"
      <4>1. Binding!OwnersOf(Binding!Managers[managersBound]) = Binding!AxisNames
        BY <3>11 DEF Binding!OwnersOf
      <4>2. \A a \in Binding!AxesOf(product) : \A e \in Binding!AxisExtended(a) :
          extension'[e] \notin Binding!AxisNames
        BY <1>3, <1>7, <3>2, <4>1
      <4>3. ~Binding!IsBound("drives")' /\ (Binding!IsBound("io")' <=> Binding!IsBound("io"))
        BY <3>7, <3>11
      <4>4. \A e \in Binding!IoExtended : extension'[e] # extension[e] =>
          extension[e] \in Binding!AxisNames
                                                                  /\ extension'[e] = "none"
        BY <1>7, <3>2, <4>1
      <4>q. QED
        BY <1>3, <1>5, <1>6, <4>2, <4>3, <4>4
    <3>q. QED
      BY <3>8, <3>9, <3>10, <3>11
  <2>q. QED
    BY <2>1, <2>2
<1>10. CASE \E e \in Binding!Extended : Binding!TakeOver(e) \/ Binding!GiveUp(e)
  <2>1. PICK e \in Binding!Extended : Binding!TakeOver(e) \/ Binding!GiveUp(e)
    BY <1>10
  <2>2. UNCHANGED managersBound /\ \A m : Binding!IsBound(m)' <=> Binding!IsBound(m)
    <3>1. UNCHANGED managersBound
      BY <2>1 DEF Binding!TakeOver, Binding!GiveUp
    <3>q. QED
      BY <1>4, <3>1 DEF Binding!IsBound
  <2>3. \/ extension' = [extension EXCEPT ![e] = "foreign"]
        \/ /\ extension' = [extension EXCEPT ![e] = "none"] /\ bindPhase = "unbound"
    BY <2>1 DEF Binding!TakeOver, Binding!GiveUp
  <2>4. extension \in [Binding!Extended -> {"none", "foreign", "io"} \cup Binding!AxisNames]
    BY DEF BindingInv, Binding!TypeOK
  <2>5. \A f \in Binding!Extended : \/ extension'[f] = extension[f] \/ extension'[f] = "foreign"
                                    \/ extension'[f] = "none" /\ bindPhase = "unbound"
    BY <2>3, <2>4
  <2>6. bindPhase = "unbound" => \A m : ~Binding!IsBound(m)
    BY <1>3 DEF BindingInv, PhaseInv, Binding!IsBound
  <2>q. QED
    BY <1>3, <1>5, <1>6, <1>7, <2>2, <2>5, <2>6
<1>11. CASE Binding!StartBinding \/ Binding!CommunicationReset \/ Binding!BindFails \/
    UNCHANGED Binding!vars
  <2>1. UNCHANGED <<managersBound, extension>>
    BY <1>11 DEF Binding!StartBinding, Binding!CommunicationReset, Binding!BindFails, Binding!vars
  <2>2. \A m : Binding!IsBound(m)' <=> Binding!IsBound(m)
    BY <1>4, <2>1 DEF Binding!IsBound
  <2>q. QED
    BY <1>5, <1>6, <2>1, <2>2
<1>q. QED
  BY <1>8, <1>9, <1>10, <1>11 DEF Binding!Next

LEMMA BindingInvariant == Spec => []BindingInv
<1>1. Binding!Init => BindingInv
  <2> SUFFICES ASSUME Binding!Init PROVE BindingInv
    OBVIOUS
  <2>0. product.mixed \in BOOLEAN /\ "none" \notin Binding!AxisNames
    BY NodeAssumption DEF Binding!Init, Binding!BindingAssumption, Binding!AxisNames, Binding!AxesOf
  <2>1. Len(Binding!Managers) \in {1, 3} /\ managersBound = 0 /\ \A m : ~Binding!IsBound(m)
    <3>1. managersBound = 0
      BY DEF Binding!Init
    <3>2. \A m : ~Binding!IsBound(m)
      BY <3>1 DEF Binding!IsBound
    <3>3. CASE product.mixed
      BY <3>1, <3>2, <3>3 DEF Binding!Managers
    <3>4. CASE ~product.mixed
      BY <3>1, <3>2, <3>4 DEF Binding!Managers
    <3>q. QED
      BY <3>3, <3>4
  <2>2. Binding!TypeOK /\ PhaseInv
    BY <2>1 DEF Binding!Init, Binding!TypeOK, PhaseInv
  <2>3. \A e \in Binding!Extended : extension[e] = "none"
    BY DEF Binding!Init
  <2>4. Owned
    BY <2>0, <2>1, <2>3, AxisEntries DEF Owned
  <2>q. QED
    BY <2>1, <2>2, <2>4 DEF BindingInv, Accepted, Described
<1>2. BindingInv /\ [Binding!Next]_(Binding!vars) => BindingInv'
  BY BindingTypeOKStep, AcceptedStep, OwnedStep DEF BindingInv
<1>q. QED
  BY <1>1, <1>2, Starts, Steps, PTL DEF Spec

-----------------------------------------------------------------------------
(* The tables: what a pass reads and writes is what the contract asks for. *)
Asked(row, cap, access) ==
    /\ row.index = access[1] /\ row.cap = cap /\ ~row.optional
    /\ row.shape # "absent" /\ row.width = access[2] /\ row.width \in Nat /\ row.count >= access[3]
    /\ access[4] => row.shape = "array"

LEMMA RowAsks ==
    ASSUME NEW index, NEW cap, NEW shape, NEW most \in Nat, NEW width \in Nat, NEW required,
        NEW allowed,
           NEW least \in Nat, NEW array \in BOOLEAN, index \notin {"6430", "6450"},
           shape # "absent", most >= least, array => shape = "array"
    PROVE  Asked(Binding!Row(index, cap, shape, most, width, required, allowed), cap,
                 <<index, width, least, array>>)
<1> DEFINE row == Binding!Row(index, cap, shape, most, width, required, allowed)
           access == <<index, width, least, array>>
<1>1. /\ row.index = index /\ row.cap = cap /\ row.shape = shape /\ row.count = most
      /\ row.width = width /\ row.optional = (index \in {"6430", "6450"})
  BY DEF Binding!Row
<1>2. access[1] = index /\ access[2] = width /\ access[3] = least /\ access[4] = array
  OBVIOUS
<1>3. ~row.optional
  BY <1>1, Zenon
<1>4. access[4] => row.shape = "array"
  BY <1>1, <1>2, Zenon
<1>5. /\ row.index = access[1] /\ row.cap = cap /\ row.shape # "absent" /\ row.width = access[2]
      /\ row.width \in Nat /\ row.count >= access[3]
  BY <1>1, <1>2
<1>q. QED
  BY <1>3, <1>4, <1>5 DEF Asked

LEMMA RowsAsk ==
    ASSUME NEW index, NEW cap, NEW width \in Nat, NEW attrs, index \notin {"6430", "6450"}
    PROVE  /\ Asked(Binding!Array(index, cap, width, attrs), cap, <<index, width,
              Binding!Channels, TRUE>>)
           /\ Asked(Binding!Mapped(index, cap, width), cap, <<index, width, Binding!Channels,
               TRUE>>)
           /\ Asked(Binding!Var(index, cap, width, attrs), cap, <<index, width, 0, FALSE>>)
<1>1. 0 \in Nat /\ Binding!Channels \in Nat /\ Binding!Channels >= Binding!Channels /\ 0 >= 0
  BY DEF Binding!Channels
<1>2. TRUE \in BOOLEAN /\ FALSE \in BOOLEAN /\ "array" # "absent" /\ "var" # "absent"
  OBVIOUS
<1>3. Asked(Binding!Array(index, cap, width, attrs), cap, <<index, width, Binding!Channels, TRUE>>)
  BY <1>1, <1>2, RowAsks DEF Binding!Array
<1>4. Asked(Binding!Mapped(index, cap, width), cap, <<index, width, Binding!Channels, TRUE>>)
  BY <1>1, <1>2, RowAsks DEF Binding!Mapped
<1>5. Asked(Binding!Var(index, cap, width, attrs), cap, <<index, width, 0, FALSE>>)
  BY <1>1, <1>2, RowAsks DEF Binding!Var
<1>q. QED
  BY <1>3, <1>4, <1>5

LEMMA IoAccessesAsked ==
    ASSUME NEW cap \in {"DI", "DO", "AI", "AO"}, NEW access \in Binding!IoAccesses(cap)
    PROVE  \E row \in Binding!IoRows : Asked(row, cap, access)
<1>1. CASE cap = "DI"
  <2>1. CASE access = <<"6000", 1, Binding!Channels, TRUE>>
    <3>1. Binding!Array("6000", "DI", 1, Binding!R \cup {"tpdo"}) \in Binding!IoRows
      BY DEF Binding!IoRows
    <3>q. QED
      BY <1>1, <2>1, <3>1, RowsAsk
  <2>2. CASE access = <<"6005", 1, 0, FALSE>>
    <3>1. Binding!Var("6005", "DI", 1, Binding!RW) \in Binding!IoRows
      BY DEF Binding!IoRows
    <3>q. QED
      BY <1>1, <2>2, <3>1, RowsAsk
  <2>3. CASE \E i \in {"6002", "6003", "6006", "6007", "6008"} : access = <<i, 1,
      Binding!Channels, TRUE>>
    <3>1. \A i \in {"6002", "6003", "6006", "6007", "6008"} : Binding!Mapped(i, "DI",
        1) \in Binding!IoRows
      BY DEF Binding!IoRows
    <3>q. QED
      BY <1>1, <2>3, <3>1, RowsAsk
  <2>q. QED
    BY <1>1, <2>1, <2>2, <2>3 DEF Binding!IoAccesses
<1>2. CASE cap = "DO"
  <2>1. CASE access = <<"6200", 1, Binding!Channels, TRUE>>
    <3>1. Binding!Array("6200", "DO", 1, Binding!RW \cup {"rpdo"}) \in Binding!IoRows
      BY DEF Binding!IoRows
    <3>q. QED
      BY <1>2, <2>1, <3>1, RowsAsk
  <2>2. CASE \E i \in {"6202", "6206", "6207", "6208"} : access = <<i, 1, Binding!Channels, TRUE>>
    <3>1. \A i \in {"6202", "6206", "6207", "6208"} : Binding!Mapped(i, "DO", 1) \in Binding!IoRows
      BY DEF Binding!IoRows
    <3>q. QED
      BY <1>2, <2>2, <3>1, RowsAsk
  <2>q. QED
    BY <1>2, <2>1, <2>2 DEF Binding!IoAccesses
<1>3. CASE cap = "AI"
  <2>1. CASE access = <<"6401", 2, Binding!Channels, TRUE>>
    <3>1. Binding!Array("6401", "AI", 2, Binding!R \cup {"tpdo"} \cup Binding!MB) \in Binding!IoRows
      BY DEF Binding!IoRows
    <3>q. QED
      BY <1>3, <2>1, <3>1, RowsAsk
  <2>2. CASE access = <<"6421", 1, Binding!Channels, TRUE>>
    <3>1. Binding!Mapped("6421", "AI", 1) \in Binding!IoRows
      BY DEF Binding!IoRows
    <3>q. QED
      BY <1>3, <2>2, <3>1, RowsAsk
  <2>3. CASE access = <<"6422", 4, 1, TRUE>>
    <3>1. Binding!Row("6422", "AI", "array", 1, 4, Binding!R,
        Binding!R \cup {"tpdo"} \cup Binding!MB) \in Binding!IoRows
      BY DEF Binding!IoRows
    <3>2. Asked(Binding!Row("6422", "AI", "array", 1, 4, Binding!R,
        Binding!R \cup {"tpdo"} \cup Binding!MB), "AI", <<"6422", 4, 1, TRUE>>)
      <4>1. 4 \in Nat /\ 1 \in Nat /\ 1 >= 1 /\ TRUE \in BOOLEAN /\ "6422" \notin {"6430", "6450"}
            /\ "array" # "absent" /\ (TRUE => "array" = "array")
        OBVIOUS
      <4>q. QED
        BY <4>1, RowAsks, Zenon
    <3>q. QED
      BY <1>3, <2>3, <3>1, <3>2
  <2>4. CASE access = <<"6423", 1, 0, FALSE>>
    <3>1. Binding!Row("6423", "AI", "var", 0, 1, Binding!RW,
        Binding!RW \cup Binding!PDO) \in Binding!IoRows
      BY DEF Binding!IoRows
    <3>2. Asked(Binding!Row("6423", "AI", "var", 0, 1, Binding!RW, Binding!RW \cup Binding!PDO),
        "AI", <<"6423", 1, 0, FALSE>>)
      <4>1. 1 \in Nat /\ 0 \in Nat /\ 0 >= 0 /\ FALSE \in BOOLEAN /\ "6423" \notin {"6430", "6450"}
            /\ "var" # "absent" /\ (FALSE => "var" = "array")
        OBVIOUS
      <4>q. QED
        BY <4>1, RowAsks, Zenon
    <3>q. QED
      BY <1>3, <2>4, <3>1, <3>2
  <2>5. CASE \E i \in {"6424", "6425", "6426", "6427", "6428", "6431", "6432"} :
               access = <<i, 4, Binding!Channels, TRUE>>
    <3>1. \A i \in {"6424", "6425", "6426", "6427", "6428", "6431", "6432"} : Binding!Mapped(i,
        "AI", 4) \in Binding!IoRows
      BY DEF Binding!IoRows
    <3>q. QED
      BY <1>3, <2>5, <3>1, RowsAsk
  <2>q. QED
    BY <1>3, <2>1, <2>2, <2>3, <2>4, <2>5 DEF Binding!IoAccesses
<1>4. CASE cap = "AO"
  <2>1. CASE access = <<"6411", 2, Binding!Channels, TRUE>>
    <3>1. Binding!Array("6411", "AO", 2,
        Binding!RW \cup {"rpdo"} \cup Binding!MB) \in Binding!IoRows
      BY DEF Binding!IoRows
    <3>q. QED
      BY <1>4, <2>1, <3>1, RowsAsk
  <2>2. CASE access = <<"6443", 1, Binding!Channels, TRUE>>
    <3>1. Binding!Mapped("6443", "AO", 1) \in Binding!IoRows
      BY DEF Binding!IoRows
    <3>q. QED
      BY <1>4, <2>2, <3>1, RowsAsk
  <2>3. CASE \E i \in {"6444", "6446", "6447"} : access = <<i, 4, Binding!Channels, TRUE>>
    <3>1. \A i \in {"6444", "6446", "6447"} : Binding!Mapped(i, "AO", 4) \in Binding!IoRows
      BY DEF Binding!IoRows
    <3>q. QED
      BY <1>4, <2>3, <3>1, RowsAsk
  <2>q. QED
    BY <1>4, <2>1, <2>2, <2>3 DEF Binding!IoAccesses
<1>q. QED
  BY <1>1, <1>2, <1>3, <1>4

LEMMA AxisAccessesAsked ==
    ASSUME NEW cap \in {"base", "PP", "PV", "HM", "CSP", "CSV", "CST"},
        NEW access \in Binding!AxisAccesses(cap)
    PROVE  \E row \in Binding!AxisRows : Asked(row, cap, access) \/ Asked(row, "base", access)
<1>1. CASE cap = "base"
  <2>1. CASE access = <<"603F", 2, 0, FALSE>>
    <3>1. Binding!Var("603F", "base", 2, Binding!R \cup Binding!MB) \in Binding!AxisRows
      BY DEF Binding!AxisRows
    <3>q. QED
      BY <1>1, <2>1, <3>1, RowsAsk
  <2>2. CASE access = <<"6040", 2, 0, FALSE>>
    <3>1. Binding!Var("6040", "base", 2,
        Binding!RW \cup {"rpdo"} \cup Binding!MB) \in Binding!AxisRows
      BY DEF Binding!AxisRows
    <3>q. QED
      BY <1>1, <2>2, <3>1, RowsAsk
  <2>3. CASE access = <<"6041", 2, 0, FALSE>>
    <3>1. Binding!Var("6041", "base", 2,
        Binding!R \cup {"tpdo"} \cup Binding!MB) \in Binding!AxisRows
      BY DEF Binding!AxisRows
    <3>q. QED
      BY <1>1, <2>3, <3>1, RowsAsk
  <2>4. CASE access = <<"6060", 1, 0, FALSE>>
    <3>1. Binding!Var("6060", "base", 1, Binding!RW \cup {"rpdo"}) \in Binding!AxisRows
      BY DEF Binding!AxisRows
    <3>q. QED
      BY <1>1, <2>4, <3>1, RowsAsk
  <2>5. CASE access = <<"6061", 1, 0, FALSE>>
    <3>1. Binding!Var("6061", "base", 1, Binding!R \cup {"tpdo"}) \in Binding!AxisRows
      BY DEF Binding!AxisRows
    <3>q. QED
      BY <1>1, <2>5, <3>1, RowsAsk
  <2>6. CASE access = <<"6064", 4, 0, FALSE>>
    <3>1. Binding!Var("6064", "base", 4,
        Binding!R \cup {"tpdo"} \cup Binding!MB) \in Binding!AxisRows
      BY DEF Binding!AxisRows
    <3>q. QED
      BY <1>1, <2>6, <3>1, RowsAsk
  <2>7. CASE access = <<"606C", 4, 0, FALSE>>
    <3>1. Binding!Var("606C", "base", 4,
        Binding!R \cup {"tpdo"} \cup Binding!MB) \in Binding!AxisRows
      BY DEF Binding!AxisRows
    <3>q. QED
      BY <1>1, <2>7, <3>1, RowsAsk
  <2>8. CASE access = <<"6502", 4, 0, FALSE>>
    <3>1. Binding!Var("6502", "base", 4, Binding!R \cup Binding!MB) \in Binding!AxisRows
      BY DEF Binding!AxisRows
    <3>q. QED
      BY <1>1, <2>8, <3>1, RowsAsk
  <2>q. QED
    BY <1>1, <2>1, <2>2, <2>3, <2>4, <2>5, <2>6, <2>7, <2>8 DEF Binding!AxisAccesses
<1>2. CASE cap = "PP"
  <2>1. CASE access = <<"607A", 4, 0, FALSE>>
    <3>1. Binding!Var("607A", "base", 4,
        Binding!RW \cup {"rpdo"} \cup Binding!MB) \in Binding!AxisRows
      BY DEF Binding!AxisRows
    <3>q. QED
      BY <1>2, <2>1, <3>1, RowsAsk
  <2>2. CASE access = <<"6081", 4, 0, FALSE>>
    <3>1. Binding!Var("6081", "PP", 4, Binding!RW \cup Binding!MB) \in Binding!AxisRows
      BY DEF Binding!AxisRows
    <3>q. QED
      BY <1>2, <2>2, <3>1, RowsAsk
  <2>3. CASE access = <<"6086", 2, 0, FALSE>>
    <3>1. Binding!Var("6086", "PP", 2, Binding!RW \cup Binding!MB) \in Binding!AxisRows
      BY DEF Binding!AxisRows
    <3>q. QED
      BY <1>2, <2>3, <3>1, RowsAsk
  <2>4. CASE \E i \in {"6083", "6084", "6085"} : access = <<i, 4, 0, FALSE>>
    <3>1. \A i \in {"6083", "6084", "6085"} : Binding!Var(i, "PP", 4,
        Binding!RW \cup Binding!MB) \in Binding!AxisRows
      BY DEF Binding!AxisRows
    <3>q. QED
      BY <1>2, <2>4, <3>1, RowsAsk
  <2>q. QED
    BY <1>2, <2>1, <2>2, <2>3, <2>4 DEF Binding!AxisAccesses
<1>3. CASE cap = "PV"
  <2>1. CASE access = <<"60FF", 4, 0, FALSE>>
    <3>1. Binding!Var("60FF", "base", 4,
        Binding!RW \cup {"rpdo"} \cup Binding!MB) \in Binding!AxisRows
      BY DEF Binding!AxisRows
    <3>q. QED
      BY <1>3, <2>1, <3>1, RowsAsk
  <2>2. CASE \E i \in {"6083", "6084", "6085"} : access = <<i, 4, 0, FALSE>>
    <3>1. \A i \in {"6083", "6084", "6085"} : Binding!Var(i, "PV", 4,
        Binding!RW \cup Binding!MB) \in Binding!AxisRows
      BY DEF Binding!AxisRows
    <3>q. QED
      BY <1>3, <2>2, <3>1, RowsAsk
  <2>q. QED
    BY <1>3, <2>1, <2>2 DEF Binding!AxisAccesses
<1>4. CASE cap = "HM"
  <2>1. CASE access = <<"607C", 4, 0, FALSE>>
    <3>1. Binding!Var("607C", "HM", 4, Binding!RW \cup Binding!MB) \in Binding!AxisRows
      BY DEF Binding!AxisRows
    <3>q. QED
      BY <1>4, <2>1, <3>1, RowsAsk
  <2>2. CASE access = <<"6098", 1, 0, FALSE>>
    <3>1. Binding!Var("6098", "HM", 1, Binding!RW) \in Binding!AxisRows
      BY DEF Binding!AxisRows
    <3>q. QED
      BY <1>4, <2>2, <3>1, RowsAsk
  <2>3. CASE access = <<"609A", 4, 0, FALSE>>
    <3>1. Binding!Var("609A", "HM", 4, Binding!RW \cup Binding!MB) \in Binding!AxisRows
      BY DEF Binding!AxisRows
    <3>q. QED
      BY <1>4, <2>3, <3>1, RowsAsk
  <2>4. CASE access = <<"6099", 4, 2, FALSE>>
    <3>1. Binding!Row("6099", "HM", "record", 2, 4, Binding!RW \cup Binding!MB,
        Binding!RW \cup Binding!MB) \in Binding!AxisRows
      BY DEF Binding!AxisRows
    <3>2. Asked(Binding!Row("6099", "HM", "record", 2, 4, Binding!RW \cup Binding!MB,
        Binding!RW \cup Binding!MB), "HM", <<"6099", 4, 2, FALSE>>)
      <4>1. 4 \in Nat /\ 2 \in Nat /\ 2 >= 2 /\ FALSE \in BOOLEAN /\ "6099" \notin {"6430", "6450"}
            /\ "record" # "absent" /\ (FALSE => "record" = "array")
        OBVIOUS
      <4>q. QED
        BY <4>1, RowAsks, Zenon
    <3>q. QED
      BY <1>4, <2>4, <3>1, <3>2
  <2>q. QED
    BY <1>4, <2>1, <2>2, <2>3, <2>4 DEF Binding!AxisAccesses
<1>5. CASE cap = "CSP"
  <2>1. CASE access = <<"607A", 4, 0, FALSE>>
    <3>1. Binding!Var("607A", "base", 4,
        Binding!RW \cup {"rpdo"} \cup Binding!MB) \in Binding!AxisRows
      BY DEF Binding!AxisRows
    <3>q. QED
      BY <1>5, <2>1, <3>1, RowsAsk
  <2>q. QED
    BY <1>5, <2>1 DEF Binding!AxisAccesses
<1>6. CASE cap = "CSV"
  <2>1. CASE access = <<"60FF", 4, 0, FALSE>>
    <3>1. Binding!Var("60FF", "base", 4,
        Binding!RW \cup {"rpdo"} \cup Binding!MB) \in Binding!AxisRows
      BY DEF Binding!AxisRows
    <3>q. QED
      BY <1>6, <2>1, <3>1, RowsAsk
  <2>q. QED
    BY <1>6, <2>1 DEF Binding!AxisAccesses
<1>7. CASE cap = "CST"
  <2>1. CASE access = <<"6071", 2, 0, FALSE>>
    <3>1. Binding!Var("6071", "CST", 2,
        Binding!RW \cup {"rpdo"} \cup Binding!MB) \in Binding!AxisRows
      BY DEF Binding!AxisRows
    <3>q. QED
      BY <1>7, <2>1, <3>1, RowsAsk
  <2>2. CASE access = <<"6077", 2, 0, FALSE>>
    <3>1. Binding!Var("6077", "CST", 2,
        Binding!R \cup {"tpdo"} \cup Binding!MB) \in Binding!AxisRows
      BY DEF Binding!AxisRows
    <3>q. QED
      BY <1>7, <2>2, <3>1, RowsAsk
  <2>q. QED
    BY <1>7, <2>1, <2>2 DEF Binding!AxisAccesses
<1>q. QED
  BY <1>1, <1>2, <1>3, <1>4, <1>5, <1>6, <1>7

(* An object that holds its contract serves such an access. *)
LEMMA AskedIsServed ==
    ASSUME NEW row, NEW cap, NEW access, NEW entry, Asked(row, cap, access), Binding!Matches(row,
        entry)
    PROVE  row.index = access[1] /\ Binding!Served(access, entry)
<1>1. entry # Binding!Absent
  BY DEF Asked, Binding!Matches, Binding!MatchesButStride, Binding!Absent
<1>2. access[4] => entry.stride = row.width
  BY Zenon DEF Asked, Binding!Matches
<1>3. row.index = access[1] /\ entry.width = access[2] /\ entry.count >= access[3]
  BY DEF Asked, Binding!Matches, Binding!MatchesButStride
<1>4. access[2] \in Nat /\ access[2] >= access[2] /\ access[2] = row.width
  BY DEF Asked
<1>5. access[4] => entry.stride >= access[2]
  BY <1>2, <1>4, Zenon
<1>q. QED
  BY <1>1, <1>3, <1>5, Zenon DEF Binding!Served

(* What the program checks when it binds is enough for every access of a   *)
(* pass (CO_401_device_od.c:422, CO_402_device_od.c).                      *)
LEMMA AcceptedIsServed ==
    ASSUME BindingInv
    PROVE  Binding!BoundAccessesAreServed
<1>1. ASSUME Binding!IsBound("io"), NEW cap \in product.caps, NEW access \in Binding!IoAccesses(cap)
      PROVE  \E row \in Binding!IoRows : row.index = access[1]
                             /\ Binding!Served(access, Binding!Entry(product.slot, row,
                                 product.caps))
  <2>1. cap \in {"DI", "DO", "AI", "AO"}
    BY NodeAssumption DEF BindingInv, Binding!TypeOK, Binding!BindingAssumption
  <2>2. PICK row \in Binding!IoRows : Asked(row, cap, access)
    BY <2>1, IoAccessesAsked
  <2>3. Binding!Matches(row, Binding!Entry(product.slot, row, product.caps))
    BY <1>1, <2>2 DEF BindingInv, Accepted, Binding!IoRowHolds, Asked
  <2>q. QED
    BY <2>2, <2>3, AskedIsServed
<1>2. ASSUME Binding!IsBound("drives"), NEW a \in Binding!AxesOf(product),
    NEW cap \in Binding!AxisCaps(a),
             NEW access \in Binding!AxisAccesses(cap)
      PROVE  \E row \in Binding!AxisRows : row.index = access[1] /\ Binding!Served(access,
          Binding!Entry(a.slot, row, Binding!AxisCaps(a)))
  <2>1. cap \in {"base", "PP", "PV", "HM", "CSP", "CSV", "CST"}
    <3>1. a.interface.profile \subseteq {"PP", "PV", "HM"}
      BY NodeAssumption DEF BindingInv, Binding!TypeOK, Binding!BindingAssumption, Binding!AxesOf
    <3>q. QED
      BY <3>1 DEF Binding!AxisCaps, Binding!SupportedModes
  <2>2. "base" \in Binding!AxisCaps(a)
    BY DEF Binding!AxisCaps
  <2>3. PICK row \in Binding!AxisRows : Asked(row, cap, access) \/ Asked(row, "base", access)
    BY <2>1, AxisAccessesAsked
  <2>4. row.cap \in Binding!AxisCaps(a)
    BY <2>2, <2>3 DEF Asked
  <2>5. Binding!Matches(row, Binding!Entry(a.slot, row, Binding!AxisCaps(a)))
    BY <1>2, <2>4 DEF BindingInv, Accepted, Binding!AxisRowHolds
  <2>q. QED
    BY <2>3, <2>5, AskedIsServed
<1>q. QED
  BY <1>1, <1>2 DEF Binding!BoundAccessesAreServed

(* A bound adapter finds every object it uses, and binding is all or       *)
(* nothing, whatever the dictionary and the products are                   *)
(* (CO_401_device_od.c, CO_402_device_od.c).                               *)
THEOREM BoundIsServed == Spec => []Binding!BindingIsSafe
<1>1. ASSUME BindingInv PROVE Binding!BindingIsWhole
  <2>1. product.mixed \in BOOLEAN /\ managersBound \in 0 .. Len(Binding!Managers)
    BY <1>1, OwnersDiffer DEF BindingInv, Binding!TypeOK
  <2>2. product.mixed /\ (Binding!IsBound("io") \/ Binding!IsBound("drives")) =>
      Binding!IsBound("validator")
    BY <2>1, BoundAre
  <2>q. QED
    BY <1>1, <2>2 DEF BindingInv, Owned, Described, Binding!BindingIsWhole
<1>2. BindingInv => Binding!BindingIsSafe
  BY <1>1, AcceptedIsServed DEF BindingInv, Binding!BindingIsSafe
<1>q. QED
  BY <1>2, BindingInvariant, PTL

(* No bind, failed bind or unbind displaces another subsystem's extension. *)
THEOREM ForeignStays == Spec => Binding!ForeignExtensionsAreKept
<1>1. BindingInv /\ [Binding!Next]_(Binding!vars) =>
        [\A e \in Binding!Extended : extension[e] = "foreign" /\ extension'[e] # "foreign" =>
            bindPhase = "unbound"]_(Binding!vars)
  <2> SUFFICES ASSUME BindingInv, Binding!Next, NEW e \in Binding!Extended, extension[e] =
      "foreign", bindPhase # "unbound"
               PROVE  extension'[e] = "foreign"
    BY Zenon
  <2>1. "none" \notin Binding!AxisNames /\ "foreign" \notin Binding!AxisNames /\
      "io" \notin Binding!AxisNames
        /\ product.mixed \in BOOLEAN
    BY OwnersDiffer DEF BindingInv
  <2>2. CASE Binding!BindIo
    <3>1. \A f \in Binding!IoExtended : extension[f] \in {"none", "io"}
      BY <2>2 DEF Binding!BindIo, Binding!IoHolds, Binding!SlotFree
    <3>2. e \notin Binding!IoExtended
      BY <3>1
    <3>q. QED
      BY <2>2, <3>2 DEF Binding!BindIo
  <2>3. CASE Binding!BindDrives
    <3>1. \A a \in Binding!AxesOf(product) : \A f \in Binding!AxisExtended(a) :
        extension[f] \in {"none", a.name}
      BY <2>3 DEF Binding!BindDrives, Binding!DrivesHold, Binding!SlotFree
    <3>2. \A a \in Binding!AxesOf(product) : e \notin Binding!AxisExtended(a)
      BY <2>1, <3>1, AxisEntries
    <3>3. Binding!LastOwner(e) = "foreign"
      BY <2>3, <3>2, LastOwnerIs
         DEF Binding!BindDrives, Binding!DrivesHold, Binding!AxesHold, BindingInv
    <3>q. QED
      BY <2>3, <3>3 DEF Binding!BindDrives
  <2>4. CASE Binding!Quiesce
    <3>1. CASE managersBound = 0
      BY <2>4, <3>1 DEF Binding!Quiesce
    <3>2. CASE managersBound # 0
      <4>1. extension' = Binding!Detached(Binding!Managers[managersBound])
        BY <2>4, <3>2 DEF Binding!Quiesce
      <4>2. Binding!Managers[managersBound] \in {"validator", "io", "drives"}
        <5>1. managersBound \in 1 .. Len(Binding!Managers)
          BY <3>2 DEF BindingInv, Binding!TypeOK
        <5>2. CASE product.mixed
          <6>1. Binding!Managers = <<"validator", "io", "drives">>
            BY <5>2 DEF Binding!Managers
          <6>q. QED
            BY <5>1, <6>1
        <5>3. CASE ~product.mixed
          <6>1. Binding!Managers = <<"io">>
            BY <5>3 DEF Binding!Managers
          <6>q. QED
            BY <5>1, <6>1
        <5>q. QED
          BY <2>1, <5>2, <5>3
      <4>3. "foreign" \notin Binding!OwnersOf(Binding!Managers[managersBound])
        BY <2>1, <4>2 DEF Binding!OwnersOf
      <4>q. QED
        BY <4>1, <4>3 DEF Binding!Detached
    <3>q. QED
      BY <3>1, <3>2
  <2>5. CASE \E f \in Binding!Extended : Binding!TakeOver(f) \/ Binding!GiveUp(f)
    <3>1. PICK f \in Binding!Extended : Binding!TakeOver(f)
      BY <2>5 DEF Binding!GiveUp
    <3>2. extension \in [Binding!Extended -> {"none", "foreign", "io"} \cup Binding!AxisNames]
      BY DEF BindingInv, Binding!TypeOK
    <3>q. QED
      BY <3>1, <3>2 DEF Binding!TakeOver
  <2>6. CASE Binding!StartBinding \/ Binding!BindValidator \/ Binding!CommunicationReset \/
      Binding!BindFails
    BY <2>6 DEF Binding!StartBinding, Binding!BindValidator, Binding!CommunicationReset,
       Binding!BindFails
  <2>q. QED
    BY <2>2, <2>3, <2>4, <2>5, <2>6 DEF Binding!Next
<1>q. QED
  BY <1>1, BindingInvariant, Starts, Steps, PTL DEF Spec, Binding!ForeignExtensionsAreKept

-----------------------------------------------------------------------------
(***************************************************************************)
(* The main loop: the time that has passed since the clock was read is     *)
(* bounded by one sleep and three busy steps, which is less than half of   *)
(* either counter's range, so the difference of two readings is what has   *)
(* passed.  co_main sleeps until the earliest deadline and no longer.      *)
(***************************************************************************)

(* What has passed since the clock was read, by where co_main is: one      *)
(* sleep, and at most three busy steps.                                    *)
GapInv ==
    /\ lag \in 0 .. TickLength - 1
    /\ IF highRes THEN lag = 0 ELSE tickPhase <= gap + lag
    /\ mainAt = "finish" => gap <= busy
    /\ mainAt = "wait" => gap <= MaxBusy + busy
    /\ mainAt = "asleep" => /\ gap + lag + left * TickLength <= MaxWait + tickPhase
                            /\ left = 0 => tickPhase = 0
    /\ mainAt = "process" => gap <= 2 * MaxBusy + busy \/ gap + lag <= MaxWait + busy

(* The counter as the last reading, the unseen part of a tick and the gap. *)
CountInv ==
    /\ highRes \/ tickPhase = count % TickLength
    /\ base + lag < Loop!Period
    /\ count = IF base + lag + gap < Loop!Period THEN base + lag + gap ELSE base + lag + gap - Loop!Period

(* A new stack is processed at once; a wake-up that no pass has served is  *)
(* still in the event, or its pass is coming.                              *)
WakeInv ==
    /\ next = due
    /\ renewed => next = 0
    /\ wakeOwed => event \/ mainAt = "process" \/ (mainAt = "wait" /\ renewed)

LoopInv == Loop!TypeOK /\ GapInv /\ CountInv /\ WakeInv /\ Loop!NeverOversleeps /\ Loop!NoLostWakeup

(* Ticks of the tick counter.                                              *)
LEMMA WholeTicks ==
    ASSUME NEW d \in Nat
    PROVE  /\ d \div TickLength \in Nat
           /\ (d \div TickLength) * TickLength \in 0 .. d
           /\ (d \div TickLength) * TickLength + TickLength > d
  BY NodeAssumption, SMTT(60) DEF Loop!MainlineAssumption

LEMMA PartOfTick ==
    ASSUME NEW q \in Nat, NEW r \in 0 .. TickLength - 1
    PROVE  (TickLength * q + r) % TickLength = r
  BY NodeAssumption, SMTT(60) DEF Loop!MainlineAssumption

LEMMA TickFacts ==
    ASSUME NEW c \in Nat
    PROVE  /\ c % TickLength \in 0 .. TickLength - 1
           /\ c % TickLength <= c
           /\ (c + 1) % TickLength = IF c % TickLength = TickLength - 1 THEN 0
                                     ELSE (c % TickLength) + 1
<1> DEFINE q == c \div TickLength
           r == c - q * TickLength
<1>0. TickLength \in Nat \ {0}
  BY NodeAssumption DEF Loop!MainlineAssumption
<1>1. q \in Nat /\ q * TickLength \in 0 .. c /\ r \in 0 .. TickLength - 1
  BY <1>0, WholeTicks
<1>2. c = TickLength * q + r
  BY <1>0, <1>1
<1>3. c % TickLength = r
  <2>1. (TickLength * q + r) % TickLength = r
    BY <1>1, PartOfTick
  <2>q. QED
    BY <1>2, <2>1
<1>4. CASE r + 1 < TickLength
  <2>1. (TickLength * q + (r + 1)) % TickLength = r + 1
    <3>1. r + 1 \in 0 .. TickLength - 1
      BY <1>0, <1>1, <1>4
    <3>q. QED
      BY <1>1, <3>1, PartOfTick
  <2>2. c + 1 = TickLength * q + (r + 1)
    BY <1>0, <1>1, <1>2
  <2>q. QED
    BY <1>0, <1>1, <1>3, <1>4, <2>1, <2>2
<1>5. CASE r + 1 = TickLength
  <2>1. (TickLength * (q + 1) + 0) % TickLength = 0
    <3>1. q + 1 \in Nat /\ 0 \in 0 .. TickLength - 1
      BY <1>0, <1>1
    <3>q. QED
      BY <3>1, PartOfTick
  <2>2. c + 1 = TickLength * (q + 1) + 0
    BY <1>0, <1>1, <1>2, <1>5
  <2>q. QED
    BY <1>0, <1>1, <1>3, <1>5, <2>1, <2>2
<1>q. QED
  BY <1>0, <1>1, <1>4, <1>5

(* The distance of two readings of the counter. *)
LEMMA LoopDistance ==
    ASSUME NEW a \in 0 .. MaxCount, NEW b \in 0 .. MaxCount
    PROVE  (a - b) % (MaxCount + 1) = IF a >= b THEN a - b ELSE a - b + MaxCount + 1
  BY NodeAssumption, SMTT(60) DEF Loop!MainlineAssumption

LEMMA GapIsShort ==
    ASSUME Loop!TypeOK, GapInv
    PROVE  gap + lag + MaxBusy - busy < MaxCount
<1>1. left * TickLength \in Nat /\ (left = 0 \/ left * TickLength >= tickPhase)
  BY NodeAssumption DEF Loop!TypeOK, Loop!MainlineAssumption
<1>2. CASE mainAt = "asleep"
  BY <1>1, <1>2, NodeAssumption DEF Loop!TypeOK, GapInv, Loop!MainlineAssumption
<1>3. CASE mainAt # "asleep"
  BY <1>3, NodeAssumption DEF Loop!TypeOK, GapInv, Loop!MainlineAssumption
<1>q. QED
  BY <1>2, <1>3

(* What CO_RTT_timeElapsedUs() answers at any time. *)
LEMMA ElapsedIs ==
    ASSUME Loop!TypeOK, GapInv, CountInv
    PROVE  /\ Loop!NowUs \in 0 .. Loop!Period - 1
           /\ Loop!ElapsedUs(Loop!NowUs, base) = IF highRes THEN gap ELSE gap + lag - tickPhase
           /\ Loop!ElapsedUs(Loop!NowUs, base) \in Nat
<1>1. gap + lag < MaxCount
  BY GapIsShort, NodeAssumption DEF Loop!TypeOK, GapInv, Loop!MainlineAssumption
<1>2. count \in 0 .. MaxCount /\ base \in 0 .. MaxCount
  BY NodeAssumption DEF Loop!TypeOK, Loop!Period, Loop!MainlineAssumption
<1>3. CASE highRes
  BY <1>1, <1>2, <1>3, LoopDistance, NodeAssumption
  DEF Loop!TypeOK, GapInv, CountInv, Loop!NowUs, Loop!ElapsedUs, Loop!Period,
      Loop!MainlineAssumption
<1>4. CASE ~highRes
  <2>1. tickPhase <= count
    BY <1>2, <1>4, TickFacts DEF CountInv
  <2>2. Loop!NowUs = count - tickPhase /\ Loop!NowUs \in 0 .. MaxCount
    BY <1>2, <1>4, <2>1, NodeAssumption DEF Loop!NowUs, Loop!TypeOK, Loop!MainlineAssumption
  <2>3. Loop!ElapsedUs(Loop!NowUs, base) = IF Loop!NowUs >= base THEN Loop!NowUs - base
                                                 ELSE Loop!NowUs - base + MaxCount + 1
    BY <1>2, <1>4, <2>2, LoopDistance DEF Loop!ElapsedUs
  <2>4. gap + lag >= tickPhase
    BY <1>4 DEF GapInv
  <2>q. QED
    BY <1>1, <1>2, <1>4, <2>1, <2>2, <2>3, NodeAssumption
    DEF Loop!TypeOK, GapInv, CountInv, Loop!Period, Loop!MainlineAssumption
<1>q. QED
  BY <1>3, <1>4

(* A set of natural numbers has a least one. *)
LEMMA LeastNatural ==
    ASSUME NEW S, S \subseteq Nat, S # {}
    PROVE  \E n \in S : \A m \in S : n <= m
<1> DEFINE Below == {p \in Nat \X Nat : p[1] < p[2]}
<1>1. OpToRel(<, Nat) = Below
  BY DEF OpToRel
<1>2. IsWellFoundedOn(Below, Nat)
  BY <1>1, NatLessThanWellFounded
<1>3. \E x \in S : \A y \in S : ~ (<<y, x>> \in Below)
  <2> HIDE DEF Below
  <2>q. QED
    BY <1>2, WFMin
<1>4. \A x, y \in Nat : <<y, x>> \in Below <=> y < x
  OBVIOUS
<1>5. PICK x \in S : \A y \in S : ~ (<<y, x>> \in Below)
  BY <1>3
<1>6. ASSUME NEW y \in S PROVE x <= y
  <2>1. x \in Nat /\ y \in Nat
    OBVIOUS
  <2>2. ~(y < x)
    BY <1>4, <1>5, <2>1
  <2>q. QED
    BY <2>1, <2>2
<1>q. QED
  BY <1>6

(* Whole ticks are whole. *)
LEMMA TicksAreNatural ==
    ASSUME NEW k \in Nat, NEW n \in Nat
    PROVE  k * n \in Nat
  OBVIOUS

(* The merged deadline is one of the candidates, and no later than the     *)
(* native one.                                                             *)
LEMMA EarliestIs ==
    ASSUME NEW native \in Natives, NEW sent \in 0 .. TimeInterval - 1, NEW lss \in LssDelays,
           NEW polled \in BOOLEAN
    PROVE  Loop!Earliest(Loop!Candidates(native, sent, lss, polled)) \in 0 .. MaxCount
<1> DEFINE D == Loop!Candidates(native, sent, lss, polled)
<1>1. native \in D /\ native \in 0 .. MaxCount
  BY NodeAssumption DEF Loop!Candidates, Loop!MainlineAssumption
<1>2. D \subseteq Nat
  BY NodeAssumption DEF Loop!Candidates, Loop!TimeCandidate, Loop!LssCandidate,
     Loop!MainlineAssumption
<1>3. \E d \in D : \A e \in D : d <= e
  BY <1>1, <1>2, LeastNatural
<1>4. Loop!Earliest(D) \in D /\ \A e \in D : Loop!Earliest(D) <= e
  BY <1>3 DEF Loop!Earliest
<1>q. QED
  BY <1>1, <1>2, <1>4, NodeAssumption DEF Loop!MainlineAssumption

(* The facts about a pass: what it charges, and what it leaves. *)
LEMMA PassFacts ==
    ASSUME LoopInv, NEW native \in Natives, NEW lss \in LssDelays, NEW polled \in BOOLEAN,
           Loop!Pass(native, lss, polled)
    PROVE  /\ base' = Loop!NowUs /\ base' \in 0 .. Loop!Period - 1
           /\ sinceSent' \in 0 .. TimeInterval - 1
           /\ next' \in 0 .. MaxCount /\ due' = next'
           /\ lag' = (IF highRes THEN 0 ELSE tickPhase) /\ gap' = 0
<1>1. Loop!ElapsedUs(Loop!NowUs, base) = (IF highRes THEN gap ELSE gap + lag - tickPhase)
      /\ Loop!ElapsedUs(Loop!NowUs, base) \in Nat /\ Loop!NowUs \in 0 .. Loop!Period - 1
  BY ElapsedIs DEF LoopInv
<1>2. sinceSent' \in 0 .. TimeInterval - 1
  BY <1>1, NodeAssumption DEF Loop!Pass, LoopInv, Loop!TypeOK, Loop!MainlineAssumption
<1>3. next' \in 0 .. MaxCount /\ due' = next'
  BY <1>2, EarliestIs DEF Loop!Pass
<1>q. QED
  BY <1>1, <1>2, <1>3, NodeAssumption
     DEF Loop!Pass, LoopInv, Loop!TypeOK, GapInv, Loop!MainlineAssumption

(* One unit of either clock. *)
LEMMA ElapseFacts ==
    ASSUME LoopInv, Loop!Elapse
    PROVE  /\ count' = (IF count + 1 = Loop!Period THEN 0 ELSE count + 1)
           /\ tickPhase' = (IF tickPhase + 1 = TickLength THEN 0 ELSE tickPhase + 1)
           /\ count' \in 0 .. Loop!Period - 1 /\ tickPhase' \in 0 .. TickLength - 1
           /\ highRes \/ tickPhase' = count' % TickLength
<1>0. TickLength \in Nat \ {0} /\ Loop!Period \in Nat \ {0} /\ MaxCount \in Nat
  BY NodeAssumption DEF Loop!MainlineAssumption, Loop!Period, LoopInv, Loop!TypeOK
<1>1. ASSUME NEW n \in Nat \ {0}, NEW c \in 0 .. n - 1
      PROVE  (c + 1) % n = IF c + 1 = n THEN 0 ELSE c + 1
  BY <1>1, SMTT(60)
<1>2. count' = IF count + 1 = Loop!Period THEN 0 ELSE count + 1
  BY <1>0, <1>1 DEF Loop!Elapse, LoopInv, Loop!TypeOK
<1>3. tickPhase' = IF tickPhase + 1 = TickLength THEN 0 ELSE tickPhase + 1
  BY <1>0, <1>1 DEF Loop!Elapse, LoopInv, Loop!TypeOK
<1>4. ASSUME ~highRes PROVE tickPhase' = count' % TickLength
  <2>0. count \in Nat /\ tickPhase = count % TickLength
    BY <1>0, <1>4 DEF LoopInv, Loop!TypeOK, CountInv
  <2>1. (count + 1) % TickLength = tickPhase'
    <3>1. /\ count % TickLength \in 0 .. TickLength - 1
          /\ (count + 1) % TickLength = IF count % TickLength = TickLength - 1 THEN 0
                                        ELSE (count % TickLength) + 1
      BY <2>0, TickFacts
    <3>2. (count + 1) % TickLength = IF tickPhase = TickLength - 1 THEN 0 ELSE tickPhase + 1
      BY <2>0, <3>1
    <3>q. QED
      BY <1>0, <1>3, <2>0, <3>1, <3>2
  <2>2. CASE count + 1 = Loop!Period
    <3>1. count + 1 = MaxCount + 1
      BY <1>4, <2>2 DEF Loop!Period
    <3>2. tickPhase' = 0
      BY <2>1, <3>1, NodeAssumption DEF Loop!MainlineAssumption
    <3>3. 0 % TickLength = 0
      BY <1>0, TickFacts
    <3>q. QED
      BY <1>2, <2>2, <3>2, <3>3
  <2>3. CASE count + 1 # Loop!Period
    BY <1>2, <2>1, <2>3
  <2>q. QED
    BY <2>2, <2>3
<1>q. QED
  BY <1>0, <1>2, <1>3, <1>4 DEF LoopInv, Loop!TypeOK

(* The sleep that co_main enters ends no later than its deadline. *)
LEMMA SleepFacts ==
    ASSUME LoopInv, Loop!Sleep, mainAt' = "asleep"
    PROVE  /\ left' \in Nat \ {0} /\ ~renewed /\ ~event
           /\ left' * TickLength <= (IF highRes THEN next - gap ELSE next - gap - lag + tickPhase)
           /\ left' * TickLength <= (IF highRes THEN MaxWait - gap ELSE MaxWait - gap - lag + tickPhase)
<1> DEFINE E == IF highRes THEN gap ELSE gap + lag - tickPhase
<1>1. Loop!Remaining = Loop!Bounded(next) - E /\ E \in Nat
  BY ElapsedIs DEF LoopInv, Loop!Remaining
<1>2. Loop!Bounded(next) <= next /\ Loop!Bounded(next) <= MaxWait /\ Loop!Bounded(next) \in Nat
  BY NodeAssumption DEF Loop!Bounded, LoopInv, Loop!TypeOK, Loop!MainlineAssumption
<1>3. ~Loop!MustProcess /\ ~event /\ left' = Loop!UsToTicks(Loop!Remaining)
  BY DEF Loop!Sleep
<1>4. Loop!Remaining \in Nat
  BY <1>1, <1>2, <1>3 DEF Loop!MustProcess
<1>5. PICK k \in Nat : /\ left' = k /\ k > 0 /\ k * TickLength \in 0 .. Loop!Remaining
  <2>1. Loop!Remaining \div TickLength \in Nat /\
      (Loop!Remaining \div TickLength) * TickLength \in 0 .. Loop!Remaining
    BY <1>4, WholeTicks
  <2>2. Loop!Remaining \div TickLength > 0
    BY <1>3, <2>1 DEF Loop!MustProcess, Loop!UsToTicks
  <2>q. QED
    BY <1>3, <2>1, <2>2 DEF Loop!UsToTicks
<1>6. ~renewed
  BY <1>3 DEF Loop!MustProcess, LoopInv, WakeInv
<1>7. k * TickLength <= Loop!Remaining
  BY <1>4, <1>5
<1>8. k * TickLength <= Loop!Bounded(next) - E
  BY <1>1, <1>7
<1>9. TickLength \in Nat /\ MaxWait \in Nat /\ gap \in Nat /\ lag \in Int /\
    tickPhase \in Nat /\ next \in Nat
  BY NodeAssumption DEF LoopInv, Loop!TypeOK, GapInv, Loop!MainlineAssumption
<1>10. k * TickLength \in Nat
  BY <1>5, <1>9, TicksAreNatural
<1>11. /\ k * TickLength <= (IF highRes THEN next - gap ELSE next - gap - lag + tickPhase)
       /\ k * TickLength <= (IF highRes THEN MaxWait - gap ELSE MaxWait - gap - lag + tickPhase)
  BY <1>1, <1>2, <1>8, <1>9, <1>10
<1>q. QED
  BY <1>3, <1>5, <1>6, <1>11

(* Every step keeps the types.                                             *)
LEMMA LoopTypeOKStep ==
    ASSUME LoopInv, [Loop!Next]_(Loop!vars)
    PROVE  Loop!TypeOK'
<1>0. CASE UNCHANGED Loop!vars
  BY <1>0 DEF Loop!vars, Loop!TypeOK, LoopInv, Loop!MainlineAssumption, Loop!Period
<1>1. CASE Loop!Sleep
  <2>1. (event \in BOOLEAN /\ wakeOwed \in BOOLEAN /\ renewed \in BOOLEAN /\ highRes \in BOOLEAN)'
    BY <1>1, Zenon DEF Loop!Sleep, LoopInv, Loop!TypeOK
  <2>2. left' \in Nat
    BY <1>1, SleepFacts DEF Loop!Sleep, LoopInv, Loop!TypeOK
  <2>q. QED
    BY <1>1, <2>1, <2>2, NodeAssumption
       DEF Loop!Sleep, LoopInv, Loop!TypeOK, Loop!Period, Loop!MainlineAssumption
<1>2. CASE Loop!Awake
  <2>1. (event \in BOOLEAN /\ wakeOwed \in BOOLEAN /\ renewed \in BOOLEAN /\ highRes \in BOOLEAN)'
    BY <1>2, Zenon DEF Loop!Awake, LoopInv, Loop!TypeOK
  <2>q. QED
    BY <1>2, <2>1, NodeAssumption
       DEF Loop!Awake, LoopInv, Loop!TypeOK, Loop!Period, Loop!MainlineAssumption
<1>3. CASE Loop!NextPass
  <2>1. (event \in BOOLEAN /\ wakeOwed \in BOOLEAN /\ renewed \in BOOLEAN /\ highRes \in BOOLEAN)'
    BY <1>3, Zenon DEF Loop!NextPass, LoopInv, Loop!TypeOK
  <2>q. QED
    BY <1>3, <2>1, NodeAssumption
       DEF Loop!NextPass, LoopInv, Loop!TypeOK, Loop!Period, Loop!MainlineAssumption
<1>4. CASE Loop!CommunicationReset
  <2>1. (event \in BOOLEAN /\ wakeOwed \in BOOLEAN /\ renewed \in BOOLEAN /\ highRes \in BOOLEAN)'
    BY <1>4, Zenon DEF Loop!CommunicationReset, Loop!AtOnce, LoopInv, Loop!TypeOK
  <2>q. QED
    BY <1>4, <2>1, ElapsedIs, NodeAssumption
       DEF Loop!CommunicationReset, Loop!AtOnce, LoopInv, Loop!TypeOK, Loop!Period,
           Loop!MainlineAssumption
<1>5. CASE Loop!Wakeup
  BY <1>5, NodeAssumption DEF Loop!Wakeup, Loop!TypeOK, LoopInv, Loop!MainlineAssumption,
     Loop!Period
<1>6. CASE Loop!Elapse
  BY <1>6, ElapseFacts, NodeAssumption
     DEF Loop!Elapse, LoopInv, Loop!TypeOK, Loop!Period, Loop!MainlineAssumption
<1>7. ASSUME NEW native \in Natives, NEW lss \in LssDelays, NEW polled \in BOOLEAN,
   Loop!Pass(native, lss, polled) PROVE Loop!TypeOK'
  <2>1. (event \in BOOLEAN /\ wakeOwed \in BOOLEAN /\ renewed \in BOOLEAN /\ highRes \in BOOLEAN)'
    BY <1>7, Zenon DEF Loop!Pass, LoopInv, Loop!TypeOK
  <2>2. /\ base' \in 0 .. Loop!Period - 1 /\ sinceSent' \in 0 .. TimeInterval - 1
        /\ next' \in 0 .. MaxCount /\ due' = next' /\ gap' = 0
    BY <1>7, PassFacts
  <2>3. /\ mainAt' = "finish" /\ busy' = 0
        /\ UNCHANGED <<highRes, count, tickPhase, left>>
    BY <1>7 DEF Loop!Pass
  <2>q. QED
    BY <2>1, <2>2, <2>3, NodeAssumption
       DEF LoopInv, Loop!TypeOK, Loop!Period, Loop!MainlineAssumption
<1>q. QED
  BY <1>0, <1>1, <1>2, <1>3, <1>4, <1>5, <1>6, <1>7 DEF Loop!Next

(* A pass comes within one sleep and three busy steps.                     *)
LEMMA GapInvStep ==
    ASSUME LoopInv, [Loop!Next]_(Loop!vars)
    PROVE  GapInv'
<1>0. CASE UNCHANGED Loop!vars
  BY <1>0 DEF Loop!vars, GapInv, LoopInv, Loop!TypeOK, Loop!MainlineAssumption
<1>1. CASE Loop!Wakeup
  BY <1>1 DEF Loop!Wakeup, GapInv, LoopInv, Loop!TypeOK, Loop!MainlineAssumption
<1>2. CASE Loop!Sleep
  <2>1. CASE mainAt' = "asleep"
    BY <1>2, <2>1, SleepFacts, NodeAssumption
       DEF Loop!Sleep, LoopInv, Loop!TypeOK, GapInv, Loop!MainlineAssumption
  <2>2. CASE mainAt' # "asleep"
    BY <1>2, <2>2, NodeAssumption
       DEF Loop!Sleep, LoopInv, Loop!TypeOK, GapInv, Loop!MainlineAssumption
  <2>q. QED
    BY <2>1, <2>2
<1>3. CASE Loop!Awake
  BY <1>3, NodeAssumption DEF Loop!Awake, GapInv, LoopInv, Loop!TypeOK, Loop!MainlineAssumption
<1>4. CASE Loop!NextPass
  BY <1>4, NodeAssumption DEF Loop!NextPass, GapInv, LoopInv, Loop!TypeOK, Loop!MainlineAssumption
<1>5. CASE Loop!CommunicationReset
  BY <1>5, ElapsedIs, NodeAssumption
     DEF Loop!CommunicationReset, Loop!AtOnce, LoopInv, Loop!TypeOK, GapInv, Loop!MainlineAssumption
<1>6. CASE Loop!Elapse
  BY <1>6, ElapseFacts, NodeAssumption
     DEF Loop!Elapse, LoopInv, Loop!TypeOK, GapInv, Loop!MainlineAssumption
<1>7. ASSUME NEW native \in Natives, NEW lss \in LssDelays, NEW polled \in BOOLEAN,
   Loop!Pass(native, lss, polled) PROVE GapInv'
  <2>1. /\ base' = Loop!NowUs /\ base' \in 0 .. Loop!Period - 1 /\ gap' = 0
        /\ lag' = (IF highRes THEN 0 ELSE tickPhase)
    BY <1>7, PassFacts
  <2>2. /\ mainAt = "process" /\ mainAt' = "finish" /\ busy' = 0
        /\ UNCHANGED <<highRes, count, tickPhase, left>>
    BY <1>7 DEF Loop!Pass
  <2>3. highRes \/ tickPhase <= count
    <3>1. count \in Nat
      BY NodeAssumption DEF LoopInv, Loop!TypeOK, Loop!Period, Loop!MainlineAssumption
    <3>2. count % TickLength <= count
      BY <3>1, TickFacts
    <3>q. QED
      BY <3>2 DEF LoopInv, CountInv
  <2>q. QED
    BY <2>1, <2>2, <2>3, NodeAssumption
    DEF LoopInv, Loop!TypeOK, GapInv, Loop!Period, Loop!MainlineAssumption
<1>q. QED
  BY <1>0, <1>1, <1>2, <1>3, <1>4, <1>5, <1>6, <1>7 DEF Loop!Next

(* The counter is the last reading, the unseen part of a tick and the gap. *)
LEMMA CountInvStep ==
    ASSUME LoopInv, [Loop!Next]_(Loop!vars)
    PROVE  CountInv'
<1>0. CASE UNCHANGED Loop!vars
  BY <1>0 DEF Loop!vars, CountInv, LoopInv, Loop!TypeOK, Loop!MainlineAssumption, Loop!Period
<1>1. CASE Loop!Awake \/ Loop!NextPass \/ Loop!Wakeup
  BY <1>1 DEF Loop!Awake, Loop!NextPass, Loop!Wakeup, CountInv, LoopInv, Loop!TypeOK,
     Loop!MainlineAssumption,
     Loop!Period
<1>2. CASE Loop!Sleep
  <2>1. CASE mainAt' = "asleep"
    BY <1>2, <2>1, SleepFacts, NodeAssumption
       DEF Loop!Sleep, LoopInv, Loop!TypeOK, GapInv, CountInv, Loop!NowUs, Loop!Period,
           Loop!MainlineAssumption
  <2>2. CASE mainAt' # "asleep"
    BY <1>2, <2>2, NodeAssumption
       DEF Loop!Sleep, LoopInv, Loop!TypeOK, GapInv, CountInv, Loop!NowUs, Loop!Period,
           Loop!MainlineAssumption
  <2>q. QED
    BY <2>1, <2>2
<1>3. CASE Loop!CommunicationReset
  BY <1>3, ElapsedIs, NodeAssumption
     DEF Loop!CommunicationReset, Loop!AtOnce, LoopInv, Loop!TypeOK, GapInv, CountInv,
         Loop!NowUs, Loop!Period, Loop!MainlineAssumption
<1>4. CASE Loop!Elapse
  BY <1>4, ElapseFacts, NodeAssumption
     DEF Loop!Elapse, LoopInv, Loop!TypeOK, GapInv, CountInv, Loop!NowUs, Loop!Period,
         Loop!MainlineAssumption
<1>5. ASSUME NEW native \in Natives, NEW lss \in LssDelays, NEW polled \in BOOLEAN,
   Loop!Pass(native, lss, polled) PROVE CountInv'
  <2>1. /\ base' = Loop!NowUs /\ base' \in 0 .. Loop!Period - 1 /\ gap' = 0
        /\ lag' = (IF highRes THEN 0 ELSE tickPhase)
    BY <1>5, PassFacts
  <2>2. /\ mainAt = "process" /\ mainAt' = "finish" /\ busy' = 0
        /\ UNCHANGED <<highRes, count, tickPhase, left>>
    BY <1>5 DEF Loop!Pass
  <2>3. highRes \/ tickPhase <= count
    <3>1. count \in Nat
      BY NodeAssumption DEF LoopInv, Loop!TypeOK, Loop!Period, Loop!MainlineAssumption
    <3>2. count % TickLength <= count
      BY <3>1, TickFacts
    <3>q. QED
      BY <3>2 DEF LoopInv, CountInv
  <2>q. QED
    BY <2>1, <2>2, <2>3, NodeAssumption
    DEF LoopInv, Loop!TypeOK, GapInv, CountInv, Loop!NowUs, Loop!Period, Loop!MainlineAssumption
<1>q. QED
  BY <1>0, <1>1, <1>2, <1>3, <1>4, <1>5 DEF Loop!Next

(* A wake-up lasts until the pass it asked for.                            *)
LEMMA WakeInvStep ==
    ASSUME LoopInv, [Loop!Next]_(Loop!vars)
    PROVE  WakeInv'
<1>0. CASE UNCHANGED Loop!vars
  BY <1>0 DEF Loop!vars, WakeInv, LoopInv, Loop!TypeOK, Loop!MainlineAssumption
<1>1. CASE Loop!Sleep
  <2>1. CASE mainAt' = "asleep"
    BY <1>1, <2>1, SleepFacts, NodeAssumption
       DEF Loop!Sleep, LoopInv, Loop!TypeOK, WakeInv, Loop!MainlineAssumption
  <2>2. CASE mainAt' # "asleep"
    BY <1>1, <2>2, NodeAssumption
       DEF Loop!Sleep, LoopInv, Loop!TypeOK, WakeInv, Loop!MainlineAssumption
  <2>q. QED
    BY <2>1, <2>2
<1>2. CASE Loop!Awake
  BY <1>2, NodeAssumption DEF Loop!Awake, WakeInv, LoopInv, Loop!TypeOK, Loop!MainlineAssumption
<1>3. CASE Loop!NextPass
  BY <1>3, NodeAssumption DEF Loop!NextPass, WakeInv, LoopInv, Loop!TypeOK, Loop!MainlineAssumption
<1>4. CASE Loop!CommunicationReset
  BY <1>4, ElapsedIs, NodeAssumption
     DEF Loop!CommunicationReset, Loop!AtOnce, LoopInv, Loop!TypeOK, WakeInv,
         Loop!MainlineAssumption
<1>5. CASE Loop!Wakeup
  BY <1>5, NodeAssumption DEF Loop!Wakeup, WakeInv, LoopInv, Loop!TypeOK, Loop!MainlineAssumption
<1>6. CASE Loop!Elapse
  BY <1>6, ElapseFacts, NodeAssumption
     DEF Loop!Elapse, LoopInv, Loop!TypeOK, WakeInv, Loop!MainlineAssumption
<1>7. ASSUME NEW native \in Natives, NEW lss \in LssDelays, NEW polled \in BOOLEAN,
   Loop!Pass(native, lss, polled) PROVE WakeInv'
  BY <1>7, PassFacts, NodeAssumption
     DEF Loop!Pass, LoopInv, Loop!TypeOK, WakeInv, Loop!MainlineAssumption
<1>q. QED
  BY <1>0, <1>1, <1>2, <1>3, <1>4, <1>5, <1>6, <1>7 DEF Loop!Next

(* A sleep is cut to whole ticks before the deadline.                      *)
LEMMA NeverOversleepsStep ==
    ASSUME LoopInv, [Loop!Next]_(Loop!vars)
    PROVE  Loop!NeverOversleeps'
<1>0. CASE UNCHANGED Loop!vars
  BY <1>0 DEF Loop!vars, Loop!NeverOversleeps, LoopInv, Loop!TypeOK, Loop!MainlineAssumption
<1>1. CASE Loop!Wakeup
  BY <1>1 DEF Loop!Wakeup, Loop!NeverOversleeps, LoopInv, Loop!TypeOK, Loop!MainlineAssumption
<1>2. CASE Loop!Sleep
  <2>1. CASE mainAt' = "asleep"
    BY <1>2, <2>1, SleepFacts, NodeAssumption
       DEF Loop!Sleep, LoopInv, Loop!TypeOK, GapInv, WakeInv, Loop!NeverOversleeps,
           Loop!MainlineAssumption
  <2>2. CASE mainAt' # "asleep"
    BY <1>2, <2>2, NodeAssumption
       DEF Loop!Sleep, LoopInv, Loop!TypeOK, GapInv, WakeInv, Loop!NeverOversleeps,
           Loop!MainlineAssumption
  <2>q. QED
    BY <2>1, <2>2
<1>3. CASE Loop!Awake
  BY <1>3, NodeAssumption DEF Loop!Awake, Loop!NeverOversleeps, LoopInv, Loop!TypeOK,
     Loop!MainlineAssumption
<1>4. CASE Loop!NextPass
  BY <1>4, NodeAssumption DEF Loop!NextPass, Loop!NeverOversleeps, LoopInv, Loop!TypeOK,
     Loop!MainlineAssumption
<1>5. CASE Loop!CommunicationReset
  BY <1>5, ElapsedIs, NodeAssumption
     DEF Loop!CommunicationReset, Loop!AtOnce, LoopInv, Loop!TypeOK, GapInv, WakeInv,
         Loop!NeverOversleeps, Loop!MainlineAssumption
<1>6. CASE Loop!Elapse
  BY <1>6, ElapseFacts, NodeAssumption
     DEF Loop!Elapse, LoopInv, Loop!TypeOK, GapInv, WakeInv, Loop!NeverOversleeps,
         Loop!MainlineAssumption
<1>7. ASSUME NEW native \in Natives, NEW lss \in LssDelays, NEW polled \in BOOLEAN,
   Loop!Pass(native, lss, polled) PROVE Loop!NeverOversleeps'
  BY <1>7, PassFacts, NodeAssumption
     DEF Loop!Pass, LoopInv, Loop!TypeOK, GapInv, WakeInv, Loop!NeverOversleeps,
         Loop!MainlineAssumption
<1>q. QED
  BY <1>0, <1>1, <1>2, <1>3, <1>4, <1>5, <1>6, <1>7 DEF Loop!Next

(* Nobody falls asleep over a wake-up.                                     *)
LEMMA NoLostWakeupStep ==
    ASSUME LoopInv, [Loop!Next]_(Loop!vars)
    PROVE  Loop!NoLostWakeup'
<1>0. CASE UNCHANGED Loop!vars
  BY <1>0 DEF Loop!vars, Loop!NoLostWakeup, LoopInv, Loop!TypeOK, WakeInv, Loop!MainlineAssumption
<1>1. CASE Loop!Sleep
  <2>1. CASE mainAt' = "asleep"
    BY <1>1, <2>1, SleepFacts, NodeAssumption
       DEF Loop!Sleep, LoopInv, Loop!TypeOK, WakeInv, Loop!NoLostWakeup, Loop!MainlineAssumption
  <2>2. CASE mainAt' # "asleep"
    BY <1>1, <2>2, NodeAssumption
       DEF Loop!Sleep, LoopInv, Loop!TypeOK, WakeInv, Loop!NoLostWakeup, Loop!MainlineAssumption
  <2>q. QED
    BY <2>1, <2>2
<1>2. CASE Loop!Awake
  BY <1>2, NodeAssumption DEF Loop!Awake, Loop!NoLostWakeup, LoopInv, Loop!TypeOK, WakeInv,
     Loop!MainlineAssumption
<1>3. CASE Loop!NextPass
  BY <1>3, NodeAssumption DEF Loop!NextPass, Loop!NoLostWakeup, LoopInv, Loop!TypeOK, WakeInv,
     Loop!MainlineAssumption
<1>4. CASE Loop!CommunicationReset
  BY <1>4, ElapsedIs, NodeAssumption
     DEF Loop!CommunicationReset, Loop!AtOnce, LoopInv, Loop!TypeOK, WakeInv, Loop!NoLostWakeup,
         Loop!MainlineAssumption
<1>5. CASE Loop!Wakeup
  BY <1>5, NodeAssumption DEF Loop!Wakeup, Loop!NoLostWakeup, LoopInv, Loop!TypeOK, WakeInv,
     Loop!MainlineAssumption
<1>6. CASE Loop!Elapse
  BY <1>6, ElapseFacts, NodeAssumption
     DEF Loop!Elapse, LoopInv, Loop!TypeOK, WakeInv, Loop!NoLostWakeup, Loop!MainlineAssumption
<1>7. ASSUME NEW native \in Natives, NEW lss \in LssDelays, NEW polled \in BOOLEAN,
   Loop!Pass(native, lss, polled) PROVE Loop!NoLostWakeup'
  BY <1>7, PassFacts, NodeAssumption
     DEF Loop!Pass, LoopInv, Loop!TypeOK, WakeInv, Loop!NoLostWakeup, Loop!MainlineAssumption
<1>q. QED
  BY <1>0, <1>1, <1>2, <1>3, <1>4, <1>5, <1>6, <1>7 DEF Loop!Next

LEMMA LoopInvariant == Spec => []LoopInv
<1>1. Loop!Init => LoopInv
  <2>1. Loop!Init => Loop!TypeOK /\ CountInv
    <3> SUFFICES ASSUME Loop!Init PROVE Loop!TypeOK /\ CountInv
      OBVIOUS
    <3>1. tickPhase \in 0 .. TickLength - 1 /\ count \in 0 .. Loop!Period - 1 /\ count \in Nat
      <4>1. TickLength \in Nat \ {0} /\ Loop!Period \in Nat \ {0}
        BY NodeAssumption DEF Loop!Period, Loop!MainlineAssumption
      <4>2. count \in 0 .. Loop!Period - 1 /\ count \in Nat
        BY <4>1 DEF Loop!Init, Loop!TimeInit
      <4>3. count % TickLength \in 0 .. TickLength - 1
        BY <4>2, TickFacts
      <4>q. QED
        BY <4>2, <4>3 DEF Loop!Init, Loop!TimeInit
    <3>2. highRes \/ tickPhase <= count
      BY <3>1, TickFacts DEF Loop!Init, Loop!TimeInit
    <3>3. Loop!NowUs \in 0 .. Loop!Period - 1 /\ base = Loop!NowUs
      BY <3>1, <3>2, NodeAssumption DEF Loop!Init, Loop!NowUs, Loop!Period, Loop!MainlineAssumption
    <3>4. Loop!TypeOK
      <4>1. highRes \in BOOLEAN /\ event \in BOOLEAN /\ wakeOwed \in BOOLEAN /\ renewed \in BOOLEAN
        BY Zenon DEF Loop!Init, Loop!TimeInit
      <4>q. QED
        BY <3>1, <3>3, <4>1, NodeAssumption DEF Loop!Init, Loop!TypeOK, Loop!MainlineAssumption
    <3>5. CountInv
      <4>1. CASE highRes
        <5>1. base = count /\ lag = 0 /\ gap = 0
          BY <3>3, <4>1 DEF Loop!Init, Loop!NowUs
        <5>2. Loop!Period \in Nat
          BY NodeAssumption DEF Loop!Period, Loop!MainlineAssumption
        <5>q. QED
          BY <3>1, <4>1, <5>1, <5>2 DEF CountInv
      <4>2. CASE ~highRes
        <5>1. tickPhase = count % TickLength /\ base = count - tickPhase /\ lag = tickPhase /\
            gap = 0
          BY <4>2 DEF Loop!Init, Loop!TimeInit, Loop!NowUs
        <5>2. Loop!Period \in Nat
          BY NodeAssumption DEF Loop!Period, Loop!MainlineAssumption
        <5>q. QED
          BY <3>1, <5>1, <5>2 DEF CountInv
      <4>q. QED
        BY <4>1, <4>2
    <3>q. QED
      BY <3>4, <3>5
  <2>2. Loop!Init => GapInv
    <3>1. TickLength \in Nat \ {0} /\ MaxBusy \in Nat
      BY NodeAssumption DEF Loop!MainlineAssumption
    <3>2. Loop!Init => tickPhase \in 0 .. TickLength - 1
      BY <2>1 DEF Loop!TypeOK
    <3>3. Loop!Init => /\ mainAt = "wait" /\ gap = 0 /\ busy = 0
                       /\ lag = IF highRes THEN 0 ELSE tickPhase
      BY DEF Loop!Init
    <3>q. QED
      BY <3>1, <3>2, <3>3, SMTT(30) DEF GapInv
  <2>3. Loop!Init => WakeInv /\ Loop!NeverOversleeps /\ Loop!NoLostWakeup
    BY DEF Loop!Init, WakeInv, Loop!NeverOversleeps, Loop!NoLostWakeup
  <2>q. QED
    BY <2>1, <2>2, <2>3 DEF LoopInv
<1>2. LoopInv /\ [Loop!Next]_(Loop!vars) => LoopInv'
  BY LoopTypeOKStep, GapInvStep, CountInvStep, WakeInvStep, NeverOversleepsStep, NoLostWakeupStep
  DEF LoopInv
<1>q. QED
  BY <1>1, <1>2, Starts, Steps, PTL DEF Spec

(* No time is lost or charged twice, no deadline is slept through, and no  *)
(* wake-up is forgotten, whatever the widths of counter and tick.          *)
THEOREM MainlineRunsInTime == Spec => []Loop!MainlineIsSafe
<1>1. LoopInv => Loop!MainlineIsSafe
  BY ElapsedIs DEF LoopInv, Loop!TypeOK, GapInv, Loop!MainlineIsSafe, Loop!TimeIsConserved
<1>q. QED
  BY <1>1, LoopInvariant, PTL

-----------------------------------------------------------------------------
(***************************************************************************)
(* The hardware receive filter.  Compacting a table and merging two rules  *)
(* only ever widens it, so a compiled table admits whatever the rules ask  *)
(* for; the thread that compiles or writes holds rxRuleMutex, so no rule   *)
(* changes between the compilation and the programming of the banks.       *)
(***************************************************************************)

(* What a table serves. *)
CoveredBy(rules, rule) == \E r \in rules : Filter!Covers(r, rule)
Serves(rules, other) == \A r \in other : CoveredBy(rules, r)
ServesSlots(rules, wanted) == \A i \in Filter!Slots : wanted[i] # NoRule => CoveredBy(rules,
    wanted[i])

LEMMA RuleParts ==
    ASSUME NEW r \in Filter!RuleSet
    PROVE  /\ r = [rtr |-> r.rtr, fixed |-> r.fixed]
           /\ r.rtr \in BOOLEAN
           /\ DOMAIN r.fixed \subseteq Filter!Bits
           /\ r.fixed \in [DOMAIN r.fixed -> {0, 1}]
           /\ IsFiniteSet(DOMAIN r.fixed) /\ Filter!Specificity(r) \in Nat
<1>1. PICK t \in BOOLEAN, B \in SUBSET Filter!Bits : \E f \in [B -> {0, 1}] : r = [rtr |-> t,
    fixed |-> f]
  BY DEF Filter!RuleSet
<1>2. PICK f \in [B -> {0, 1}] : r = [rtr |-> t, fixed |-> f]
  BY <1>1
<1>3. r.rtr = t /\ r.fixed = f /\ DOMAIN f = B
  BY <1>2
<1>4. IsFiniteSet(Filter!Bits)
  BY NodeAssumption, FS_Interval DEF Filter!Bits, Filter!FilterAssumption
<1>5. IsFiniteSet(B) /\ Cardinality(B) \in Nat
  BY <1>4, FS_Subset, FS_CardinalityType
<1>q. QED
  BY <1>2, <1>3, <1>5, FilterLibrary DEF Filter!Specificity

LEMMA IsARule ==
    ASSUME NEW t \in BOOLEAN, NEW B \in SUBSET Filter!Bits, NEW f \in [B -> {0, 1}]
    PROVE  [rtr |-> t, fixed |-> f] \in Filter!RuleSet
BY DEF Filter!RuleSet

LEMMA CoversItself ==
    ASSUME NEW r \in Filter!RuleSet
    PROVE  Filter!Covers(r, r)
BY DEF Filter!Covers

LEMMA CoversThrough ==
    ASSUME NEW r, NEW s, NEW t, Filter!Covers(r, s), Filter!Covers(s, t)
    PROVE  Filter!Covers(r, t)
BY DEF Filter!Covers

(* A rule that covers another one fixes fewer bits, unless they are equal. *)
LEMMA CoversLess ==
    ASSUME NEW r \in Filter!RuleSet, NEW s \in Filter!RuleSet, Filter!Covers(r, s), r # s
    PROVE  Filter!Specificity(r) < Filter!Specificity(s)
<1>1. DOMAIN r.fixed \in SUBSET DOMAIN s.fixed /\ IsFiniteSet(DOMAIN s.fixed)
  BY RuleParts DEF Filter!Covers
<1>2. Filter!Specificity(r) <= Filter!Specificity(s)
  BY <1>1, FS_Subset, FilterLibrary DEF Filter!Specificity
<1>3. ASSUME Filter!Specificity(r) = Filter!Specificity(s) PROVE FALSE
  <2>1. DOMAIN r.fixed = DOMAIN s.fixed
    BY <1>1, <1>3, FS_Subset, FilterLibrary DEF Filter!Specificity
  <2>2. r.fixed = s.fixed
    <3>1. r.fixed \in [DOMAIN r.fixed -> {0, 1}] /\ s.fixed \in [DOMAIN r.fixed -> {0, 1}]
      BY <2>1, RuleParts
    <3>2. \A b \in DOMAIN r.fixed : r.fixed[b] = s.fixed[b]
      BY DEF Filter!Covers
    <3>q. QED
      BY <3>1, <3>2
  <2>3. r.rtr = s.rtr
    BY DEF Filter!Covers
  <2>q. QED
    BY <2>2, <2>3, RuleParts
<1>q. QED
  BY <1>2, <1>3, RuleParts

(* Compacting a table takes nothing from what it serves. *)
LEMMA CompactServes ==
    ASSUME NEW rules, rules \subseteq Filter!RuleSet
    PROVE  Filter!Compact(rules) \subseteq rules /\ Serves(Filter!Compact(rules), rules)
<1>1. Filter!Compact(rules) \subseteq rules
  BY DEF Filter!Compact
<1>2. ASSUME NEW r \in rules PROVE CoveredBy(Filter!Compact(rules), r)
  <2> DEFINE Coarse == {o \in rules : Filter!Covers(o, r)}
             Bounds == {Filter!Specificity(o) : o \in Coarse}
  <2>1. r \in Coarse
    BY CoversItself
  <2>2. Bounds \subseteq Nat /\ Bounds # {}
    BY <2>1, RuleParts
  <2>3. PICK n \in Bounds : \A m \in Bounds : n <= m
    BY <2>2, LeastNatural
  <2>4. PICK o \in Coarse : n = Filter!Specificity(o)
    BY <2>3
  <2>5. o \in rules /\ Filter!Covers(o, r) /\ \A p \in Coarse :
      Filter!Specificity(o) <= Filter!Specificity(p)
    BY <2>3, <2>4
  <2>6. ASSUME NEW p \in rules \ {o}, Filter!Covers(p, o) PROVE FALSE
    <3>1. p \in Coarse
      BY <2>5, <2>6, CoversThrough
    <3>2. Filter!Specificity(p) < Filter!Specificity(o)
      BY <2>5, <2>6, CoversLess
    <3>3. Filter!Specificity(p) \in Nat /\ Filter!Specificity(o) \in Nat /\
        Filter!Specificity(o) <= Filter!Specificity(p)
      BY <2>5, <3>1, RuleParts
    <3>q. QED
      BY <3>2, <3>3
  <2>7. o \in Filter!Compact(rules)
    BY <2>5, <2>6 DEF Filter!Compact
  <2>q. QED
    BY <2>5, <2>7 DEF CoveredBy
<1>q. QED
  BY <1>1, <1>2 DEF Serves

(* The merge of two rules of a type is a rule that covers both. *)
LEMMA MergeCovers ==
    ASSUME NEW first \in Filter!RuleSet, NEW second \in Filter!RuleSet, first.rtr = second.rtr
    PROVE  /\ Filter!Merge(first, second) \in Filter!RuleSet
           /\ Filter!Covers(Filter!Merge(first, second), first) /\
               Filter!Covers(Filter!Merge(first, second), second)
<1> DEFINE B == Filter!MergedBits(first, second)
           f == Restrict(first.fixed, B)
<1>1. B \subseteq DOMAIN first.fixed /\ B \subseteq DOMAIN second.fixed
      /\ \A b \in B : first.fixed[b] = second.fixed[b]
  BY DEF Filter!MergedBits, Filter!AgreeOn
<1>2. f = [b \in B |-> first.fixed[b]]
  BY DEF Restrict
<1>3. B \in SUBSET Filter!Bits /\ f \in [B -> {0, 1}]
  BY <1>1, <1>2, RuleParts
<1>4. Filter!Merge(first, second) = [rtr |-> first.rtr, fixed |-> f]
  <2> HIDE DEF f
  <2>1. [first EXCEPT !.fixed = f] = [rtr |-> first.rtr, fixed |-> f]
    BY RuleParts
  <2>q. QED
    BY <2>1, FilterLibrary DEF Filter!Merge, f
<1>5. Filter!Merge(first, second) \in Filter!RuleSet
  <2> HIDE DEF f, B
  <2>q. QED
    BY <1>3, <1>4, IsARule, RuleParts
<1>6. Filter!Merge(first, second).rtr = first.rtr /\ Filter!Merge(first, second).fixed = f
  BY <1>4
<1>q. QED
  BY <1>1, <1>2, <1>5, <1>6 DEF Filter!Covers

(* Replacing two rules of a table by their merge widens it. *)
LEMMA MergedServes ==
    ASSUME NEW rules, rules \subseteq Filter!RuleSet, NEW others, others \subseteq Filter!RuleSet,
           NEW p \in Filter!Pairs(rules, others)
    PROVE  /\ Filter!Merged(rules, p) \subseteq Filter!RuleSet
           /\ Serves(Filter!Merged(rules, p), rules) /\ CoveredBy(Filter!Merged(rules, p), p[2])
<1> DEFINE kept == rules \ {p[1], p[2]}
           m == Filter!Merge(p[1], p[2])
<1>1. p[1] \in Filter!RuleSet /\ p[2] \in Filter!RuleSet /\ p[1].rtr = p[2].rtr
  BY DEF Filter!Pairs
<1>2. m \in Filter!RuleSet /\ Filter!Covers(m, p[1]) /\ Filter!Covers(m, p[2])
  BY <1>1, MergeCovers
<1>3. kept \cup {m} \subseteq Filter!RuleSet
  BY <1>2
<1>4. Filter!Merged(rules, p) \subseteq Filter!RuleSet /\ Serves(Filter!Merged(rules, p),
    kept \cup {m})
  BY <1>3, CompactServes DEF Filter!Merged
<1>5. ASSUME NEW r, CoveredBy(Filter!Merged(rules, p), m), Filter!Covers(m,
    r) PROVE CoveredBy(Filter!Merged(rules, p), r)
  BY <1>5, CoversThrough DEF CoveredBy
<1>6. CoveredBy(Filter!Merged(rules, p), m)
  BY <1>4 DEF Serves
<1>7. ASSUME NEW r \in rules PROVE CoveredBy(Filter!Merged(rules, p), r)
  <2>1. CASE r \in kept
    BY <1>4, <2>1 DEF Serves
  <2>2. CASE r = p[1] \/ r = p[2]
    BY <1>2, <1>5, <1>6, <2>2
  <2>q. QED
    BY <2>1, <2>2
<1>q. QED
  BY <1>2, <1>4, <1>5, <1>6, <1>7 DEF Serves

(* Each table that one more rule can lead to serves what the table served  *)
(* and the rule (co_rtt_add_ingress_rule_locked()).                        *)
LEMMA AddServes ==
    ASSUME NEW rules, rules \subseteq Filter!RuleSet, NEW rule \in Filter!RuleSet,
        NEW wider \in Filter!Add(rules, rule)
    PROVE  wider \subseteq Filter!RuleSet /\ Serves(wider, rules \cup {rule})
<1>1. Serves(rules, rules)
  BY CoversItself DEF Serves, CoveredBy
<1>2. CASE \E r \in rules : Filter!Covers(r, rule)
  BY <1>1, <1>2 DEF Filter!Add, Serves, CoveredBy
<1>3. CASE wider = Filter!Compact(rules \cup {rule})
  BY <1>3, CompactServes
<1>4. CASE wider = rules \cup {rule}
  BY <1>4, CoversItself DEF Serves, CoveredBy
<1>5. CASE \E p \in Filter!Pairs(rules, {rule}) : wider = Filter!Merged(rules, p)
  <2>1. PICK p \in Filter!Pairs(rules, {rule}) : wider = Filter!Merged(rules, p)
    BY <1>5
  <2>2. p[2] = rule /\ {rule} \subseteq Filter!RuleSet
    BY DEF Filter!Pairs
  <2>q. QED
    BY <2>1, <2>2, MergedServes DEF Serves
<1>6. CASE \E p \in Filter!Pairs(rules, rules) : wider = Filter!Merged(rules, p) \cup {rule}
  <2>1. PICK p \in Filter!Pairs(rules, rules) : wider = Filter!Merged(rules, p) \cup {rule}
    BY <1>6
  <2>2. Filter!Merged(rules, p) \subseteq Filter!RuleSet /\ Serves(Filter!Merged(rules, p), rules)
    BY MergedServes
  <2>q. QED
    BY <2>1, <2>2, CoversItself DEF Serves, CoveredBy
<1>7. \A q : Filter!Narrowest(q) \subseteq q
  BY DEF Filter!Narrowest
<1>q. QED
  BY <1>2, <1>3, <1>4, <1>5, <1>6, <1>7 DEF Filter!Add

(* The slots a rule was compiled from, up to some slot. *)
LEMMA CompiledIs ==
    ASSUME NEW rules
    PROVE  LET Up(f, n) ==
                 f = [i \in 0 .. n |->
                        IF i = 0 THEN {{}}
                        ELSE IF rules[i] = NoRule THEN f[i - 1]
                        ELSE UNION {Filter!Add(t, rules[i]) : t \in f[i - 1]}]
           IN  \E f : Up(f, Filter!Cardinality(Filter!Slots)) /\ Filter!Compiled(rules) =
               f[Filter!Cardinality(Filter!Slots)]
<1> DEFINE Value(f, i) == IF i = 0 THEN {{}}
                          ELSE IF rules[i] = NoRule THEN f[i - 1]
                          ELSE UNION {Filter!Add(t, rules[i]) : t \in f[i - 1]}
           Up(f, n) == f = [i \in 0 .. n |-> Value(f, i)]
           c == Filter!Cardinality(Filter!Slots)
           Short == {n \in Nat : ~ \E f : Up(f, n)}
<1>1. c \in Nat
  BY NodeAssumption, FS_CardinalityType, FilterLibrary DEF Filter!FilterAssumption
<1>2. \E f : Up(f, 0)
  <2> DEFINE f == [i \in 0 .. 0 |-> {{}}]
  <2>1. f = [i \in 0 .. 0 |-> Value(f, i)]
    OBVIOUS
  <2>q. QED
    BY <2>1
<1>3. ASSUME NEW n \in Nat, \E f : Up(f, n) PROVE \E f : Up(f, n + 1)
  <2>1. PICK f : Up(f, n)
    BY <1>3
  <2> DEFINE g == [i \in 0 .. n + 1 |-> IF i = n + 1 THEN Value(f, n + 1) ELSE f[i]]
  <2>2. \A i \in 0 .. n : g[i] = f[i] /\ f[i] = Value(f, i)
    <3> HIDE DEF Value
    <3>q. QED
      BY <2>1
  <2>3. \A i \in 0 .. n + 1 : i # 0 => g[i - 1] = f[i - 1]
    <3> HIDE DEF Value
    <3>q. QED
      OBVIOUS
  <2>4. \A i \in 0 .. n + 1 : Value(g, i) = Value(f, i)
    <3> HIDE DEF g
    <3>q. QED
      BY <2>3
  <2>5. \A i \in 0 .. n + 1 : g[i] = Value(g, i)
    <3>1. \A i \in 0 .. n + 1 : g[i] = IF i = n + 1 THEN Value(f, n + 1) ELSE f[i]
      <4> HIDE DEF Value
      <4>q. QED
        OBVIOUS
    <3> HIDE DEF Value, g
    <3>2. ASSUME NEW i \in 0 .. n + 1, i # n + 1 PROVE i \in 0 .. n
      BY <3>2
    <3>q. QED
      BY <2>2, <2>4, <3>1, <3>2
  <2>6. Up(g, n + 1)
    <3> HIDE DEF Value
    <3>q. QED
      BY <2>5
  <2> HIDE DEF g, Up
  <2>q. QED
    BY <2>6
<1>4. \E f : Up(f, c)
  <2> HIDE DEF Up
  <2>1. CASE Short = {}
    BY <1>1, <2>1
  <2>2. CASE Short # {}
    <3>1. PICK n \in Short : \A m \in Short : n <= m
      BY <2>2, LeastNatural
    <3>2. n # 0 /\ n \in Nat
      BY <1>2, <3>1
    <3>3. n - 1 \in Nat /\ n - 1 \notin Short /\ n = (n - 1) + 1
      BY <3>1, <3>2
    <3>4. \E f : Up(f, (n - 1) + 1)
      BY <1>3, <3>3
    <3>q. QED
      BY <3>1, <3>3, <3>4
  <2>q. QED
    BY <2>1, <2>2
<1> DEFINE up == CHOOSE f : Up(f, c)
<1>5. Up(up, c)
  <2> HIDE DEF Up
  <2>q. QED
    BY <1>4
<1>6. Filter!Compiled(rules) = up[c]
  BY DEF Filter!Compiled
<1>q. QED
  BY <1>5, <1>6

(* Whatever merges the heuristic chooses, a compiled table serves every    *)
(* slot (co_rtt_compile_ingress_rules_locked()).                           *)
LEMMA CompiledServes ==
    ASSUME NEW rules, \A i \in Filter!Slots : rules[i] \in Filter!RuleSet \cup {NoRule},
           NEW t \in Filter!Compiled(rules)
    PROVE  t \subseteq Filter!RuleSet /\ ServesSlots(t, rules)
<1> DEFINE c == Filter!Cardinality(Filter!Slots)
           Right(s, n) == /\ s \subseteq Filter!RuleSet
                          /\ \A i \in 1 .. n : rules[i] # NoRule => CoveredBy(s, rules[i])
<1>1. c \in Nat /\ Filter!Slots = 1 .. c
  BY NodeAssumption, FS_CardinalityType, FilterLibrary DEF Filter!FilterAssumption
<1>2. PICK f : /\ f = [i \in 0 .. c |->
                         IF i = 0 THEN {{}}
                         ELSE IF rules[i] = NoRule THEN f[i - 1]
                         ELSE UNION {Filter!Add(s, rules[i]) : s \in f[i - 1]}]
               /\ Filter!Compiled(rules) = f[c]
  BY CompiledIs
<1>3. f[0] = {{}} /\ Filter!Compiled(rules) = f[c]
  BY <1>1, <1>2
<1>4. \A n \in 0 .. c : n # 0 =>
        f[n] = IF rules[n] = NoRule THEN f[n - 1] ELSE UNION {Filter!Add(s, rules[n]) :
            s \in f[n - 1]}
  BY <1>1, <1>2
<1> DEFINE Wrong == {n \in Nat : n <= c /\ ~ \A s \in f[n] : Right(s, n)}
<1>5. 0 \notin Wrong
  <2>1. \A s \in f[0] : Right(s, 0)
    BY <1>3
  <2> HIDE DEF Right
  <2>q. QED
    BY <2>1
<1>6. ASSUME NEW n \in Nat, n # 0, n <= c, \A s \in f[n - 1] : Right(s, n - 1)
      PROVE  \A s \in f[n] : Right(s, n)
  <2>1. n \in 0 .. c /\ n \in Filter!Slots
    BY <1>1, <1>6
  <2>2. CASE rules[n] = NoRule
    <3>1. f[n] = f[n - 1]
      BY <1>4, <1>6, <2>1, <2>2
    <3>2. ASSUME NEW s, Right(s, n - 1) PROVE Right(s, n)
      <4>1. ASSUME NEW i \in 1 .. n, rules[i] # NoRule PROVE CoveredBy(s, rules[i])
        <5>1. i \in 1 .. n - 1
          BY <1>6, <2>2, <4>1
        <5>q. QED
          BY <3>2, <4>1, <5>1
      <4>q. QED
        BY <3>2, <4>1
    <3> HIDE DEF Right
    <3>q. QED
      BY <1>6, <3>1, <3>2
  <2>3. CASE rules[n] # NoRule
    <3>1. rules[n] \in Filter!RuleSet
      BY <2>1, <2>3
    <3>2. ASSUME NEW s \in f[n] PROVE Right(s, n)
      <4>0. f[n] = UNION {Filter!Add(u, rules[n]) : u \in f[n - 1]}
        <5> HIDE DEF Right
        <5>q. QED
          BY <1>4, <1>6, <2>1, <2>3
      <4>1. PICK old \in f[n - 1] : s \in Filter!Add(old, rules[n])
        <5> HIDE DEF Right
        <5>q. QED
          BY <3>2, <4>0
      <4>2. Right(old, n - 1)
        BY <1>6
      <4>3. s \subseteq Filter!RuleSet /\ Serves(s, old \cup {rules[n]})
        BY <3>1, <4>1, <4>2, AddServes
      <4>4. ASSUME NEW i \in 1 .. n, rules[i] # NoRule PROVE CoveredBy(s, rules[i])
        <5>1. CASE i = n
          BY <4>3, <5>1 DEF Serves
        <5>2. CASE i # n
          <6>1. i \in 1 .. n - 1
            BY <1>6, <5>2
          <6>2. PICK o \in old : Filter!Covers(o, rules[i])
            BY <4>2, <4>4, <6>1 DEF CoveredBy
          <6>3. PICK w \in s : Filter!Covers(w, o)
            BY <4>3, <6>2 DEF Serves, CoveredBy
          <6>q. QED
            BY <6>2, <6>3, CoversThrough DEF CoveredBy
        <5>q. QED
          BY <5>1, <5>2
      <4>q. QED
        BY <4>3, <4>4
    <3>q. QED
      BY <3>2
  <2>q. QED
    BY <2>2, <2>3
<1>7. Wrong = {}
  <2> HIDE DEF Right
  <2>1. CASE Wrong # {}
    <3>1. PICK n \in Wrong : \A m \in Wrong : n <= m
      BY <2>1, LeastNatural
    <3>2. n # 0 /\ n \in Nat /\ n <= c
      BY <1>5, <3>1
    <3>3. n - 1 \in Nat /\ n - 1 \notin Wrong /\ n - 1 <= c
      BY <1>1, <3>1, <3>2
    <3>q. QED
      BY <1>6, <3>1, <3>2, <3>3
  <2>q. QED
    BY <2>1
<1>8. Right(t, c)
  <2> HIDE DEF Right
  <2>q. QED
    BY <1>1, <1>3, <1>7
<1>q. QED
  BY <1>1, <1>8 DEF ServesSlots

LEMMA OpenIsARule ==
    ASSUME NEW t \in BOOLEAN
    PROVE  Filter!Open(t) \in Filter!RuleSet
<1>1. Filter!Open(t) = [rtr |-> t, fixed |-> [b \in {} |-> [c \in Filter!Bits |-> 0][b]]]
  BY FilterLibrary DEF Filter!Open, Restrict
<1>2. [b \in {} |-> [c \in Filter!Bits |-> 0][b]] \in [{} -> {0, 1}] /\ {} \in SUBSET Filter!Bits
  OBVIOUS
<1>q. QED
  BY <1>1, <1>2, IsARule

(* The broad table serves every slot                                       *)
(* (co_rtt_build_broad_fallback_locked()).                                 *)
LEMMA BroadServes ==
    ASSUME NEW rules, \A i \in Filter!Slots : rules[i] \in Filter!RuleSet \cup {NoRule}
    PROVE  Filter!Broad(rules) \subseteq Filter!RuleSet /\ ServesSlots(Filter!Broad(rules), rules)
<1> DEFINE types == {rules[i].rtr : i \in {j \in Filter!Slots : rules[j] # NoRule}}
<1>1. types \subseteq BOOLEAN
  BY RuleParts
<1>2. ASSUME NEW r \in Filter!RuleSet PROVE Filter!Covers(Filter!Open(r.rtr), r)
  <2>1. Filter!Open(r.rtr).rtr = r.rtr /\ DOMAIN Filter!Open(r.rtr).fixed = {}
    BY FilterLibrary DEF Filter!Open, Restrict
  <2>q. QED
    BY <2>1 DEF Filter!Covers
<1>3. Filter!Broad(rules) = {Filter!Open(t) : t \in IF types = {} THEN {FALSE} ELSE types}
  BY DEF Filter!Broad
<1>4. Filter!Broad(rules) \subseteq Filter!RuleSet
  <2> HIDE DEF types
  <2>1. FALSE \in BOOLEAN
    OBVIOUS
  <2>q. QED
    BY <1>1, <1>3, <2>1, OpenIsARule
<1>5. ASSUME NEW i \in Filter!Slots, rules[i] # NoRule PROVE CoveredBy(Filter!Broad(rules),
    rules[i])
  <2>1. rules[i] \in Filter!RuleSet /\ rules[i].rtr \in types
    BY <1>5
  <2>2. Filter!Open(rules[i].rtr) \in Filter!Broad(rules)
    BY <1>3, <2>1
  <2>q. QED
    BY <1>2, <2>1, <2>2 DEF CoveredBy
<1>q. QED
  BY <1>4, <1>5 DEF ServesSlots

-----------------------------------------------------------------------------
(* Who holds rxRuleMutex, and what that thread has compiled.               *)
MutexInv ==
    /\ \A t \in Configurers : pc[t] \in {"write", "mark", "program", "programForced"} <=> mutex = t
    /\ \A t \in Configurers : Filter!Programming(t) => dirty /\ ServesSlots(table, slot)
StartInv ==
    /\ ~normal => dirty /\ \A t \in Configurers \ {Main} : pc[t] = "idle"
    /\ \A t \in Configurers : pc[t] \in {"force", "programForced"} => t = Main /\ ~normal
    /\ ~normal => pc[Main] \notin {"check", "lock", "program"}

FilterInv == Filter!TypeOK /\ MutexInv /\ StartInv /\ Filter!NothingRequiredIsFiltered /\
    Filter!TableFits

LEMMA SlotsAreRules ==
    ASSUME Filter!TypeOK
    PROVE  \A i \in Filter!Slots : slot[i] \in Filter!RuleSet \cup {NoRule}
BY NodeAssumption DEF Filter!TypeOK, Filter!FilterAssumption

(* What a thread compiles serves the slots. *)
LEMMA CompileServes ==
    ASSUME FilterInv, NEW t \in Configurers, Filter!Compile(t)
    PROVE  table' \subseteq Filter!RuleSet /\ ServesSlots(table', slot) /\ broad' \in BOOLEAN
<1>1. CASE Filter!Compiled(slot) \in {{}, {{}}}
  <2>1. table' = Filter!Broad(slot)
    BY <1>1 DEF Filter!Compile
  <2>2. broad' \in BOOLEAN
    BY <1>1, Zenon DEF Filter!Compile
  <2>q. QED
    BY <2>1, <2>2, SlotsAreRules, BroadServes DEF FilterInv
<1>2. CASE Filter!Compiled(slot) \notin {{}, {{}}}
  <2>1. table' \in Filter!Compiled(slot)
    BY <1>2 DEF Filter!Compile
  <2>2. broad' \in BOOLEAN
    BY <1>2, Zenon DEF Filter!Compile
  <2>q. QED
    BY <2>1, <2>2, SlotsAreRules, CompiledServes DEF FilterInv
<1>q. QED
  BY <1>1, <1>2

LEMMA FallBackServes ==
    ASSUME FilterInv, NEW t \in Configurers, Filter!FallBack(t)
    PROVE  table' \subseteq Filter!RuleSet /\ ServesSlots(table', slot) /\ broad' \in BOOLEAN
<1>1. table' = Filter!Broad(slot)
  BY DEF Filter!FallBack
<1>2. broad' \in BOOLEAN
  BY Zenon DEF Filter!FallBack
<1>q. QED
  BY <1>1, <1>2, SlotsAreRules, BroadServes DEF FilterInv

(* Every step keeps the types.                                             *)
LEMMA FilterTypeOKStep ==
    ASSUME FilterInv, [Filter!Next]_(Filter!vars)
    PROVE  Filter!TypeOK'
<1>0. CASE UNCHANGED Filter!vars
  BY <1>0 DEF Filter!vars, Filter!TypeOK, FilterInv, Filter!FilterAssumption, MutexInv
<1>1. CASE Filter!SetNormalMode
  BY <1>1, NodeAssumption DEF Filter!SetNormalMode, Filter!Goto, Filter!TypeOK, FilterInv,
     Filter!FilterAssumption,
     MutexInv
<1>2. CASE Filter!Process
  BY <1>2, NodeAssumption DEF Filter!Process, Filter!Retried, Filter!Goto, Filter!TypeOK,
     FilterInv, Filter!FilterAssumption,
     MutexInv
<1>3. ASSUME NEW t \in Configurers, Filter!BufferInit(t) PROVE Filter!TypeOK'
  BY <1>3, NodeAssumption DEF Filter!BufferInit, Filter!MutexFree, Filter!Goto, Filter!TypeOK,
     FilterInv,
     Filter!FilterAssumption, MutexInv
<1>4. ASSUME NEW t \in Configurers, Filter!WriteRule(t) PROVE Filter!TypeOK'
  BY <1>4, NodeAssumption DEF Filter!WriteRule, Filter!Goto, Filter!TypeOK, FilterInv,
     Filter!FilterAssumption, MutexInv
<1>5. ASSUME NEW t \in Configurers, Filter!MarkDirty(t) PROVE Filter!TypeOK'
  <2>1. dirty' \in BOOLEAN
    BY <1>5, Zenon DEF Filter!MarkDirty, FilterInv, Filter!TypeOK
  <2>q. QED
    BY <1>5, <2>1, NodeAssumption
    DEF Filter!MarkDirty, Filter!Goto, Filter!AfterWrite, Filter!Programming, FilterInv,
        Filter!TypeOK, Filter!FilterAssumption
<1>6. ASSUME NEW t \in Configurers, Filter!FastPath(t) PROVE Filter!TypeOK'
  BY <1>6, NodeAssumption DEF Filter!FastPath, Filter!Goto, Filter!TypeOK, FilterInv,
     Filter!FilterAssumption, MutexInv
<1>7. ASSUME NEW t \in Configurers, Filter!Recheck(t) PROVE Filter!TypeOK'
  BY <1>7, NodeAssumption DEF Filter!Recheck, Filter!MutexFree, Filter!Goto, Filter!TypeOK,
     FilterInv, Filter!FilterAssumption,
     MutexInv
<1>8. ASSUME NEW t \in Configurers, Filter!Compile(t) PROVE Filter!TypeOK'
  <2>1. table' \subseteq Filter!RuleSet /\ ServesSlots(table', slot) /\ broad' \in BOOLEAN
    BY <1>8, CompileServes
  <2>q. QED
    BY <1>8, <2>1, NodeAssumption
    DEF Filter!Compile, Filter!Goto, Filter!MutexFree, Filter!Programming, FilterInv,
        Filter!TypeOK, Filter!FilterAssumption
<1>9. ASSUME NEW t \in Configurers, Filter!Apply(t) PROVE Filter!TypeOK'
  <2>1. dirty' \in BOOLEAN /\ inUse' \in BOOLEAN /\ broad' \in BOOLEAN /\ normal' \in BOOLEAN
    BY <1>9, Zenon DEF Filter!Apply, FilterInv, Filter!TypeOK
  <2>q. QED
    BY <1>9, <2>1, NodeAssumption
    DEF Filter!Apply, Filter!Goto, Filter!Overwritten, Filter!Programming, FilterInv,
        Filter!TypeOK, Filter!FilterAssumption
<1>10. ASSUME NEW t \in Configurers, Filter!FallBack(t) PROVE Filter!TypeOK'
  <2>1. table' \subseteq Filter!RuleSet /\ ServesSlots(table', slot) /\ broad' \in BOOLEAN
    BY <1>10, FallBackServes
  <2>q. QED
    BY <1>10, <2>1, NodeAssumption
    DEF Filter!FallBack, Filter!Goto, Filter!MutexFree, Filter!Programming, FilterInv,
        Filter!TypeOK, Filter!FilterAssumption
<1>11. ASSUME NEW t \in Configurers, Filter!GiveUp(t) PROVE Filter!TypeOK'
  <2>1. inUse' \in BOOLEAN /\ broad' \in BOOLEAN
    BY <1>11, Zenon DEF Filter!GiveUp, FilterInv, Filter!TypeOK
  <2>q. QED
    BY <1>11, <2>1, NodeAssumption
    DEF Filter!GiveUp, Filter!Goto, Filter!StillDirty, Filter!Programming, FilterInv,
        Filter!TypeOK, Filter!FilterAssumption
<1>q. QED
  BY <1>0, <1>1, <1>2, <1>3, <1>4, <1>5, <1>6, <1>7, <1>8, <1>9, <1>10, <1>11 DEF Filter!Next,
     Filter!Step

(* Threads take turns, and a rebuild that is under way serves the slots as *)
(* they are.                                                               *)
LEMMA MutexInvStep ==
    ASSUME FilterInv, [Filter!Next]_(Filter!vars)
    PROVE  MutexInv'
<1>0. CASE UNCHANGED Filter!vars
  BY <1>0 DEF Filter!vars, MutexInv, Filter!Programming, FilterInv, Filter!FilterAssumption,
     Filter!TypeOK, StartInv
<1>1. CASE Filter!SetNormalMode
  BY <1>1, NodeAssumption DEF Filter!SetNormalMode, Filter!Goto, MutexInv, Filter!Programming,
     FilterInv,
     Filter!FilterAssumption, Filter!TypeOK, StartInv
<1>2. CASE Filter!Process
  BY <1>2, NodeAssumption DEF Filter!Process, Filter!Retried, Filter!Goto, MutexInv,
     Filter!Programming, FilterInv,
     Filter!FilterAssumption, Filter!TypeOK, StartInv
<1>3. ASSUME NEW t \in Configurers, Filter!BufferInit(t) PROVE MutexInv'
  BY <1>3, NodeAssumption DEF Filter!BufferInit, Filter!MutexFree, Filter!Goto, MutexInv,
     Filter!Programming, FilterInv,
     Filter!FilterAssumption, Filter!TypeOK, StartInv
<1>4. ASSUME NEW t \in Configurers, Filter!WriteRule(t) PROVE MutexInv'
  BY <1>4, NodeAssumption DEF Filter!WriteRule, Filter!Goto, MutexInv, Filter!Programming,
     FilterInv,
     Filter!FilterAssumption, Filter!TypeOK, StartInv
<1>5. ASSUME NEW t \in Configurers, Filter!MarkDirty(t) PROVE MutexInv'
  BY <1>5, NodeAssumption DEF Filter!MarkDirty, Filter!Goto, Filter!AfterWrite, MutexInv,
     Filter!Programming, FilterInv,
     Filter!FilterAssumption, Filter!TypeOK, StartInv
<1>6. ASSUME NEW t \in Configurers, Filter!FastPath(t) PROVE MutexInv'
  BY <1>6, NodeAssumption DEF Filter!FastPath, Filter!Goto, MutexInv, Filter!Programming, FilterInv,
     Filter!FilterAssumption, Filter!TypeOK, StartInv
<1>7. ASSUME NEW t \in Configurers, Filter!Recheck(t) PROVE MutexInv'
  BY <1>7, NodeAssumption DEF Filter!Recheck, Filter!MutexFree, Filter!Goto, MutexInv,
     Filter!Programming, FilterInv,
     Filter!FilterAssumption, Filter!TypeOK, StartInv
<1>8. ASSUME NEW t \in Configurers, Filter!Compile(t) PROVE MutexInv'
  <2>1. table' \subseteq Filter!RuleSet /\ ServesSlots(table', slot) /\ broad' \in BOOLEAN
    BY <1>8, CompileServes
  <2>q. QED
    BY <1>8, <2>1, NodeAssumption
    DEF Filter!Compile, Filter!Goto, Filter!MutexFree, Filter!Programming, FilterInv,
        Filter!TypeOK, MutexInv, StartInv, Filter!FilterAssumption
<1>9. ASSUME NEW t \in Configurers, Filter!Apply(t) PROVE MutexInv'
  BY <1>9, NodeAssumption DEF Filter!Apply, Filter!Programming, Filter!Overwritten, Filter!Goto,
     MutexInv, FilterInv,
     Filter!FilterAssumption, Filter!TypeOK, StartInv
<1>10. ASSUME NEW t \in Configurers, Filter!FallBack(t) PROVE MutexInv'
  <2>1. table' \subseteq Filter!RuleSet /\ ServesSlots(table', slot) /\ broad' \in BOOLEAN
    BY <1>10, FallBackServes
  <2>q. QED
    BY <1>10, <2>1, NodeAssumption
    DEF Filter!FallBack, Filter!Goto, Filter!MutexFree, Filter!Programming, FilterInv,
        Filter!TypeOK, MutexInv, StartInv, Filter!FilterAssumption
<1>11. ASSUME NEW t \in Configurers, Filter!GiveUp(t) PROVE MutexInv'
  BY <1>11, NodeAssumption DEF Filter!GiveUp, Filter!Programming, Filter!StillDirty, Filter!Goto,
     MutexInv, FilterInv,
     Filter!FilterAssumption, Filter!TypeOK, StartInv
<1>q. QED
  BY <1>0, <1>1, <1>2, <1>3, <1>4, <1>5, <1>6, <1>7, <1>8, <1>9, <1>10, <1>11 DEF Filter!Next,
     Filter!Step

(* Before normal mode co_main is alone, and the filter dirty.              *)
LEMMA StartInvStep ==
    ASSUME FilterInv, [Filter!Next]_(Filter!vars)
    PROVE  StartInv'
<1>0. CASE UNCHANGED Filter!vars
  BY <1>0 DEF Filter!vars, StartInv, FilterInv, Filter!FilterAssumption, Filter!TypeOK, MutexInv,
     Filter!Programming
<1>1. ASSUME NEW t \in Configurers,
             Filter!FallBack(t)
      PROVE  StartInv'
  BY <1>1 DEF Filter!FallBack, StartInv, FilterInv, Filter!FilterAssumption, Filter!TypeOK,
     MutexInv, Filter!Programming
<1>2. CASE Filter!SetNormalMode
  BY <1>2, NodeAssumption DEF Filter!SetNormalMode, Filter!Goto, StartInv, FilterInv,
     Filter!FilterAssumption,
     Filter!TypeOK, MutexInv, Filter!Programming
<1>3. CASE Filter!Process
  BY <1>3, NodeAssumption DEF Filter!Process, Filter!Retried, Filter!Goto, StartInv, FilterInv,
     Filter!FilterAssumption,
     Filter!TypeOK, MutexInv, Filter!Programming
<1>4. ASSUME NEW t \in Configurers, Filter!BufferInit(t) PROVE StartInv'
  BY <1>4, NodeAssumption DEF Filter!BufferInit, Filter!MutexFree, Filter!Goto, StartInv, FilterInv,
     Filter!FilterAssumption, Filter!TypeOK, MutexInv, Filter!Programming
<1>5. ASSUME NEW t \in Configurers, Filter!WriteRule(t) PROVE StartInv'
  BY <1>5, NodeAssumption DEF Filter!WriteRule, Filter!Goto, StartInv, FilterInv,
     Filter!FilterAssumption, Filter!TypeOK,
     MutexInv, Filter!Programming
<1>6. ASSUME NEW t \in Configurers, Filter!MarkDirty(t) PROVE StartInv'
  BY <1>6, NodeAssumption DEF Filter!MarkDirty, Filter!Goto, Filter!AfterWrite, StartInv, FilterInv,
     Filter!FilterAssumption, Filter!TypeOK, MutexInv, Filter!Programming
<1>7. ASSUME NEW t \in Configurers, Filter!FastPath(t) PROVE StartInv'
  BY <1>7, NodeAssumption DEF Filter!FastPath, Filter!Goto, StartInv, FilterInv,
     Filter!FilterAssumption, Filter!TypeOK,
     MutexInv, Filter!Programming
<1>8. ASSUME NEW t \in Configurers, Filter!Recheck(t) PROVE StartInv'
  BY <1>8, NodeAssumption DEF Filter!Recheck, Filter!MutexFree, Filter!Goto, StartInv, FilterInv,
     Filter!FilterAssumption, Filter!TypeOK, MutexInv, Filter!Programming
<1>9. ASSUME NEW t \in Configurers, Filter!Compile(t) PROVE StartInv'
  BY <1>9, NodeAssumption DEF Filter!Compile, Filter!MutexFree, Filter!Goto, StartInv, FilterInv,
     Filter!FilterAssumption, Filter!TypeOK, MutexInv, Filter!Programming
<1>10. ASSUME NEW t \in Configurers, Filter!Apply(t) PROVE StartInv'
  BY <1>10, NodeAssumption DEF Filter!Apply, Filter!Programming, Filter!Overwritten, Filter!Goto,
     StartInv, FilterInv,
     Filter!FilterAssumption, Filter!TypeOK, MutexInv
<1>11. ASSUME NEW t \in Configurers, Filter!GiveUp(t) PROVE StartInv'
  BY <1>11, NodeAssumption DEF Filter!GiveUp, Filter!Programming, Filter!StillDirty, Filter!Goto,
     StartInv, FilterInv,
     Filter!FilterAssumption, Filter!TypeOK, MutexInv
<1>q. QED
  BY <1>0, <1>1, <1>2, <1>3, <1>4, <1>5, <1>6, <1>7, <1>8, <1>9, <1>10, <1>11 DEF Filter!Next,
     Filter!Step

(* A clean filter admits what the slots ask for.                           *)
LEMMA NothingRequiredStep ==
    ASSUME FilterInv, [Filter!Next]_(Filter!vars)
    PROVE  Filter!NothingRequiredIsFiltered'
<1>0. CASE UNCHANGED Filter!vars
  BY <1>0 DEF Filter!vars, Filter!NothingRequiredIsFiltered, Filter!Admitted, FilterInv,
     Filter!FilterAssumption, Filter!TypeOK,
     MutexInv, Filter!Programming
<1>1. ASSUME NEW t \in Configurers,
             Filter!FallBack(t)
      PROVE  Filter!NothingRequiredIsFiltered'
  BY <1>1 DEF Filter!FallBack, Filter!NothingRequiredIsFiltered, Filter!Admitted, FilterInv,
     Filter!FilterAssumption,
     Filter!TypeOK, MutexInv, Filter!Programming
<1>2. CASE Filter!SetNormalMode
  BY <1>2, NodeAssumption DEF Filter!SetNormalMode, Filter!Goto,
     Filter!NothingRequiredIsFiltered, Filter!Admitted,
     FilterInv, Filter!FilterAssumption, Filter!TypeOK, MutexInv, Filter!Programming
<1>3. CASE Filter!Process
  BY <1>3, NodeAssumption DEF Filter!Process, Filter!Retried, Filter!Goto,
     Filter!NothingRequiredIsFiltered,
     Filter!Admitted, FilterInv, Filter!FilterAssumption, Filter!TypeOK, MutexInv,
         Filter!Programming
<1>4. ASSUME NEW t \in Configurers, Filter!BufferInit(t) PROVE Filter!NothingRequiredIsFiltered'
  BY <1>4, NodeAssumption DEF Filter!BufferInit, Filter!MutexFree, Filter!Goto,
     Filter!NothingRequiredIsFiltered,
     Filter!Admitted, FilterInv, Filter!FilterAssumption, Filter!TypeOK, MutexInv,
         Filter!Programming
<1>5. ASSUME NEW t \in Configurers, Filter!WriteRule(t) PROVE Filter!NothingRequiredIsFiltered'
  BY <1>5, NodeAssumption DEF Filter!WriteRule, Filter!Goto, Filter!NothingRequiredIsFiltered,
     Filter!Admitted,
     FilterInv, Filter!FilterAssumption, Filter!TypeOK, MutexInv, Filter!Programming
<1>6. ASSUME NEW t \in Configurers, Filter!MarkDirty(t) PROVE Filter!NothingRequiredIsFiltered'
  BY <1>6, NodeAssumption DEF Filter!MarkDirty, Filter!Goto, Filter!AfterWrite,
     Filter!NothingRequiredIsFiltered,
     Filter!Admitted, FilterInv, Filter!FilterAssumption, Filter!TypeOK, MutexInv,
         Filter!Programming
<1>7. ASSUME NEW t \in Configurers, Filter!FastPath(t) PROVE Filter!NothingRequiredIsFiltered'
  BY <1>7, NodeAssumption DEF Filter!FastPath, Filter!Goto, Filter!NothingRequiredIsFiltered,
     Filter!Admitted, FilterInv,
     Filter!FilterAssumption, Filter!TypeOK, MutexInv, Filter!Programming
<1>8. ASSUME NEW t \in Configurers, Filter!Recheck(t) PROVE Filter!NothingRequiredIsFiltered'
  BY <1>8, NodeAssumption DEF Filter!Recheck, Filter!MutexFree, Filter!Goto,
     Filter!NothingRequiredIsFiltered,
     Filter!Admitted, FilterInv, Filter!FilterAssumption, Filter!TypeOK, MutexInv,
         Filter!Programming
<1>9. ASSUME NEW t \in Configurers, Filter!Compile(t) PROVE Filter!NothingRequiredIsFiltered'
  BY <1>9, NodeAssumption DEF Filter!Compile, Filter!MutexFree, Filter!Goto,
     Filter!NothingRequiredIsFiltered,
     Filter!Admitted, FilterInv, Filter!FilterAssumption, Filter!TypeOK, MutexInv,
         Filter!Programming
<1>10. ASSUME NEW t \in Configurers, Filter!Apply(t) PROVE Filter!NothingRequiredIsFiltered'
  <2>1. ServesSlots(table, slot) /\ hardware' = table /\ slot' = slot
    BY <1>10 DEF Filter!Apply, Filter!Overwritten, FilterInv, MutexInv
  <2>q. QED
    BY <2>1 DEF Filter!NothingRequiredIsFiltered, Filter!Admitted, ServesSlots, CoveredBy
<1>11. ASSUME NEW t \in Configurers, Filter!GiveUp(t) PROVE Filter!NothingRequiredIsFiltered'
  BY <1>11, NodeAssumption DEF Filter!GiveUp, Filter!Programming, Filter!StillDirty, Filter!Goto,
     Filter!NothingRequiredIsFiltered, Filter!Admitted, FilterInv, Filter!FilterAssumption,
         Filter!TypeOK, MutexInv
<1>q. QED
  BY <1>0, <1>1, <1>2, <1>3, <1>4, <1>5, <1>6, <1>7, <1>8, <1>9, <1>10, <1>11 DEF Filter!Next,
     Filter!Step

(* A clean filter is in use, and fits the banks.                           *)
LEMMA TableFitsStep ==
    ASSUME FilterInv, [Filter!Next]_(Filter!vars)
    PROVE  Filter!TableFits'
<1>0. CASE UNCHANGED Filter!vars
  BY <1>0 DEF Filter!vars, Filter!TableFits, FilterInv, Filter!FilterAssumption, Filter!TypeOK,
     MutexInv, Filter!Programming
<1>1. CASE Filter!SetNormalMode \/ Filter!Process
  BY <1>1 DEF Filter!SetNormalMode, Filter!Process, Filter!TableFits, FilterInv,
     Filter!FilterAssumption, Filter!TypeOK,
     MutexInv, Filter!Programming
<1>2. ASSUME NEW t \in Configurers,
             Filter!BufferInit(t) \/ Filter!WriteRule(t) \/ Filter!FastPath(t) \/
                 Filter!Recheck(t) \/ Filter!Compile(t) \/
                Filter!FallBack(t)
      PROVE  Filter!TableFits'
  BY <1>2 DEF Filter!BufferInit, Filter!WriteRule, Filter!FastPath, Filter!Recheck,
     Filter!Compile, Filter!FallBack, Filter!TableFits,
     FilterInv, Filter!FilterAssumption, Filter!TypeOK, MutexInv, Filter!Programming
<1>3. ASSUME NEW t \in Configurers, Filter!MarkDirty(t) PROVE Filter!TableFits'
  BY <1>3, NodeAssumption DEF Filter!MarkDirty, Filter!Goto, Filter!AfterWrite, Filter!TableFits,
     FilterInv,
     Filter!FilterAssumption, Filter!TypeOK, MutexInv, Filter!Programming
<1>4. ASSUME NEW t \in Configurers, Filter!Apply(t) PROVE Filter!TableFits'
  BY <1>4, NodeAssumption DEF Filter!Apply, Filter!Programming, Filter!Overwritten, Filter!Goto,
     Filter!TableFits, FilterInv,
     Filter!FilterAssumption, Filter!TypeOK, MutexInv
<1>5. ASSUME NEW t \in Configurers, Filter!GiveUp(t) PROVE Filter!TableFits'
  BY <1>5, NodeAssumption DEF Filter!GiveUp, Filter!Programming, Filter!StillDirty, Filter!Goto,
     Filter!TableFits, FilterInv,
     Filter!FilterAssumption, Filter!TypeOK, MutexInv
<1>q. QED
  BY <1>0, <1>1, <1>2, <1>3, <1>4, <1>5 DEF Filter!Next, Filter!Step

LEMMA FilterInvariant == Spec => []FilterInv
<1>1. Filter!Init => FilterInv
  <2>1. Filter!Init => dirty \in BOOLEAN /\ normal \in BOOLEAN /\ inUse \in BOOLEAN /\
      broad \in BOOLEAN
    BY Zenon DEF Filter!Init
  <2>2. Filter!Open(FALSE) \in Filter!RuleSet /\ Filter!Open(TRUE) \in Filter!RuleSet
    BY OpenIsARule
  <2>3. Filter!Init => Filter!TypeOK
    BY <2>1, <2>2, NodeAssumption DEF Filter!Init, Filter!TypeOK, Filter!FilterAssumption
  <2>q. QED
    BY <2>3, NodeAssumption
    DEF Filter!Init, FilterInv, MutexInv, StartInv, Filter!NothingRequiredIsFiltered,
        Filter!TableFits, Filter!Programming, Filter!FilterAssumption
<1>2. FilterInv /\ [Filter!Next]_(Filter!vars) => FilterInv'
  BY FilterTypeOKStep, MutexInvStep, StartInvStep, NothingRequiredStep, TableFitsStep DEF FilterInv
<1>q. QED
  BY <1>1, <1>2, Starts, Steps, PTL DEF Spec

(* The hardware filter keeps out no frame the rules ask for, and its table *)
(* fits the banks (CO_can_filter_RTT.c).                                   *)
THEOREM FilterServes == Spec => []Filter!FilterIsSafe
<1>1. FilterInv => Filter!FilterIsSafe
  BY DEF FilterInv, Filter!FilterIsSafe
<1>q. QED
  BY <1>1, FilterInvariant, PTL

-----------------------------------------------------------------------------
(***************************************************************************)
(* The transmit path: senders, the status poll and the observer of the     *)
(* time consumer take turns on the module, and the counters of the device  *)
(* are read modulo their width.  What a poll has not seen yet is less than *)
(* half of their range, so the difference of two readings is the number of *)
(* frames lost.                                                            *)
(***************************************************************************)

(* Who sends, who polls, and who may hold an observer it has captured.     *)
SenderInv ==
    /\ where["co_rt"] # "status"
    /\ sendLock = "co_main" <=> where["co_main"] = "status"
    /\ snapshot \subseteq events
    /\ \A t \in Transmit!Threads : captured[t] # Unregistered => where[t] = "notify"
    /\ observer # Unregistered => ready

(* The drops since the last successful poll fill less than half the range. *)
LostInv == \A d \in Directions : lost[d] < Span \div 2

TransmitInv == Transmit!TypeOK /\ SenderInv /\ LostInv /\ Transmit!NoEventForgotten /\
    Transmit!NoDropForgotten /\ Transmit!NoRetiredObserver

(* The distance of two counters of 32 bits. *)
LEMMA TransmitDistance ==
    ASSUME NEW a \in 0 .. Span - 1, NEW b \in 0 .. Span - 1
    PROVE  (a - b) % Span = IF a >= b THEN a - b ELSE a - b + Span
  BY NodeAssumption, SMTT(30) DEF Transmit!TransmitAssumption

LEMMA OneFurther ==
    ASSUME NEW a \in 0 .. Span - 1, NEW b \in 0 .. Span - 1,
           ((a - b) % Span) + 1 < Span
    PROVE  /\ (a + 1) % Span \in 0 .. Span - 1
           /\ (((a + 1) % Span) - b) % Span = ((a - b) % Span) + 1
<1>1. (a + 1) % Span = IF a + 1 < Span THEN a + 1 ELSE 0
  BY NodeAssumption, SMTT(30) DEF Transmit!TransmitAssumption
<1>q. QED
  BY <1>1, TransmitDistance, NodeAssumption DEF Transmit!TransmitAssumption
(* Every step keeps the types.                                             *)
LEMMA TransmitTypeOKStep ==
    ASSUME TransmitInv, [Transmit!Next]_(Transmit!vars)
    PROVE  Transmit!TypeOK'
<1>0. CASE UNCHANGED Transmit!vars
  BY <1>0 DEF Transmit!vars, Transmit!TypeOK, Transmit!Free, Transmit!Threads, Transmit!Runtime,
     TransmitInv, Transmit!TransmitAssumption, SenderInv
<1>1. ASSUME NEW t \in Transmit!Threads, Transmit!RefuseFull(t) PROVE Transmit!TypeOK'
  BY <1>1, NodeAssumption DEF Transmit!RefuseFull, Transmit!Free, Transmit!Raise, Transmit!Goto,
     Transmit!pollVars, Transmit!deviceVars,
     Transmit!TypeOK, Transmit!Threads, Transmit!Runtime, TransmitInv,
         Transmit!TransmitAssumption, SenderInv
<1>2. ASSUME NEW t \in Transmit!Threads, Transmit!Finish(t) PROVE Transmit!TypeOK'
  BY <1>2, NodeAssumption DEF Transmit!Finish, Transmit!Free, Transmit!Raise, Transmit!Goto,
     Transmit!pollVars, Transmit!deviceVars, Transmit!TypeOK,
     Transmit!Threads, Transmit!Runtime, TransmitInv, Transmit!TransmitAssumption, SenderInv
<1>3. ASSUME NEW t \in Transmit!Threads, Transmit!Notify(t) PROVE Transmit!TypeOK'
  BY <1>3, NodeAssumption DEF Transmit!Notify, Transmit!Goto, Transmit!pollVars,
     Transmit!deviceVars, Transmit!TypeOK, Transmit!Free, Transmit!Threads,
     Transmit!Runtime, TransmitInv, Transmit!TransmitAssumption, SenderInv
<1>4. ASSUME NEW t \in Transmit!Threads, NEW b \in Buffers, Transmit!Send(t,
    b) PROVE Transmit!TypeOK'
  BY <1>4, NodeAssumption DEF Transmit!Send, Transmit!Goto, Transmit!pollVars,
     Transmit!deviceVars, Transmit!TypeOK, Transmit!Free, Transmit!Threads,
     Transmit!Runtime, TransmitInv, Transmit!TransmitAssumption, SenderInv
<1>5. ASSUME NEW t \in Transmit!Threads, NEW done \in BOOLEAN, Transmit!Submit(t,
    done) PROVE Transmit!TypeOK'
  BY <1>5, NodeAssumption DEF Transmit!Submit, Transmit!Goto, Transmit!pollVars,
     Transmit!deviceVars, Transmit!TypeOK, Transmit!Free, Transmit!Threads,
     Transmit!Runtime, TransmitInv, Transmit!TransmitAssumption, SenderInv
<1>6. CASE Transmit!Ready
  BY <1>6, NodeAssumption DEF Transmit!Ready, Transmit!Quiet, Transmit!Free, Transmit!Runtime,
     Transmit!threadVars, Transmit!pollVars,
     Transmit!deviceVars, Transmit!Threads, Transmit!TypeOK, TransmitInv,
         Transmit!TransmitAssumption, SenderInv
<1>7. CASE Transmit!Stop
  BY <1>7, NodeAssumption DEF Transmit!Stop, Transmit!Quiet, Transmit!Free, Transmit!threadVars,
     Transmit!pollVars, Transmit!deviceVars,
     Transmit!Threads, Transmit!TypeOK, Transmit!Runtime, TransmitInv,
         Transmit!TransmitAssumption, SenderInv
<1>8. CASE Transmit!Gate
  BY <1>8, NodeAssumption DEF Transmit!Gate, Transmit!threadVars, Transmit!pollVars,
     Transmit!deviceVars, Transmit!TypeOK, Transmit!Free,
     Transmit!Threads, Transmit!Runtime, TransmitInv, Transmit!TransmitAssumption, SenderInv
<1>9. CASE Transmit!ClearPendingSyncPDOs
  BY <1>9, NodeAssumption DEF Transmit!ClearPendingSyncPDOs, Transmit!Free, Transmit!Raise,
     Transmit!threadVars, Transmit!pollVars,
     Transmit!deviceVars, Transmit!TypeOK, Transmit!Threads, Transmit!Runtime, TransmitInv,
         Transmit!TransmitAssumption, SenderInv
<1>10. CASE Transmit!Poll
  BY <1>10, NodeAssumption DEF Transmit!Poll, Transmit!Free, Transmit!Goto, Transmit!deviceVars,
     Transmit!TypeOK, Transmit!Threads, Transmit!Runtime,
     TransmitInv, Transmit!TransmitAssumption, SenderInv
<1>11. CASE Transmit!StatusFails
  BY <1>11, NodeAssumption DEF Transmit!StatusFails, Transmit!Free, Transmit!EventsKept,
     Transmit!Goto, Transmit!deviceVars, Transmit!TypeOK,
     Transmit!Threads, Transmit!Runtime, TransmitInv, Transmit!TransmitAssumption, SenderInv
<1>12. ASSUME NEW b \in Buffers, Transmit!Filled(b) PROVE Transmit!TypeOK'
  BY <1>12, NodeAssumption DEF Transmit!Filled, Transmit!threadVars, Transmit!pollVars,
     Transmit!deviceVars, Transmit!TypeOK, Transmit!Free,
     Transmit!Threads, Transmit!Runtime, TransmitInv, Transmit!TransmitAssumption, SenderInv
<1>13. ASSUME NEW b \in Buffers, Transmit!Refill(b) PROVE Transmit!TypeOK'
  BY <1>13, NodeAssumption DEF Transmit!Refill, Transmit!Quiet, Transmit!threadVars,
     Transmit!pollVars, Transmit!deviceVars, Transmit!Threads,
     Transmit!TypeOK, Transmit!Free, Transmit!Runtime, TransmitInv, Transmit!TransmitAssumption,
         SenderInv
<1>14. ASSUME NEW d \in Directions, Transmit!Drop(d) PROVE Transmit!TypeOK'
  BY <1>14, NodeAssumption DEF Transmit!Drop, Transmit!threadVars, Transmit!pollVars,
     Transmit!TypeOK, Transmit!Free, Transmit!Threads,
     Transmit!Runtime, TransmitInv, Transmit!TransmitAssumption, SenderInv
<1>15. ASSUME NEW s \in SendErrors, NEW r \in ReceiveErrors, Transmit!StatusRead(s, r) PROVE
   Transmit!TypeOK'
  BY <1>15, NodeAssumption DEF Transmit!StatusRead, Transmit!OverflowOf, Transmit!Advanced,
     Transmit!SendLevel,
     Transmit!ReceiveLevel, Transmit!Free, Transmit!Goto, Transmit!TypeOK, Transmit!Threads,
         Transmit!Runtime, TransmitInv, Transmit!TransmitAssumption,
     SenderInv
<1>q. QED
  BY <1>0, <1>1, <1>2, <1>3, <1>4, <1>5, <1>6, <1>7, <1>8, <1>9, <1>10, <1>11, <1>12,
     <1>13, <1>14, <1>15 DEF Transmit!Next

(* Senders, the poll and the observer take turns.                          *)
LEMMA SenderInvStep ==
    ASSUME TransmitInv, [Transmit!Next]_(Transmit!vars)
    PROVE  SenderInv'
<1>0. CASE UNCHANGED Transmit!vars
  BY <1>0 DEF Transmit!vars, SenderInv, Transmit!Threads, TransmitInv,
     Transmit!TransmitAssumption, Transmit!TypeOK,
     Transmit!NoRetiredObserver
<1>1. CASE Transmit!Gate
  BY <1>1 DEF Transmit!Gate, Transmit!threadVars, Transmit!pollVars, Transmit!deviceVars,
     SenderInv, Transmit!Threads, TransmitInv,
     Transmit!TransmitAssumption, Transmit!TypeOK, Transmit!NoRetiredObserver
<1>2. ASSUME NEW b \in Buffers,
             Transmit!Filled(b) \/ Transmit!Refill(b)
      PROVE  SenderInv'
  BY <1>2 DEF Transmit!Filled, Transmit!Refill, Transmit!threadVars, Transmit!pollVars,
     Transmit!deviceVars, SenderInv, Transmit!Threads,
     TransmitInv, Transmit!TransmitAssumption, Transmit!TypeOK, Transmit!NoRetiredObserver
<1>3. ASSUME NEW d \in Directions,
             Transmit!Drop(d)
      PROVE  SenderInv'
  BY <1>3 DEF Transmit!Drop, Transmit!threadVars, Transmit!pollVars, SenderInv, Transmit!Threads,
     TransmitInv, Transmit!TransmitAssumption,
     Transmit!TypeOK, Transmit!NoRetiredObserver
<1>4. ASSUME NEW t \in Transmit!Threads, Transmit!RefuseFull(t) PROVE SenderInv'
  BY <1>4, NodeAssumption DEF Transmit!RefuseFull, Transmit!Free, Transmit!Raise, Transmit!Goto,
     Transmit!pollVars, Transmit!deviceVars,
     SenderInv, Transmit!Threads, TransmitInv, Transmit!TransmitAssumption, Transmit!TypeOK,
         Transmit!NoRetiredObserver
<1>5. ASSUME NEW t \in Transmit!Threads, Transmit!Finish(t) PROVE SenderInv'
  BY <1>5, NodeAssumption DEF Transmit!Finish, Transmit!Free, Transmit!Raise, Transmit!Goto,
     Transmit!pollVars, Transmit!deviceVars,
     SenderInv, Transmit!Threads, TransmitInv, Transmit!TransmitAssumption, Transmit!TypeOK,
         Transmit!NoRetiredObserver
<1>6. ASSUME NEW t \in Transmit!Threads, Transmit!Notify(t) PROVE SenderInv'
  BY <1>6, NodeAssumption DEF Transmit!Notify, Transmit!Goto, Transmit!pollVars,
     Transmit!deviceVars, SenderInv, Transmit!Threads,
     TransmitInv, Transmit!TransmitAssumption, Transmit!TypeOK, Transmit!NoRetiredObserver
<1>7. ASSUME NEW t \in Transmit!Threads, NEW b \in Buffers, Transmit!Send(t, b) PROVE SenderInv'
  BY <1>7, NodeAssumption DEF Transmit!Send, Transmit!Goto, Transmit!pollVars,
     Transmit!deviceVars, SenderInv, Transmit!Threads,
     TransmitInv, Transmit!TransmitAssumption, Transmit!TypeOK, Transmit!NoRetiredObserver
<1>8. ASSUME NEW t \in Transmit!Threads, NEW done \in BOOLEAN, Transmit!Submit(t,
    done) PROVE SenderInv'
  BY <1>8, NodeAssumption DEF Transmit!Submit, Transmit!Goto, Transmit!pollVars,
     Transmit!deviceVars, SenderInv, Transmit!Threads,
     TransmitInv, Transmit!TransmitAssumption, Transmit!TypeOK, Transmit!NoRetiredObserver
<1>9. CASE Transmit!Ready
  BY <1>9, NodeAssumption DEF Transmit!Ready, Transmit!Quiet, Transmit!Free, Transmit!Runtime,
     Transmit!threadVars, Transmit!pollVars,
     Transmit!deviceVars, Transmit!Threads, SenderInv, TransmitInv, Transmit!TransmitAssumption,
         Transmit!TypeOK, Transmit!NoRetiredObserver
<1>10. CASE Transmit!Stop
  BY <1>10, NodeAssumption DEF Transmit!Stop, Transmit!Quiet, Transmit!Free, Transmit!threadVars,
     Transmit!pollVars, Transmit!deviceVars,
     Transmit!Threads, SenderInv, TransmitInv, Transmit!TransmitAssumption, Transmit!TypeOK,
         Transmit!NoRetiredObserver
<1>11. CASE Transmit!ClearPendingSyncPDOs
  BY <1>11, NodeAssumption DEF Transmit!ClearPendingSyncPDOs, Transmit!Free, Transmit!Raise,
     Transmit!threadVars, Transmit!pollVars,
     Transmit!deviceVars, SenderInv, Transmit!Threads, TransmitInv, Transmit!TransmitAssumption,
         Transmit!TypeOK, Transmit!NoRetiredObserver
<1>12. CASE Transmit!Poll
  BY <1>12, NodeAssumption DEF Transmit!Poll, Transmit!Free, Transmit!Goto, Transmit!deviceVars,
     SenderInv, Transmit!Threads, TransmitInv,
     Transmit!TransmitAssumption, Transmit!TypeOK, Transmit!NoRetiredObserver
<1>13. CASE Transmit!StatusFails
  BY <1>13, NodeAssumption DEF Transmit!StatusFails, Transmit!Free, Transmit!EventsKept,
     Transmit!Goto, Transmit!deviceVars,
     SenderInv, Transmit!Threads, TransmitInv, Transmit!TransmitAssumption, Transmit!TypeOK,
         Transmit!NoRetiredObserver
<1>14. ASSUME NEW s \in SendErrors, NEW r \in ReceiveErrors, Transmit!StatusRead(s, r) PROVE
   SenderInv'
  BY <1>14, NodeAssumption DEF Transmit!StatusRead, Transmit!OverflowOf, Transmit!Advanced,
     Transmit!SendLevel,
     Transmit!ReceiveLevel, Transmit!Free, Transmit!Goto, SenderInv, Transmit!Threads,
         TransmitInv, Transmit!TransmitAssumption, Transmit!TypeOK,
     Transmit!NoRetiredObserver
<1>q. QED
  BY <1>0, <1>1, <1>2, <1>3, <1>4, <1>5, <1>6, <1>7, <1>8, <1>9, <1>10, <1>11, <1>12,
     <1>13, <1>14 DEF Transmit!Next

(* An observer is withdrawn when nobody sends.                             *)
LEMMA NoRetiredObserverStep ==
    ASSUME TransmitInv, [Transmit!Next]_(Transmit!vars)
    PROVE  Transmit!NoRetiredObserver'
<1>0. CASE UNCHANGED Transmit!vars
  BY <1>0 DEF Transmit!vars, Transmit!NoRetiredObserver, Transmit!Threads, TransmitInv,
     Transmit!TransmitAssumption, Transmit!TypeOK,
     SenderInv
<1>1. ASSUME NEW t \in Transmit!Threads,
             Transmit!RefuseFull(t)
      PROVE  Transmit!NoRetiredObserver'
  BY <1>1 DEF Transmit!RefuseFull, Transmit!pollVars, Transmit!deviceVars,
     Transmit!NoRetiredObserver, Transmit!Threads, TransmitInv,
     Transmit!TransmitAssumption, Transmit!TypeOK, SenderInv
<1>2. ASSUME NEW t \in Transmit!Threads, NEW b \in Buffers,
             Transmit!Send(t, b)
      PROVE  Transmit!NoRetiredObserver'
  BY <1>2 DEF Transmit!Send, Transmit!pollVars, Transmit!deviceVars, Transmit!NoRetiredObserver,
     Transmit!Threads, TransmitInv,
     Transmit!TransmitAssumption, Transmit!TypeOK, SenderInv
<1>3. ASSUME NEW t \in Transmit!Threads, NEW done \in BOOLEAN,
             Transmit!Submit(t, done)
      PROVE  Transmit!NoRetiredObserver'
  BY <1>3 DEF Transmit!Submit, Transmit!pollVars, Transmit!deviceVars,
     Transmit!NoRetiredObserver, Transmit!Threads, TransmitInv,
     Transmit!TransmitAssumption, Transmit!TypeOK, SenderInv
<1>4. CASE Transmit!Gate \/ Transmit!ClearPendingSyncPDOs \/ Transmit!Poll \/ Transmit!StatusFails
  BY <1>4 DEF Transmit!Gate, Transmit!ClearPendingSyncPDOs, Transmit!Poll, Transmit!StatusFails,
     Transmit!threadVars, Transmit!pollVars,
     Transmit!deviceVars, Transmit!NoRetiredObserver, Transmit!Threads, TransmitInv,
         Transmit!TransmitAssumption, Transmit!TypeOK, SenderInv
<1>5. ASSUME NEW b \in Buffers,
             Transmit!Filled(b) \/ Transmit!Refill(b)
      PROVE  Transmit!NoRetiredObserver'
  BY <1>5 DEF Transmit!Filled, Transmit!Refill, Transmit!threadVars, Transmit!pollVars,
     Transmit!deviceVars, Transmit!NoRetiredObserver,
     Transmit!Threads, TransmitInv, Transmit!TransmitAssumption, Transmit!TypeOK, SenderInv
<1>6. ASSUME NEW d \in Directions,
             Transmit!Drop(d)
      PROVE  Transmit!NoRetiredObserver'
  BY <1>6 DEF Transmit!Drop, Transmit!threadVars, Transmit!pollVars, Transmit!NoRetiredObserver,
     Transmit!Threads, TransmitInv,
     Transmit!TransmitAssumption, Transmit!TypeOK, SenderInv
<1>7. ASSUME NEW s \in SendErrors, NEW r \in ReceiveErrors,
             Transmit!StatusRead(s, r)
      PROVE  Transmit!NoRetiredObserver'
  BY <1>7 DEF Transmit!StatusRead, Transmit!NoRetiredObserver, Transmit!Threads, TransmitInv,
     Transmit!TransmitAssumption, Transmit!TypeOK,
     SenderInv
<1>8. ASSUME NEW t \in Transmit!Threads, Transmit!Finish(t) PROVE Transmit!NoRetiredObserver'
  BY <1>8, NodeAssumption DEF Transmit!Finish, Transmit!Free, Transmit!Raise, Transmit!Goto,
     Transmit!pollVars, Transmit!deviceVars,
     Transmit!NoRetiredObserver, Transmit!Threads, TransmitInv, Transmit!TransmitAssumption,
         Transmit!TypeOK, SenderInv
<1>9. ASSUME NEW t \in Transmit!Threads, Transmit!Notify(t) PROVE Transmit!NoRetiredObserver'
  BY <1>9, NodeAssumption DEF Transmit!Notify, Transmit!Goto, Transmit!pollVars,
     Transmit!deviceVars, Transmit!NoRetiredObserver,
     Transmit!Threads, TransmitInv, Transmit!TransmitAssumption, Transmit!TypeOK, SenderInv
<1>10. CASE Transmit!Ready
  BY <1>10, NodeAssumption DEF Transmit!Ready, Transmit!Quiet, Transmit!Free, Transmit!Runtime,
     Transmit!threadVars, Transmit!pollVars,
     Transmit!deviceVars, Transmit!Threads, Transmit!NoRetiredObserver, TransmitInv,
         Transmit!TransmitAssumption, Transmit!TypeOK, SenderInv
<1>11. CASE Transmit!Stop
  BY <1>11, NodeAssumption DEF Transmit!Stop, Transmit!Quiet, Transmit!Free, Transmit!threadVars,
     Transmit!pollVars, Transmit!deviceVars,
     Transmit!Threads, Transmit!NoRetiredObserver, TransmitInv, Transmit!TransmitAssumption,
         Transmit!TypeOK, SenderInv
<1>q. QED
  BY <1>0, <1>1, <1>2, <1>3, <1>4, <1>5, <1>6, <1>7, <1>8, <1>9, <1>10, <1>11 DEF Transmit!Next

(* A device does not drop half the range between two polls.                *)
LEMMA LostInvStep ==
    ASSUME TransmitInv, [Transmit!Next]_(Transmit!vars)
    PROVE  LostInv'
<1>0. CASE UNCHANGED Transmit!vars
  BY <1>0 DEF Transmit!vars, LostInv, TransmitInv, Transmit!TransmitAssumption, Transmit!TypeOK,
     Transmit!NoDropForgotten
<1>1. ASSUME NEW t \in Transmit!Threads,
             Transmit!RefuseFull(t) \/ Transmit!Finish(t) \/ Transmit!Notify(t)
      PROVE  LostInv'
  BY <1>1 DEF Transmit!RefuseFull, Transmit!Finish, Transmit!Notify, Transmit!pollVars,
     Transmit!deviceVars, LostInv, TransmitInv,
     Transmit!TransmitAssumption, Transmit!TypeOK, Transmit!NoDropForgotten
<1>2. ASSUME NEW t \in Transmit!Threads, NEW b \in Buffers,
             Transmit!Send(t, b)
      PROVE  LostInv'
  BY <1>2 DEF Transmit!Send, Transmit!pollVars, Transmit!deviceVars, LostInv, TransmitInv,
     Transmit!TransmitAssumption, Transmit!TypeOK,
     Transmit!NoDropForgotten
<1>3. ASSUME NEW t \in Transmit!Threads, NEW done \in BOOLEAN,
             Transmit!Submit(t, done)
      PROVE  LostInv'
  BY <1>3 DEF Transmit!Submit, Transmit!pollVars, Transmit!deviceVars, LostInv, TransmitInv,
     Transmit!TransmitAssumption, Transmit!TypeOK,
     Transmit!NoDropForgotten
<1>4. CASE Transmit!Ready \/ Transmit!Stop \/ Transmit!Gate \/ Transmit!ClearPendingSyncPDOs \/
    Transmit!Poll \/ Transmit!StatusFails
  BY <1>4 DEF Transmit!Ready, Transmit!Stop, Transmit!Gate, Transmit!ClearPendingSyncPDOs,
     Transmit!Poll, Transmit!StatusFails, Transmit!threadVars,
     Transmit!pollVars, Transmit!deviceVars, LostInv, TransmitInv, Transmit!TransmitAssumption,
         Transmit!TypeOK, Transmit!NoDropForgotten
<1>5. ASSUME NEW b \in Buffers,
             Transmit!Filled(b) \/ Transmit!Refill(b)
      PROVE  LostInv'
  BY <1>5 DEF Transmit!Filled, Transmit!Refill, Transmit!threadVars, Transmit!pollVars,
     Transmit!deviceVars, LostInv, TransmitInv,
     Transmit!TransmitAssumption, Transmit!TypeOK, Transmit!NoDropForgotten
<1>6. ASSUME NEW d \in Directions, Transmit!Drop(d) PROVE LostInv'
  BY <1>6, NodeAssumption DEF Transmit!Drop, Transmit!threadVars, Transmit!pollVars, LostInv,
     TransmitInv,
     Transmit!TransmitAssumption, Transmit!TypeOK, Transmit!NoDropForgotten
<1>7. ASSUME NEW s \in SendErrors, NEW r \in ReceiveErrors, Transmit!StatusRead(s, r) PROVE
   LostInv'
  BY <1>7, NodeAssumption DEF Transmit!StatusRead, Transmit!OverflowOf, Transmit!Advanced,
     Transmit!SendLevel, Transmit!ReceiveLevel,
     Transmit!Free, Transmit!Goto, LostInv, TransmitInv, Transmit!TransmitAssumption,
         Transmit!TypeOK, Transmit!NoDropForgotten
<1>q. QED
  BY <1>0, <1>1, <1>2, <1>3, <1>4, <1>5, <1>6, <1>7 DEF Transmit!Next

(* A poll removes the events it reports, no more.                          *)
LEMMA NoEventForgottenStep ==
    ASSUME TransmitInv, [Transmit!Next]_(Transmit!vars)
    PROVE  Transmit!NoEventForgotten'
<1>0. CASE UNCHANGED Transmit!vars
  BY <1>0 DEF Transmit!vars, Transmit!NoEventForgotten, TransmitInv, Transmit!TransmitAssumption,
     Transmit!TypeOK, SenderInv
<1>1. ASSUME NEW t \in Transmit!Threads,
             Transmit!Notify(t)
      PROVE  Transmit!NoEventForgotten'
  BY <1>1 DEF Transmit!Notify, Transmit!pollVars, Transmit!deviceVars, Transmit!NoEventForgotten,
     TransmitInv, Transmit!TransmitAssumption,
     Transmit!TypeOK, SenderInv
<1>2. ASSUME NEW t \in Transmit!Threads, NEW b \in Buffers,
             Transmit!Send(t, b)
      PROVE  Transmit!NoEventForgotten'
  BY <1>2 DEF Transmit!Send, Transmit!pollVars, Transmit!deviceVars, Transmit!NoEventForgotten,
     TransmitInv, Transmit!TransmitAssumption,
     Transmit!TypeOK, SenderInv
<1>3. ASSUME NEW t \in Transmit!Threads, NEW done \in BOOLEAN,
             Transmit!Submit(t, done)
      PROVE  Transmit!NoEventForgotten'
  BY <1>3 DEF Transmit!Submit, Transmit!pollVars, Transmit!deviceVars, Transmit!NoEventForgotten,
     TransmitInv, Transmit!TransmitAssumption,
     Transmit!TypeOK, SenderInv
<1>4. CASE Transmit!Ready \/ Transmit!Stop \/ Transmit!Gate \/ Transmit!Poll
  BY <1>4 DEF Transmit!Ready, Transmit!Stop, Transmit!Gate, Transmit!Poll, Transmit!threadVars,
     Transmit!pollVars, Transmit!deviceVars,
     Transmit!NoEventForgotten, TransmitInv, Transmit!TransmitAssumption, Transmit!TypeOK, SenderInv
<1>5. ASSUME NEW b \in Buffers,
             Transmit!Filled(b) \/ Transmit!Refill(b)
      PROVE  Transmit!NoEventForgotten'
  BY <1>5 DEF Transmit!Filled, Transmit!Refill, Transmit!threadVars, Transmit!pollVars,
     Transmit!deviceVars, Transmit!NoEventForgotten, TransmitInv,
     Transmit!TransmitAssumption, Transmit!TypeOK, SenderInv
<1>6. ASSUME NEW d \in Directions,
             Transmit!Drop(d)
      PROVE  Transmit!NoEventForgotten'
  BY <1>6 DEF Transmit!Drop, Transmit!threadVars, Transmit!pollVars, Transmit!NoEventForgotten,
     TransmitInv, Transmit!TransmitAssumption,
     Transmit!TypeOK, SenderInv
<1>7. ASSUME NEW t \in Transmit!Threads, Transmit!RefuseFull(t) PROVE Transmit!NoEventForgotten'
  BY <1>7, NodeAssumption DEF Transmit!RefuseFull, Transmit!Free, Transmit!Raise, Transmit!Goto,
     Transmit!pollVars, Transmit!deviceVars,
     Transmit!NoEventForgotten, TransmitInv, Transmit!TransmitAssumption, Transmit!TypeOK, SenderInv
<1>8. ASSUME NEW t \in Transmit!Threads, Transmit!Finish(t) PROVE Transmit!NoEventForgotten'
  BY <1>8, NodeAssumption DEF Transmit!Finish, Transmit!Free, Transmit!Raise, Transmit!Goto,
     Transmit!pollVars, Transmit!deviceVars,
     Transmit!NoEventForgotten, TransmitInv, Transmit!TransmitAssumption, Transmit!TypeOK, SenderInv
<1>9. CASE Transmit!ClearPendingSyncPDOs
  BY <1>9, NodeAssumption DEF Transmit!ClearPendingSyncPDOs, Transmit!Free, Transmit!Raise,
     Transmit!threadVars, Transmit!pollVars,
     Transmit!deviceVars, Transmit!NoEventForgotten, TransmitInv, Transmit!TransmitAssumption,
         Transmit!TypeOK, SenderInv
<1>10. CASE Transmit!StatusFails
  BY <1>10, NodeAssumption DEF Transmit!StatusFails, Transmit!Free, Transmit!EventsKept,
     Transmit!Goto, Transmit!deviceVars,
     Transmit!NoEventForgotten, TransmitInv, Transmit!TransmitAssumption, Transmit!TypeOK, SenderInv
<1>11. ASSUME NEW s \in SendErrors, NEW r \in ReceiveErrors, Transmit!StatusRead(s, r) PROVE
   Transmit!NoEventForgotten'
  BY <1>11, NodeAssumption DEF Transmit!StatusRead, Transmit!OverflowOf, Transmit!Advanced,
     Transmit!SendLevel,
     Transmit!ReceiveLevel, Transmit!Free, Transmit!Goto, Transmit!NoEventForgotten, TransmitInv,
         Transmit!TransmitAssumption, Transmit!TypeOK,
     SenderInv
<1>q. QED
  BY <1>0, <1>1, <1>2, <1>3, <1>4, <1>5, <1>6, <1>7, <1>8, <1>9, <1>10, <1>11 DEF Transmit!Next

(* A successful poll reports every drop it forgets.                        *)
LEMMA NoDropForgottenStep ==
    ASSUME TransmitInv, [Transmit!Next]_(Transmit!vars)
    PROVE  Transmit!NoDropForgotten'
<1>0. CASE UNCHANGED Transmit!vars
  BY <1>0 DEF Transmit!vars, Transmit!NoDropForgotten, TransmitInv, Transmit!TransmitAssumption,
     Transmit!TypeOK, LostInv, Transmit!Advanced
<1>1. ASSUME NEW t \in Transmit!Threads,
             Transmit!RefuseFull(t) \/ Transmit!Finish(t) \/ Transmit!Notify(t)
      PROVE  Transmit!NoDropForgotten'
  BY <1>1 DEF Transmit!RefuseFull, Transmit!Finish, Transmit!Notify, Transmit!pollVars,
     Transmit!deviceVars, Transmit!NoDropForgotten, TransmitInv,
     Transmit!TransmitAssumption, Transmit!TypeOK, LostInv, Transmit!Advanced
<1>2. ASSUME NEW t \in Transmit!Threads, NEW b \in Buffers,
             Transmit!Send(t, b)
      PROVE  Transmit!NoDropForgotten'
  BY <1>2 DEF Transmit!Send, Transmit!pollVars, Transmit!deviceVars, Transmit!NoDropForgotten,
     TransmitInv, Transmit!TransmitAssumption,
     Transmit!TypeOK, LostInv, Transmit!Advanced
<1>3. ASSUME NEW t \in Transmit!Threads, NEW done \in BOOLEAN,
             Transmit!Submit(t, done)
      PROVE  Transmit!NoDropForgotten'
  BY <1>3 DEF Transmit!Submit, Transmit!pollVars, Transmit!deviceVars, Transmit!NoDropForgotten,
     TransmitInv, Transmit!TransmitAssumption,
     Transmit!TypeOK, LostInv, Transmit!Advanced
<1>4. CASE Transmit!Ready \/ Transmit!Stop \/ Transmit!Gate \/ Transmit!ClearPendingSyncPDOs \/
    Transmit!Poll \/ Transmit!StatusFails
  BY <1>4 DEF Transmit!Ready, Transmit!Stop, Transmit!Gate, Transmit!ClearPendingSyncPDOs,
     Transmit!Poll, Transmit!StatusFails, Transmit!threadVars,
     Transmit!pollVars, Transmit!deviceVars, Transmit!NoDropForgotten, TransmitInv,
         Transmit!TransmitAssumption, Transmit!TypeOK, LostInv,
     Transmit!Advanced
<1>5. ASSUME NEW b \in Buffers,
             Transmit!Filled(b) \/ Transmit!Refill(b)
      PROVE  Transmit!NoDropForgotten'
  BY <1>5 DEF Transmit!Filled, Transmit!Refill, Transmit!threadVars, Transmit!pollVars,
     Transmit!deviceVars, Transmit!NoDropForgotten, TransmitInv,
     Transmit!TransmitAssumption, Transmit!TypeOK, LostInv, Transmit!Advanced
<1>6. ASSUME NEW d \in Directions, Transmit!Drop(d) PROVE Transmit!NoDropForgotten'
  <2>1. /\ drops[d] \in 0 .. Span - 1 /\ dropsOld[d] \in 0 .. Span - 1
        /\ ((drops[d] - dropsOld[d]) % Span) + 1 < Span
    BY <1>6, NodeAssumption DEF Transmit!Drop, TransmitInv, Transmit!TypeOK,
       Transmit!NoDropForgotten, Transmit!TransmitAssumption
  <2>2. (((drops[d] + 1) % Span) - dropsOld[d]) % Span = lost[d] + 1
    BY <2>1, OneFurther DEF TransmitInv, Transmit!NoDropForgotten
  <2>3. \A e \in Directions :
          /\ drops'[e] = IF e = d THEN (drops[d] + 1) % Span ELSE drops[e]
          /\ lost'[e] = IF e = d THEN lost[d] + 1 ELSE lost[e]
    <3>1. drops \in [Directions -> 0 .. Span - 1] /\ lost \in [Directions -> 0 .. Span \div 2]
      BY DEF TransmitInv, Transmit!TypeOK
    <3>q. QED
      BY <1>6, <3>1, NodeAssumption DEF Transmit!Drop, Transmit!TransmitAssumption
  <2>4. dropsOld' = dropsOld
    BY <1>6 DEF Transmit!Drop, Transmit!pollVars
  <2>5. ASSUME NEW e \in Directions PROVE (drops'[e] - dropsOld'[e]) % Span = lost'[e]
    <3>1. CASE e = d
      BY <2>1, <2>2, <2>3, <2>4, <3>1, NodeAssumption DEF Transmit!TransmitAssumption
    <3>2. CASE e # d
      BY <2>3, <2>4, <3>2, NodeAssumption
         DEF TransmitInv, Transmit!TypeOK, Transmit!NoDropForgotten, Transmit!TransmitAssumption
    <3>q. QED
      BY <3>1, <3>2
  <2>q. QED
    BY <2>5 DEF Transmit!NoDropForgotten
<1>7. ASSUME NEW s \in SendErrors, NEW r \in ReceiveErrors, Transmit!StatusRead(s, r) PROVE
   Transmit!NoDropForgotten'
  BY <1>7, NodeAssumption DEF Transmit!StatusRead, Transmit!OverflowOf, Transmit!Advanced,
     Transmit!SendLevel, Transmit!ReceiveLevel,
     Transmit!Free, Transmit!Goto, Transmit!NoDropForgotten, TransmitInv,
         Transmit!TransmitAssumption, Transmit!TypeOK, LostInv
<1>q. QED
  BY <1>0, <1>1, <1>2, <1>3, <1>4, <1>5, <1>6, <1>7 DEF Transmit!Next

LEMMA TransmitInvariant == Spec => []TransmitInv
<1>1. Transmit!Init => TransmitInv
  <2>1. Transmit!Init => Transmit!TypeOK
    <3>1. Transmit!Init => /\ txEnabled \in BOOLEAN /\ ready \in BOOLEAN
                           /\ full \in [Buffers -> BOOLEAN]
      BY Zenon DEF Transmit!Init
    <3>2. Transmit!Init => /\ drops \in [Directions -> 0 .. Span - 1]
                           /\ dropsOld \in [Directions -> 0 .. Span - 1]
                           /\ lost \in [Directions -> 0 .. Span \div 2]
      BY NodeAssumption DEF Transmit!Init, Transmit!TransmitAssumption
    <3>q. QED
      BY <3>1, <3>2, NodeAssumption
         DEF Transmit!Init, Transmit!TypeOK, Transmit!Runtime, Transmit!Free,
             Transmit!TransmitAssumption
  <2>2. Transmit!Init => Transmit!NoDropForgotten /\ LostInv
    <3> SUFFICES ASSUME Transmit!Init, NEW d \in Directions
                 PROVE  (drops[d] - dropsOld[d]) % Span = lost[d] /\ lost[d] < Span \div 2
      BY DEF Transmit!NoDropForgotten, LostInv
    <3>1. drops[d] \in 0 .. Span \div 2 - 1 /\ dropsOld[d] = 0 /\ lost[d] = drops[d]
      BY DEF Transmit!Init
    <3>2. drops[d] \in 0 .. Span - 1 /\ 0 \in 0 .. Span - 1 /\ drops[d] < Span \div 2
      BY <3>1, NodeAssumption DEF Transmit!TransmitAssumption
    <3>q. QED
      BY <3>1, <3>2, TransmitDistance
  <2>q. QED
    BY <2>1, <2>2, NodeAssumption
    DEF Transmit!Init, TransmitInv, SenderInv, LostInv, Transmit!NoEventForgotten,
        Transmit!NoRetiredObserver, Transmit!Threads, Transmit!Free,
        Transmit!TransmitAssumption
<1>2. TransmitInv /\ [Transmit!Next]_(Transmit!vars) => TransmitInv'
  BY TransmitTypeOKStep, SenderInvStep, LostInvStep, NoEventForgottenStep, NoDropForgottenStep,
     NoRetiredObserverStep DEF TransmitInv
<1>q. QED
  BY <1>1, <1>2, Starts, Steps, PTL DEF Spec

(* No failed send, refused send, late PDO or dropped frame is forgotten,   *)
(* and no sender keeps the observer of a retired runtime.                  *)
THEOREM TransmitsAccountably == Spec => []Transmit!TransmitIsAccountable
<1>1. TransmitInv => Transmit!TransmitIsAccountable
  BY DEF TransmitInv, Transmit!TransmitIsAccountable
<1>q. QED
  BY <1>1, TransmitInvariant, PTL

-----------------------------------------------------------------------------
(* The properties of Node *)

(* A lifecycle extension's context is released by one party, extensions    *)
(* unwind in reverse order, and a failed initialisation leaves nothing     *)
(* bound behind (CO_lifecycle_RTT.c).  A bound adapter finds every object  *)
(* it accesses, and binding is all or nothing, whatever the generated      *)
(* dictionary and the products are (CO_401_device_od.c:422,                *)
(* CO_402_device_od.c).                                                    *)
THEOREM StartsAreSound == Spec => []StartIsSound
<1>1. /\ Registry!OneReleaser /\ Registry!UnwindsInReverse /\ Registry!CleanFailure
      /\ Binding!BindingIsSafe
      => StartIsSound
  BY DEF StartIsSound
<1> QED
  BY <1>1, RegistryUnwinds, BoundIsServed, PTL

(* A start that fails takes back what it has put in place, and no more     *)
(* (CO_lifecycle_RTT.c, CO_402_device_od.c).                               *)
THEOREM StartsAreUndone == Spec => StartIsUndone
BY AttachRollsBack, ForeignStays, PTL DEF StartIsUndone

(* Time is charged once whichever way the counters wrap, and co_main       *)
(* neither sleeps past a deadline nor through a wake-up                    *)
(* (CO_mainline_RTT.c).                                                    *)
THEOREM TimeIsCharged == Spec => []MainlineIsSafe
<1>1. Loop!MainlineIsSafe => MainlineIsSafe
  BY DEF MainlineIsSafe
<1> QED
  BY <1>1, MainlineRunsInTime, PTL

(* The filter keeps out no frame a receive rule asks for, and the driver   *)
(* forgets no failed transmission and no overflow (CO_can_filter_RTT.c,    *)
(* CO_driver_rtthread.c).                                                  *)
THEOREM DriverServes == Spec => []DriverIsSafe
<1>1. Filter!FilterIsSafe /\ Transmit!TransmitIsAccountable => DriverIsSafe
  BY DEF DriverIsSafe
<1> QED
  BY <1>1, FilterServes, TransmitsAccountably, PTL

=============================================================================
