-------------------------------- MODULE Node --------------------------------
(***************************************************************************)
(* The components of the node below the profiles: lifecycle registry,      *)
(* dictionary binding, main loop, receive filter and transmit path.  They  *)
(* share no state: a behaviour exercises one of them, chosen at the start, *)
(* and leaves the others in an initial state.                              *)
(***************************************************************************)
EXTENDS Integers

CONSTANTS
    Manual, Automatic, Binders, Orders, SlotCount,                        \* LifecycleRegistry
    Products, MaxForeign,                                                 \* ProfileBinding
    MaxCount, TickLength, MaxWait, CompatPoll, MaxBusy, TimeInterval,     \* Mainline
    Natives, LssDelays,
    Width, SlotRules, BankCount, Configurers, Main, Nobody, NoRule,       \* CanFilter
    Buffers, SyncBuffers, Directions, Span, SendErrors, ReceiveErrors,    \* CanTransmit
    Unregistered

VARIABLES
    part,
    factories, firstError, slots, step, turn, checkpoint, before, running, live, holds,
    product, flaw, extension, descriptorOwners, managersBound, bindPhase,
    highRes, count, tickPhase, mainAt, event, base, next, sinceSent, left, gap, busy, lag,
    due, wakeOwed, renewed,
    slot, dirty, normal, inUse, mutex, pc, table, broad, hardware,
    txEnabled, full, events, status, sendLock, where, buffer, captured, observer, ready,
    snapshot, drops, dropsOld, unreported, lost

registryVars == <<factories, firstError, slots, step, turn, checkpoint, before, running, live, holds>>
bindingVars == <<product, flaw, extension, descriptorOwners, managersBound, bindPhase>>
loopVars == <<highRes, count, tickPhase, mainAt, event, base, next, sinceSent, left, gap, busy, lag,
    due, wakeOwed, renewed>>
filterVars == <<slot, dirty, normal, inUse, mutex, pc, table, broad, hardware>>
transmitVars == <<txEnabled, full, events, status, sendLock, where, buffer, captured, observer, ready,
    snapshot, drops, dropsOld, unreported, lost>>

Registry == INSTANCE LifecycleRegistry WITH Capacity <- SlotCount, phase <- step, next <- turn
Binding  == INSTANCE ProfileBinding WITH
    bound <- managersBound, phase <- bindPhase, registry <- descriptorOwners
Loop     == INSTANCE Mainline WITH phase <- tickPhase, at <- mainAt, owed <- wakeOwed
Filter   == INSTANCE CanFilter WITH Capacity <- BankCount, Threads <- Configurers
Transmit == INSTANCE CanTransmit

ASSUME NodeAssumption ==
    /\ Registry!RegistryAssumption /\ Binding!BindingAssumption /\ Loop!MainlineAssumption
    /\ Filter!FilterAssumption /\ Transmit!TransmitAssumption

-----------------------------------------------------------------------------
Parts == {"registry", "binding", "loop", "filter", "transmit"}

Init ==
    /\ part \in Parts
    /\ Registry!Init
    /\ Binding!Init
    /\ part # "binding" => product = CHOOSE p \in Products : ~p.mixed
    /\ part # "binding" => flaw = Binding!Nothing
    /\ Loop!Init /\ (part # "loop" => ~highRes /\ count = 0)
    /\ Filter!Init
    /\ Transmit!Init /\ (part # "transmit" => drops = [d \in Directions |-> 0])

InRegistry(A) ==
    part = "registry" /\ A /\ UNCHANGED <<part, bindingVars, loopVars, filterVars, transmitVars>>
InBinding(A) ==
    part = "binding" /\ A /\ UNCHANGED <<part, registryVars, loopVars, filterVars, transmitVars>>
InLoop(A) ==
    part = "loop" /\ A /\ UNCHANGED <<part, registryVars, bindingVars, filterVars, transmitVars>>
InFilter(A) ==
    part = "filter" /\ A /\ UNCHANGED <<part, registryVars, bindingVars, loopVars, transmitVars>>
InTransmit(A) ==
    part = "transmit" /\ A /\ UNCHANGED <<part, registryVars, bindingVars, loopVars, filterVars>>

Next ==
    \/ InRegistry(Registry!Next)
    \/ InBinding(Binding!Next)
    \/ InLoop(Loop!Next)
    \/ InFilter(Filter!Next)
    \/ InTransmit(Transmit!Next)

vars == <<part, registryVars, bindingVars, loopVars, filterVars, transmitVars>>

Spec == Init /\ [][Next]_vars
-----------------------------------------------------------------------------
(* The properties of the modules, under the names of this one.             *)

(* A lifecycle extension's context is released by one party, extensions    *)
(* unwind in reverse order, and a failed initialisation leaves nothing     *)
(* bound behind.  A bound dictionary serves every access its profile       *)
(* makes, and binding is all or nothing.                                   *)
StartIsSound ==
    /\ Registry!OneReleaser /\ Registry!UnwindsInReverse /\ Registry!CleanFailure
    /\ Binding!BindingIsSafe

(* What a start puts in place it takes back when it fails, and no more:    *)
(* the automatic attach of the linked extensions is all or nothing, and    *)
(* binding leaves an extension alone that someone else has put on an       *)
(* object of the dictionary.                                               *)
StartIsUndone == Registry!AttachIsAtomic /\ Binding!ForeignExtensionsAreKept

(* Time is charged once whichever way the counters wrap, and co_main       *)
(* neither sleeps past a deadline nor through a wake-up.                   *)
MainlineIsSafe == Loop!MainlineIsSafe

(* No frame the node must receive is dropped by the hardware filter, and   *)
(* no failed transmission or receive overflow is forgotten.                *)
DriverIsSafe == Filter!FilterIsSafe /\ Transmit!TransmitIsAccountable
=============================================================================
