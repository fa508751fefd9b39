---------------------------- MODULE DigitalInput ----------------------------
(***************************************************************************)
(* The digital inputs of a CiA 401 device (CO_401_digital.c), their event  *)
(* TPDOs and the input filter 16#6003, between the profile worker, co_rt   *)
(* and an SDO client.  A bank is eight inputs with one mask each; one of   *)
(* the eight bits stands for the bank.                                     *)
(* Worker, TPDO processing and SDO access run under the OD mutex, so each  *)
(* is one step.  The product's input hardware and CANopenNode's TPDO       *)
(* processing are external.                                                *)
(***************************************************************************)
EXTENDS FiniteSets

CONSTANTS
    Banks,      \* 0 .. config.digitalInputBanks - 1
    AnyEdge,    \* banks with 16#6006 set for the bit,
    Rising,     \* ... 16#6007,
    Falling     \* ... 16#6008

DigitalInputAssumption == AnyEdge \cup Rising \cup Falling \subseteq Banks

VARIABLES
    bound,      \* odBound
    level,      \* 16#6000 after polarity, TRUE for high
    latched,    \* banks with digitalInputEventTpdoPending
    requested,  \* banks whose TPDO request flag is set in the OD extension
    filter,     \* banks whose bit is set in 16#6003
    applied,    \* ... and in the product's input filter
    stale,      \* digitalInputFilterDirty
    interrupts, \* 16#6005
    owed        \* history: banks with an event no transmitted frame has reported

vars == <<bound, level, latched, requested, filter, applied, stale, interrupts, owed>>

Init ==
    /\ bound = FALSE
    /\ level = [b \in Banks |-> FALSE]
    /\ latched = {} /\ requested = {} /\ owed = {}
    /\ filter = {} /\ applied \in SUBSET Banks      \* whatever the product starts with
    /\ stale = FALSE /\ interrupts = FALSE

-----------------------------------------------------------------------------
(* bindOD(): no event of an earlier generation is sent in this one, and    *)
(* the filter is forwarded anew.                                           *)
Bind ==
    /\ ~bound /\ bound' = TRUE
    /\ latched' = {} /\ owed' = {} /\ requested' = {}
    /\ stale' = TRUE
    /\ UNCHANGED <<level, filter, applied, interrupts>>

(* unbindOwnedExtensions() *)
Unbind ==
    /\ bound /\ bound' = FALSE
    /\ requested' = {}
    /\ UNCHANGED <<level, latched, filter, applied, stale, interrupts, owed>>

(* writeDigitalInputFilter(): product I/O is left to the worker. *)
WriteFilter(b) ==
    /\ bound
    /\ filter' = IF b \in filter THEN filter \ {b} ELSE filter \cup {b}
    /\ stale' = TRUE
    /\ UNCHANGED <<bound, level, latched, requested, applied, interrupts, owed>>

WriteInterruptEnable ==
    /\ bound /\ interrupts' = ~interrupts
    /\ UNCHANGED <<bound, level, latched, requested, filter, applied, stale, owed>>

-----------------------------------------------------------------------------
(* forwardInputFilterConfiguration(): every bank is tried; the product     *)
(* takes those in good.                                                    *)
AnyApplied(good) == good # {}
AllApplied(good) == good = Banks

FiltersForwarded(good) ==
    /\ applied' = IF stale THEN (applied \ good) \cup (filter \cap good) ELSE applied
    /\ stale' = (stale /\ ~AllApplied(good))

(* The pass ends before any input is read as long as 16#6003 and the       *)
(* product disagree.                                                       *)
PassBlocked(good) ==
    /\ bound /\ stale /\ ~AllApplied(good)
    /\ FiltersForwarded(good)
    /\ UNCHANGED <<bound, level, latched, requested, filter, interrupts, owed>>

Event(b, now) ==
    /\ interrupts /\ now # level[b]
    /\ \/ b \in AnyEdge
       \/ b \in Rising /\ now
       \/ b \in Falling /\ ~now

Forgotten  == {}
Reasserted == latched

(* CO_401_digital_refreshInputs() on what the product reads: read are the  *)
(* banks it could read, high those of them whose input is active.          *)
RefreshInputs(good, read, high) ==
    LET fired == {b \in read : Event(b, b \in high)}
    IN  /\ bound /\ (stale => AllApplied(good))
        /\ FiltersForwarded(good)
        /\ level' = [b \in Banks |-> IF b \in read THEN b \in high ELSE level[b]]
        /\ latched' = latched \cup fired
        \* OD_requestTPDO() again, for CANopenNode has taken the flag away
        \* before it knew whether the frame was sent
        /\ requested' = requested \cup Reasserted \cup fired
        /\ owed' = owed \cup fired
        /\ UNCHANGED <<bound, filter, interrupts>>

-----------------------------------------------------------------------------
(* co_rt sends the TPDOs of the banks in sent: on request, or because an   *)
(* event timer or SYNC asks for them.  The request flags are taken before  *)
(* CO_CANsend().                                                           *)
RetiredAnyway(sent, ok) == latched \ sent
Retired(sent, ok)       == IF ok THEN latched \ sent ELSE latched

SendTpdo(sent, ok) ==
    /\ bound /\ sent # {}
    /\ requested' = requested \ sent
    /\ latched' = Retired(sent, ok)             \* onCanTxSuccess()
    /\ owed' = IF ok THEN owed \ sent ELSE owed
    /\ UNCHANGED <<bound, level, filter, applied, stale, interrupts>>

RequestedSent(b) == b \in requested /\ SendTpdo({b}, TRUE)

Worker ==
    \E good, read \in SUBSET Banks :
       \/ PassBlocked(good)
       \/ \E high \in SUBSET read : RefreshInputs(good, read, high)

Next ==
    \/ Bind \/ Unbind
    \/ \E b \in Banks : WriteFilter(b)
    \/ WriteInterruptEnable
    \/ Worker
    \/ \E b \in Banks, ok \in BOOLEAN : SendTpdo({b}, ok)

GoodPass ==
    \E read \in SUBSET Banks : \E high \in SUBSET read : RefreshInputs(Banks, read, high)

(* The worker runs again and again and the product does not refuse its     *)
(* filter for ever; a frame that is asked for again and again gets out.    *)
Fairness ==
    /\ SF_vars(GoodPass)
    /\ \A b \in Banks : SF_vars(RequestedSent(b))

Spec == Init /\ [][Next]_vars /\ Fairness

-----------------------------------------------------------------------------
TypeOK ==
    /\ {bound, stale, interrupts} \subseteq BOOLEAN
    /\ level \in [Banks -> BOOLEAN]
    /\ \A s \in {latched, requested, filter, applied, owed} : s \subseteq Banks

(* An event is remembered until a frame that carries the bank has left the *)
(* node, whatever becomes of the requests (CO_401_digital.c:46).           *)
EventsAreRemembered == TypeOK /\ (bound => owed \subseteq latched)

(* Inputs are published only while the product filters the way 16#6003     *)
(* says, also when a master rewrites it and the product refuses some banks *)
(* (CO_401_digital.c:71).                                                  *)
PublishedUnderFilter == [][level' # level => applied' = filter]_vars

(* Every event is reported, unless communication ends first. *)
EventOwed(b)      == b \in owed
EventSettled(b)   == b \notin owed \/ ~bound
EventsAreReported == \A b \in Banks : EventOwed(b) ~> EventSettled(b)
=============================================================================
