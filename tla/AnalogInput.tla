---------------------------- MODULE AnalogInput ----------------------------
(***************************************************************************)
(* One analogue input of a CiA 401 device (CO_401_analog.c): conditioning, *)
(* the comparators of 16#6421 and their references, the TPDO and SDO       *)
(* transfers that set a new reference, and the interrupt source 16#6422.   *)
(* Channels do not influence each other; comparators are in units of the   *)
(* process value (the code compares both sides multiplied by 2^16).        *)
(* Worker, TPDO processing and SDO reads run under the OD mutex, so each   *)
(* is one step.  The product and CANopenNode's TPDO processing are         *)
(* external.                                                               *)
(***************************************************************************)
EXTENDS Integers

CONSTANTS
    Raw,            \* what readAnalog16() may return
    MinValue,       \* INT16_MIN
    MaxValue,       \* INT16_MAX
    Conditionings,  \* pairs <<scaling 16#6432, offset 16#6431>> a master sets
    Triggers,       \* sets of comparators a master selects in 16#6421
    Upper, Lower,   \* 16#6424 and 16#6425
    Delta, NegativeDelta, PositiveDelta   \* 16#6426 to 16#6428

Comparators == {"upper", "lower", "delta", "negative", "positive"}
NoReference == MaxValue + 1

AnalogInputAssumption ==
    /\ MinValue \in Int /\ MaxValue \in Int
    /\ Raw \subseteq MinValue..MaxValue /\ 0 \in MinValue..MaxValue
    /\ Conditionings \subseteq Int \X Int /\ <<1, 0>> \in Conditionings
    /\ Triggers \subseteq SUBSET Comparators /\ Triggers # {}
    /\ Upper \in Int /\ Lower \in Int
    /\ {Delta, NegativeDelta, PositiveDelta} \subseteq Nat

VARIABLES
    attached,    \* the OD entries are bound
    value,       \* 16#6401
    reference,   \* analogLastCommunicated, NoReference if it is not valid
    unsent,      \* analogInputEventTpdoPending
    flagged,     \* the TPDO request flag of 16#6401 in the OD extension
    source,      \* the channel's bit in 16#6422
    sourceFlag,  \* the TPDO request flag of 16#6422
    trigger,     \* 16#6421
    enabled,     \* 16#6423
    conditioning,\* <<16#6432, 16#6431>>
    watched,     \* history: comparators selected, and enabled, all the time
                 \* since the reference was set
    eventOwed,   \* history: an event no transmitted frame has reported
    sourceOwed   \* history: an event whose source bit nobody has read

configVars == <<trigger, enabled, conditioning>>
eventVars  == <<unsent, source>>
vars == <<attached, value, reference, eventVars, flagged, sourceFlag, configVars,
          watched, eventOwed, sourceOwed>>

Init ==
    /\ attached = FALSE
    /\ value = 0 /\ reference = NoReference
    /\ unsent = FALSE /\ flagged = FALSE /\ source = FALSE /\ sourceFlag = FALSE
    /\ trigger \in Triggers /\ enabled = FALSE /\ conditioning = <<1, 0>>
    /\ watched = {} /\ eventOwed = FALSE /\ sourceOwed = FALSE

-----------------------------------------------------------------------------
(* bindOD(): references and unsent events end with their generation; the   *)
(* source bits are OD data and stay.                                       *)
Attach ==
    /\ ~attached /\ attached' = TRUE
    /\ reference' = NoReference /\ unsent' = FALSE /\ eventOwed' = FALSE
    /\ flagged' = FALSE /\ sourceFlag' = FALSE /\ watched' = {}
    /\ UNCHANGED <<value, source, configVars, sourceOwed>>

Detach ==
    /\ attached /\ attached' = FALSE
    /\ flagged' = FALSE /\ sourceFlag' = FALSE
    /\ UNCHANGED <<value, reference, eventVars, configVars, watched, eventOwed, sourceOwed>>

(* A master changes the configuration. *)
Configure ==
    /\ attached
    /\ \/ enabled' = ~enabled /\ UNCHANGED <<trigger, conditioning>>
       \/ trigger' \in Triggers \ {trigger} /\ UNCHANGED <<enabled, conditioning>>
       \/ conditioning' \in Conditionings \ {conditioning} /\ UNCHANGED <<trigger, enabled>>
    /\ watched' = IF enabled' THEN watched \cap trigger' ELSE {}
    /\ UNCHANGED <<attached, value, reference, eventVars, flagged, sourceFlag,
                   eventOwed, sourceOwed>>

-----------------------------------------------------------------------------
(* conditionProcess16Checked() *)
Conditioned(raw) == raw * conditioning[1] + conditioning[2]
Fits(raw)        == Conditioned(raw) \in MinValue..MaxValue

(* latchAnalogEvent(): a changed value fires if no comparator is selected, *)
(* or if one of those selected does; deltas count from the value that was  *)
(* last communicated.                                                      *)
LastSeen        == value
LastCommunicated == reference

Fires(now) ==
    LET rise == now - LastCommunicated
    IN  \/ trigger = {}
        \/ "upper" \in trigger /\ now >= Upper
        \/ "lower" \in trigger /\ now < Lower
        \/ /\ reference # NoReference
           /\ \/ "delta" \in trigger /\ (rise > Delta \/ -rise > Delta)
              \/ "negative" \in trigger /\ -rise > NegativeDelta
              \/ "positive" \in trigger /\ rise > PositiveDelta

Forgotten  == FALSE
Reasserted == unsent'

(* CO_401_analog_refreshInputs() for the channel.  A reading that fails or *)
(* that conditioning takes out of range leaves the value alone; requests   *)
(* are made anew in any case.                                              *)
RefreshInput(raw) ==
    LET now   == IF Fits(raw) THEN Conditioned(raw) ELSE value
        fired == enabled /\ now # value /\ Fires(now)
    IN  /\ attached
        /\ value' = now
        /\ unsent' = (unsent \/ fired) /\ source' = (source \/ fired)
        /\ flagged' = (flagged \/ Reasserted) /\ sourceFlag' = (sourceFlag \/ source')
        /\ eventOwed' = (eventOwed \/ fired) /\ sourceOwed' = (sourceOwed \/ fired)
        /\ UNCHANGED <<attached, reference, configVars, watched>>

ReadFails ==
    /\ attached
    /\ flagged' = (flagged \/ unsent) /\ sourceFlag' = (sourceFlag \/ source)
    /\ UNCHANGED <<attached, value, reference, eventVars, configVars, watched, eventOwed, sourceOwed>>

-----------------------------------------------------------------------------
(* Communication of the value *)

SetReference == reference' = value /\ watched' = IF enabled THEN trigger ELSE {}

(* CANopenNode takes the request flag before CO_CANsend(); onCanTxSuccess()*)
(* commits what the frame carried.                                         *)
RetiredAnyway(ok) == FALSE
Retired(ok)       == IF ok THEN FALSE ELSE unsent

SendValue(ok) ==
    /\ attached
    /\ flagged' = FALSE
    /\ unsent' = Retired(ok)
    /\ IF ok THEN SetReference /\ eventOwed' = FALSE
       ELSE UNCHANGED <<reference, watched, eventOwed>>
    /\ UNCHANGED <<attached, value, source, sourceFlag, configVars, sourceOwed>>

(* readAnalogInput16() for an SDO client: a reference, but no TPDO *)
SdoReadsValue ==
    /\ attached
    /\ SetReference
    /\ UNCHANGED <<attached, value, eventVars, flagged, sourceFlag, configVars,
                   eventOwed, sourceOwed>>

(* The source bits a frame carried, or an SDO client read, are consumed;   *)
(* without success nothing is.                                             *)
ConsumedAnyway(ok) == FALSE
Consumed(ok)       == IF ok THEN FALSE ELSE source

SendSource(ok) ==
    /\ attached
    /\ sourceFlag' = FALSE
    /\ source' = Consumed(ok)
    /\ sourceOwed' = (sourceOwed /\ ~ok)
    /\ UNCHANGED <<attached, value, reference, unsent, flagged, configVars, watched, eventOwed>>

SdoReadsSource ==
    /\ attached
    /\ source' = Consumed(TRUE) /\ sourceOwed' = FALSE
    /\ UNCHANGED <<attached, value, reference, unsent, flagged, sourceFlag,
                   configVars, watched, eventOwed>>

AnalogPass == (\E raw \in Raw : RefreshInput(raw)) \/ ReadFails

Next ==
    \/ Attach \/ Detach \/ Configure
    \/ AnalogPass
    \/ \E ok \in BOOLEAN : SendValue(ok) \/ SendSource(ok)
    \/ SdoReadsValue \/ SdoReadsSource

(* The worker runs again and again; a frame asked for again and again gets *)
(* out.                                                                    *)
Fairness ==
    /\ WF_vars(AnalogPass)
    /\ SF_vars(flagged /\ SendValue(TRUE))
    /\ SF_vars(sourceFlag /\ SendSource(TRUE))

Spec == Init /\ [][Next]_vars /\ Fairness

-----------------------------------------------------------------------------
TypeOK ==
    /\ value \in MinValue..MaxValue /\ reference \in MinValue..NoReference
    /\ {attached, unsent, flagged, source, sourceFlag, enabled, eventOwed,
        sourceOwed} \subseteq BOOLEAN
    /\ trigger \in Triggers /\ conditioning \in Conditionings
    /\ watched \subseteq Comparators

(* Slow drift is not lost: while a delta comparator watches, the value is  *)
(* within the delta of what was last communicated, or a frame is pending   *)
(* (CO_401_analog.c:107).                                                  *)
DriftIsReported ==
    attached /\ ~unsent /\ reference # NoReference =>
        /\ "delta" \in watched => value - reference \in -Delta..Delta
        /\ "negative" \in watched => reference - value <= NegativeDelta
        /\ "positive" \in watched => value - reference <= PositiveDelta

(* An event, and the bit that says which channel it came from, last until  *)
(* a frame or an SDO client has carried them away (CO_401_analog.c:147,    *)
(* CO_401_device.c:287).                                                   *)
EventsLast == attached => (eventOwed => unsent) /\ (sourceOwed => source)

AnalogInputIsSafe == TypeOK /\ DriftIsReported /\ EventsLast

(* Every event is reported, unless communication ends first. *)
EventSettled           == ~eventOwed \/ ~attached
ValueEventsAreReported == eventOwed ~> EventSettled
=============================================================================
