---------------------------- MODULE OutputSafety ----------------------------
(***************************************************************************)
(* The outputs of a CiA 401 device: CO_401_digital.c and CO_401_analog.c   *)
(* apply commands or fault values, CO_401_device_RTT.c decides which.      *)
(* co_main reports NMT transitions and resets communication, the worker    *)
(* runs passes, both under lifecycleMutex; a pass gives up the OD mutex    *)
(* between classifying faults and applying outputs, so that SDO and RPDO   *)
(* writes, product faults and bus-off come between.  Of an output's value  *)
(* only "driven by its command" and "safe" are told apart.  The product    *)
(* and CANopenNode's NMT and EMCY objects are external.                    *)
(***************************************************************************)
CONSTANTS
    Outputs,
    ErrorMode   \* "value": 16#6206/16#6443 selects the fault value; "keep": it
                \* keeps the output; "blocked": 16#6208 filters every write;
                \* "reserved": a mode of 16#6443 the device does not know

Modes     == {"value", "keep", "blocked", "reserved"}
NmtStates == {"PRE_OPERATIONAL", "OPERATIONAL", "STOPPED"}
Unknown   == "UNKNOWN"      \* also the INITIALIZING of a new CO_t

OutputSafetyAssumption == ErrorMode \in [Outputs -> Modes]

VARIABLES
    communicating, \* communicationReady
    nmt,           \* nmtState
    stopPending,   \* nmtStoppedApplyPending
    operational,   \* nmtOperational
    warned,        \* analogWarningReported
    emcyBit,       \* CO_401_RTT_EMCY_STATUS_BIT in CO_EM_t
    watching,      \* 16#6423
    supervised,    \* outputSupervisionReady
    peerKnown,     \* the product: supervision has been established,
    peerLost,      \* ... and its peer is lost
    busOff,        \* CO_EM_CAN_TX_BUS_OFF
    localFault,    \* digitalOutputFaultActive, analogOutputFaultActive
    commanded,     \* history: a network write has reached 16#6200 or 16#6411
    passFault,     \* the running pass' communicationFault, "none" between passes
    physical,      \* the output itself
    mustStop       \* history: since an NMT Stopped of this generation the
                   \* outputs have not all been safe at the end of a pass

nmtVars     == <<communicating, nmt, operational, warned, emcyBit>>
productVars == <<peerKnown, peerLost, busOff, localFault>>
vars == <<nmtVars, stopPending, watching, supervised, productVars, commanded,
          passFault, physical, mustStop>>

Init ==
    /\ communicating = FALSE /\ nmt = Unknown /\ operational = FALSE
    /\ warned = FALSE /\ emcyBit = FALSE
    /\ stopPending = FALSE /\ watching = FALSE /\ supervised = FALSE
    /\ peerKnown = FALSE /\ peerLost = FALSE /\ busOff = FALSE /\ localFault = FALSE
    /\ commanded = FALSE /\ passFault = "none"
    /\ physical \in [Outputs -> {"safe", "driven"}]
    /\ mustStop = FALSE

NoPass == passFault = "none"    \* lifecycleMutex is free for co_main

-----------------------------------------------------------------------------
(* onNmtStateChanged() *)
NotSticky(s) == FALSE
Sticky(s)    == stopPending \/ s = "STOPPED"

NmtStateChanged(s) ==
    LET event == s = "OPERATIONAL" /\ ~operational /\ ~watching
        clear == s # "OPERATIONAL" /\ warned
    IN  /\ NoPass /\ communicating /\ s # nmt
        /\ nmt' = s /\ operational' = (s = "OPERATIONAL")
        /\ stopPending' = Sticky(s)
        /\ warned'  = (event \/ (warned /\ ~clear))
        /\ emcyBit' = (event \/ (emcyBit /\ ~clear))
        /\ mustStop' = (mustStop \/ s = "STOPPED")
        /\ UNCHANGED <<communicating, watching, supervised, productVars, commanded,
                       passFault, physical>>

(* onStop(), after which the old CO_EM_t is deleted *)
StillWarned == warned
NotWarned   == FALSE

CommunicationStop ==
    /\ NoPass /\ communicating /\ communicating' = FALSE
    /\ nmt' = Unknown /\ stopPending' = FALSE /\ operational' = FALSE
    /\ warned' = NotWarned /\ emcyBit' = FALSE
    /\ mustStop' = FALSE
    /\ UNCHANGED <<watching, supervised, productVars, commanded, passFault, physical>>

(* onBind() and onReady() *)
CommunicationReady ==
    /\ NoPass /\ ~communicating /\ communicating' = TRUE
    /\ stopPending' = FALSE
    /\ nmt' = Unknown
    /\ UNCHANGED <<operational, warned, emcyBit, watching, supervised, productVars,
                   commanded, passFault, physical, mustStop>>

-----------------------------------------------------------------------------
(* The product, and the network *)

ProductMoves ==
    /\ \/ peerKnown' = TRUE /\ UNCHANGED <<peerLost, busOff, localFault>>
       \/ peerLost' = ~peerLost /\ UNCHANGED <<peerKnown, busOff, localFault>>
       \/ busOff' = ~busOff /\ UNCHANGED <<peerKnown, peerLost, localFault>>
       \/ localFault' = ~localFault /\ UNCHANGED <<peerKnown, peerLost, busOff>>
    /\ UNCHANGED <<nmtVars, stopPending, watching, supervised, commanded, passFault,
                   physical, mustStop>>

(* writeOutputCommand(): the gate asks the product itself while the worker *)
(* has not yet seen the fact; it takes the write or refuses it.            *)
GateOpen   == TRUE
Supervised == supervised \/ (communicating /\ peerKnown)

WriteCommand ==
    /\ communicating /\ Supervised
    /\ supervised' = (supervised \/ peerKnown)
    /\ commanded' = TRUE
    /\ UNCHANGED <<nmtVars, stopPending, watching, productVars, passFault, physical, mustStop>>

WriteInterruptEnable ==
    /\ communicating /\ watching' = ~watching
    /\ UNCHANGED <<nmtVars, stopPending, supervised, productVars, commanded, passFault,
                   physical, mustStop>>

-----------------------------------------------------------------------------
(* processPassLocked() *)

(* hasOutputCommunicationFault(), outside the OD mutex: a lost peer counts *)
(* once supervision is established.                                        *)
CommunicationFault(ready) == busOff \/ (ready /\ peerLost)

Classify ==
    LET ready == supervised \/ peerKnown
    IN  /\ NoPass /\ communicating
        /\ supervised' = ready
        /\ passFault' = IF CommunicationFault(ready) THEN "fault" ELSE "good"
        /\ UNCHANGED <<nmtVars, stopPending, watching, productVars, commanded, physical, mustStop>>

Stopping == nmt = "STOPPED" \/ stopPending
FailSafe == localFault \/ Stopping \/ passFault = "fault"

Attempted(good) == TRUE
Complete(good)  == \A o \in Outputs : ErrorMode[o] = "value" => o \in good
Done(good)      == Complete(good) /\ \A o \in Outputs : ErrorMode[o] # "reserved"

(* What the outputs in good become; the product refuses the others. *)
Written(o, good) ==
    IF o \notin good \/ ErrorMode[o] = "blocked" THEN physical[o]
    ELSE IF ~FailSafe THEN "driven"
    ELSE IF ErrorMode[o] = "value" THEN "safe" ELSE physical[o]

Apply(good) ==
    /\ ~NoPass
    /\ physical' = [o \in Outputs |-> Written(o, good)]
    /\ stopPending' = (stopPending /\ ~Done(good))
    /\ mustStop' = (mustStop /\ \E o \in Outputs :
                       \/ ErrorMode[o] = "reserved"
                       \/ ErrorMode[o] = "value" /\ physical'[o] # "safe")
    /\ passFault' = "none"
    /\ UNCHANGED <<nmtVars, watching, supervised, productVars, commanded>>

Next ==
    \/ \E s \in NmtStates : NmtStateChanged(s)
    \/ CommunicationStop \/ CommunicationReady
    \/ ProductMoves \/ WriteCommand \/ WriteInterruptEnable
    \/ Classify \/ \E good \in SUBSET Outputs : Apply(good)

(* The worker runs again and again, and the product does not refuse its    *)
(* outputs for ever.                                                       *)
Fairness ==
    /\ WF_vars(Classify) /\ WF_vars(\E good \in SUBSET Outputs : Apply(good))
    /\ SF_vars(Apply(Outputs))

Spec == Init /\ [][Next]_vars /\ Fairness

-----------------------------------------------------------------------------
TypeOK ==
    /\ nmt \in NmtStates \cup {Unknown}
    /\ {communicating, stopPending, operational, warned, emcyBit, watching, supervised,
        peerKnown, peerLost, busOff, localFault, commanded, mustStop} \subseteq BOOLEAN
    /\ passFault \in {"none", "good", "fault"}
    /\ physical \in [Outputs -> {"safe", "driven"}]

(* The EMCY condition of the device and the flag that clears it agree,     *)
(* also across resets, and stand only in Operational                       *)
(* (CO_401_device_RTT.c:372).                                              *)
WarningFollowsState ==
    /\ warned = emcyBit
    /\ emcyBit => nmt = "OPERATIONAL"

(* No command comes from the network before the peer that has to be        *)
(* supervised was seen, by the worker or by the gate                       *)
(* (CO_401_device_od.c:422).                                               *)
CommandsAreSupervised == commanded => supervised /\ peerKnown

(* A Stopped that has not been served is not forgotten. *)
StopIsRemembered == mustStop => Stopping

OutputStateIsSafe ==
    TypeOK /\ WarningFollowsState /\ CommandsAreSupervised /\ StopIsRemembered

(* From an NMT Stopped until all outputs have been made safe, no output    *)
(* goes back to its command, not even after a Start that came before the   *)
(* worker ran, or when some writes fail (CO_401_device_RTT.c:441).         *)
StopComesFirst ==
    [][mustStop => \A o \in Outputs : physical'[o] = "driven" => physical[o] = "driven"]_vars

(* A Stopped brings the outputs to safety, unless communication is reset   *)
(* first; an error mode the device does not know stands in its way for     *)
(* ever.                                                                   *)
StopReachesOutputs ==
    (\A o \in Outputs : ErrorMode[o] # "reserved") => (mustStop ~> ~mustStop)
=============================================================================
