-------------------------- MODULE Profiles_proofs ---------------------------
(***************************************************************************)
(* Proofs about the profile components, for every value of the constants.  *)
(* Each component has a section of its own: its inductive invariant, the   *)
(* lemmas about its steps, and what follows.                               *)
(***************************************************************************)
EXTENDS Profiles, TLAPS

(* A behaviour starts in an initial state of every component. *)
LEMMA Starts ==
    Init => Drive!Init /\ Digital!Init /\ Analog!Init /\ Output!Init /\ Motion!Init
            /\ Shell!Init /\ Argument!Init /\ Demo!Init /\ Link!Init
BY DEF Init

(* Every step is a step of each component or leaves it alone. *)
LEMMA Steps ==
    [Next]_vars =>
        /\ [Drive!Next]_(Drive!vars)
        /\ [Digital!Next]_(Digital!vars)
        /\ [Analog!Next]_(Analog!vars)
        /\ [Output!Next]_(Output!vars)
        /\ [Motion!Next]_(Motion!vars)
        /\ [Shell!Next]_(Shell!vars)
        /\ [Argument!Next]_(Argument!vars)
        /\ [Demo!Next]_(Demo!vars)
        /\ [Link!Next]_(Link!vars)
<1> SUFFICES ASSUME [Next]_vars
             PROVE  /\ [Drive!Next]_(Drive!vars)
                    /\ [Digital!Next]_(Digital!vars)
                    /\ [Analog!Next]_(Analog!vars)
                    /\ [Output!Next]_(Output!vars)
                    /\ [Motion!Next]_(Motion!vars)
                    /\ [Shell!Next]_(Shell!vars)
                    /\ [Argument!Next]_(Argument!vars)
                    /\ [Demo!Next]_(Demo!vars)
                    /\ [Link!Next]_(Link!vars)
  OBVIOUS
<1>1. UNCHANGED driveVars => UNCHANGED Drive!vars
  BY DEF driveVars, Drive!vars, Drive!coreVars, Drive!clientVars, Drive!driveVars, Drive!timeVars
<1>2. UNCHANGED digitalVars => UNCHANGED Digital!vars
  BY DEF digitalVars, Digital!vars
<1>3. UNCHANGED analogVars => UNCHANGED Analog!vars
  BY DEF analogVars, Analog!vars, Analog!configVars, Analog!eventVars
<1>4. UNCHANGED outputVars => UNCHANGED Output!vars
  BY DEF outputVars, Output!vars, Output!nmtVars, Output!productVars
<1>5. UNCHANGED motionVars => UNCHANGED Motion!vars
  BY DEF motionVars, Motion!vars, Motion!axisVars, Motion!orderVars, Motion!seenVars
<1>6. UNCHANGED shellVars => UNCHANGED Shell!vars
  BY DEF shellVars, Shell!vars, Shell!mutexes, Shell!runtime, Shell!console, Shell!worker
<1>7. UNCHANGED argumentVars => UNCHANGED Argument!vars
  BY DEF argumentVars, Argument!vars
<1>8. UNCHANGED demoVars => UNCHANGED Demo!vars
  BY DEF demoVars, Demo!vars
<1>9. UNCHANGED linkVars => UNCHANGED Link!vars
  BY DEF linkVars, Link!vars, Link!device, Link!controller, Link!written
<1>10. CASE UNCHANGED vars
  BY <1>1, <1>2, <1>3, <1>4, <1>5, <1>6, <1>7, <1>8, <1>9, <1>10 DEF vars
<1>11. CASE Next
  BY <1>1, <1>2, <1>3, <1>4, <1>5, <1>6, <1>7, <1>8, <1>9, <1>11 DEF Next, In
<1> QED
  BY <1>10, <1>11

-----------------------------------------------------------------------------
(***************************************************************************)
(* Proofs about OutputSafety: for any outputs and any error modes, an NMT  *)
(* Stopped is served before any output is driven again, the warning of     *)
(* the device stands only in Operational, and no unsupervised command is   *)
(* taken.                                                                  *)
(***************************************************************************)

(* Without communication there is no NMT state, and nothing is left of the *)
(* generation that has ended.                                              *)
QuietInv == ~communicating => nmt = Output!Unknown /\ ~warned /\ ~mustStop

SupervisionInv ==
    /\ supervised => peerKnown
    /\ commanded => supervised

(* The pending flag alone keeps a Stopped, since nmt may have moved on.    *)
PendingInv == mustStop => stopPending

OutputInv == Output!TypeOK /\ Output!WarningFollowsState /\ QuietInv /\ SupervisionInv /\ PendingInv

-----------------------------------------------------------------------------
(* A pass that had a Stopped to serve drives nothing, and forgets it only  *)
(* with every output that has a fault value at this value.                 *)
LEMMA ApplyStops ==
    ASSUME OutputInv, NEW good \in SUBSET Outputs, Output!Apply(good), mustStop
    PROVE  /\ \A o \in Outputs : physical'[o] = "driven" => physical[o] = "driven"
           /\ mustStop' => stopPending'
<1> USE DEF Output!Apply, OutputInv, Output!TypeOK
<1>1. Output!FailSafe
  BY DEF Output!FailSafe, Output!Stopping, PendingInv
<1>2. ASSUME NEW o \in Outputs
      PROVE  /\ physical'[o] = Output!Written(o, good)
             /\ physical'[o] = "driven" => physical[o] = "driven"
             /\ o \in good /\ ErrorMode[o] = "value" => physical'[o] = "safe"
  BY <1>1, <1>2 DEF Output!Written
<1>3. Output!Done(good) => ~mustStop'
  BY <1>2 DEF Output!Done, Output!Complete
<1> QED
  BY <1>2, <1>3 DEF PendingInv

(* The types survive every step; those of the outputs those of a pass.     *)
LEMMA TypeStep == OutputInv /\ [Output!Next]_(Output!vars) => Output!TypeOK'
<1> SUFFICES ASSUME OutputInv, [Output!Next]_(Output!vars) PROVE Output!TypeOK'
  OBVIOUS
<1> USE DEF OutputInv, Output!TypeOK, Output!nmtVars, Output!productVars
<1>1. ASSUME NEW s \in Output!NmtStates, Output!NmtStateChanged(s) PROVE Output!TypeOK'
  BY <1>1 DEF Output!NmtStateChanged, Output!Sticky
<1>2. CASE Output!CommunicationStop
  BY <1>2 DEF Output!CommunicationStop, Output!NotWarned
<1>3. CASE Output!CommunicationReady
  BY <1>3 DEF Output!CommunicationReady
<1>4. CASE Output!ProductMoves
  BY <1>4 DEF Output!ProductMoves
<1>5. CASE Output!WriteCommand \/ Output!WriteInterruptEnable
  BY <1>5 DEF Output!WriteCommand, Output!WriteInterruptEnable
<1>6. CASE Output!Classify
  BY <1>6 DEF Output!Classify
<1>7. ASSUME NEW good \in SUBSET Outputs, Output!Apply(good) PROVE Output!TypeOK'
  <2>1. physical' \in [Outputs -> {"safe", "driven"}]
    BY <1>7 DEF Output!Apply, Output!Written
  <2>2. stopPending' \in BOOLEAN /\ mustStop' \in BOOLEAN
    BY <1>7 DEF Output!Apply
  <2> QED
    BY <1>7, <2>1, <2>2 DEF Output!Apply
<1>8. CASE UNCHANGED Output!vars
  BY <1>8 DEF Output!vars
<1> QED
  BY <1>1, <1>2, <1>3, <1>4, <1>5, <1>6, <1>7, <1>8 DEF Output!Next

(* Every step keeps the invariant. *)
LEMMA OutputStep == OutputInv /\ [Output!Next]_(Output!vars) => OutputInv'
<1> SUFFICES ASSUME OutputInv, [Output!Next]_(Output!vars) PROVE OutputInv'
  OBVIOUS
<1>0. Output!TypeOK'
  BY TypeStep
<1> DEFINE Rest == Output!WarningFollowsState /\ QuietInv /\ SupervisionInv /\ PendingInv
<1> SUFFICES Rest'
  BY <1>0 DEF OutputInv
<1> USE DEF OutputInv, Output!WarningFollowsState, QuietInv, SupervisionInv, PendingInv,
            Output!nmtVars, Output!productVars
<1>1. ASSUME NEW s \in Output!NmtStates, Output!NmtStateChanged(s) PROVE Rest'
  BY <1>1 DEF Output!NmtStateChanged, Output!Sticky, Output!TypeOK
<1>2. CASE Output!CommunicationStop
  BY <1>2 DEF Output!CommunicationStop, Output!NotWarned
<1>3. CASE Output!CommunicationReady
  BY <1>3 DEF Output!CommunicationReady
<1>4. CASE Output!ProductMoves
  BY <1>4 DEF Output!ProductMoves
<1>5. CASE Output!WriteCommand
  BY <1>5 DEF Output!WriteCommand, Output!Supervised
<1>6. CASE Output!WriteInterruptEnable
  BY <1>6 DEF Output!WriteInterruptEnable
<1>7. CASE Output!Classify
  BY <1>7 DEF Output!Classify
<1>8. ASSUME NEW good \in SUBSET Outputs, Output!Apply(good) PROVE Rest'
  <2>1. UNCHANGED <<Output!nmtVars, watching, supervised, Output!productVars, commanded>>
    BY <1>8 DEF Output!Apply
  <2>2. mustStop' => mustStop
    BY <1>8 DEF Output!Apply
  <2>3. PendingInv'
    BY <1>8, <2>2, ApplyStops
  <2> QED
    BY <2>1, <2>2, <2>3
<1>9. CASE UNCHANGED Output!vars
  BY <1>9 DEF Output!vars
<1> QED
  BY <1>1, <1>2, <1>3, <1>4, <1>5, <1>6, <1>7, <1>8, <1>9 DEF Output!Next

(* The invariant holds throughout. *)
LEMMA OutputInvariance == Spec => []OutputInv
<1>1. Output!Init => OutputInv
  BY DEF Output!Init, OutputInv, Output!TypeOK, Output!WarningFollowsState, QuietInv,
     SupervisionInv, PendingInv, Output!Unknown
<1> QED
  BY <1>1, OutputStep, Starts, Steps, PTL DEF Spec

-----------------------------------------------------------------------------
(* The EMCY condition of CO_401_device_RTT.c:372 agrees with the NMT state *)
(* across resets, every command had its peer supervised, and a Stopped     *)
(* that was not served is known to the next pass.                          *)
THEOREM OutputStateSafe == Spec => []Output!OutputStateIsSafe
<1>1. OutputInv => Output!OutputStateIsSafe
  BY DEF OutputInv, Output!OutputStateIsSafe, SupervisionInv, PendingInv,
     Output!CommandsAreSupervised,
         Output!StopIsRemembered, Output!Stopping
<1> QED
  BY <1>1, OutputInvariance, PTL

(* No output is driven again from an NMT Stopped until all are safe, also  *)
(* when a Start comes before the worker runs (CO_401_device_RTT.c:441).    *)
THEOREM StopFirst == Spec => Output!StopComesFirst
<1> DEFINE Kept == \A o \in Outputs : physical'[o] = "driven" => physical[o] = "driven"
<1>1. OutputInv /\ [Output!Next]_(Output!vars) => [mustStop => Kept]_(Output!vars)
  <2> SUFFICES ASSUME OutputInv, Output!Next, mustStop PROVE Kept
    OBVIOUS
  <2>1. CASE UNCHANGED physical
    BY <2>1
  <2>2. ASSUME NEW good \in SUBSET Outputs, Output!Apply(good) PROVE Kept
    BY <2>2, ApplyStops
  <2> QED
    BY <2>1, <2>2 DEF Output!Next, Output!NmtStateChanged, Output!CommunicationStop,
       Output!CommunicationReady,
       Output!ProductMoves, Output!WriteCommand, Output!WriteInterruptEnable, Output!Classify
<1> QED
  BY <1>1, OutputInvariance, Starts, Steps, PTL DEF Spec, Output!StopComesFirst

-----------------------------------------------------------------------------
(***************************************************************************)
(* Proofs about DigitalInput: for any banks and edges, an event is         *)
(* remembered until it is on the bus, and no input is published under a    *)
(* filter the product has not taken.                                       *)
(***************************************************************************)

(* The product's filter is known once nothing is left to forward. *)
FilterInv == inputBound /\ ~stale => applied = filter

DigitalInv == Digital!EventsAreRemembered /\ FilterInv

-----------------------------------------------------------------------------
(* A pass of the worker that the product's filter lets through. *)
LEMMA RefreshStep ==
    ASSUME DigitalInv, NEW good \in SUBSET Banks, NEW read \in SUBSET Banks,
           NEW high \in SUBSET read, Digital!RefreshInputs(good, read, high)
    PROVE  DigitalInv' /\ applied' = filter
<1> DEFINE fired == {b \in read : Digital!Event(b, b \in high)}
<1> USE DEF DigitalInv, Digital!EventsAreRemembered, FilterInv, Digital!TypeOK
<1>1. /\ inputBound /\ (stale => good = Banks)
      /\ applied' = (IF stale THEN (applied \ good) \cup (filter \cap good) ELSE applied)
      /\ stale' = (stale /\ ~(good = Banks))
      /\ level' = [b \in Banks |-> IF b \in read THEN b \in high ELSE level[b]]
      /\ latched' = latched \cup fired
      /\ requested' = (requested \cup latched) \cup fired
      /\ digitalOwed' = digitalOwed \cup fired
      /\ UNCHANGED <<inputBound, filter, interrupts>>
  BY DEF Digital!RefreshInputs, Digital!FiltersForwarded, Digital!AllApplied, Digital!Reasserted
<1> HIDE DEF fired
<1>2. fired \subseteq Banks
  BY DEF fired
<1>3. applied' = filter /\ ~stale'
  BY <1>1
<1>4. level' \in [Banks -> BOOLEAN]
  <2> DEFINE new(b) == IF b \in read THEN b \in high ELSE level[b]
  <2>1. \A b \in Banks : new(b) \in BOOLEAN
    <3> SUFFICES ASSUME NEW b \in Banks PROVE new(b) \in BOOLEAN
      OBVIOUS
    <3>1. (b \in high) \in BOOLEAN
      BY SMT
    <3>2. level[b] \in BOOLEAN
      BY SMT
    <3>3. CASE b \in read
      BY <3>1, <3>3
    <3>4. CASE b \notin read
      BY <3>2, <3>4
    <3> QED
      BY <3>3, <3>4
  <2>2. level' = [b \in Banks |-> new(b)]
    BY <1>1, Zenon
  <2> HIDE DEF new
  <2> QED
    BY <2>1, <2>2
<1>5. Digital!TypeOK'
  BY <1>1, <1>2, <1>3, <1>4
<1>6. digitalOwed' \subseteq latched'
  BY <1>1
<1> QED
  BY <1>1, <1>3, <1>5, <1>6

(* Every step keeps the invariant. *)
LEMMA DigitalStep == DigitalInv /\ [Digital!Next]_(Digital!vars) => DigitalInv'
<1> SUFFICES ASSUME DigitalInv, [Digital!Next]_(Digital!vars) PROVE DigitalInv'
  OBVIOUS
<1> USE DEF DigitalInv, Digital!EventsAreRemembered, FilterInv, Digital!TypeOK
<1>1. CASE Digital!Bind
  BY <1>1 DEF Digital!Bind
<1>2. CASE Digital!Unbind
  BY <1>2 DEF Digital!Unbind
<1>3. ASSUME NEW b \in Banks, Digital!WriteFilter(b) PROVE DigitalInv'
  BY <1>3 DEF Digital!WriteFilter
<1>4. CASE Digital!WriteInterruptEnable
  BY <1>4 DEF Digital!WriteInterruptEnable
<1>5. ASSUME NEW good \in SUBSET Banks, Digital!PassBlocked(good) PROVE DigitalInv'
  BY <1>5 DEF Digital!PassBlocked, Digital!FiltersForwarded, Digital!AllApplied
<1>6. ASSUME NEW good \in SUBSET Banks, NEW read \in SUBSET Banks,
             NEW high \in SUBSET read, Digital!RefreshInputs(good, read, high)
      PROVE  DigitalInv'
  BY <1>6, RefreshStep
<1>7. ASSUME NEW b \in Banks, NEW ok \in BOOLEAN, Digital!SendTpdo({b}, ok) PROVE DigitalInv'
  BY <1>7 DEF Digital!SendTpdo, Digital!Retired
<1>8. CASE UNCHANGED Digital!vars
  BY <1>8 DEF Digital!vars
<1> QED
  BY <1>1, <1>2, <1>3, <1>4, <1>5, <1>6, <1>7, <1>8 DEF Digital!Next, Digital!Worker

(* The invariant holds throughout. *)
LEMMA DigitalInvariance == Spec => []DigitalInv
<1>1. Digital!Init => DigitalInv
  BY DEF Digital!Init, DigitalInv, Digital!EventsAreRemembered, FilterInv, Digital!TypeOK
<1> QED
  BY <1>1, DigitalStep, Starts, Steps, PTL DEF Spec

-----------------------------------------------------------------------------
(* An event of any bank stays latched, whatever becomes of its requests,   *)
(* until a frame with the bank has left the node (CO_401_digital.c:46).    *)
THEOREM EventsLast == Spec => []Digital!EventsAreRemembered
<1>1. DigitalInv => Digital!EventsAreRemembered
  BY DEF DigitalInv
<1> QED
  BY <1>1, DigitalInvariance, PTL

(* Inputs are published only while the product filters as 16#6003 says     *)
(* (CO_401_digital.c:71).                                                  *)
THEOREM FiltersComeFirst == Spec => Digital!PublishedUnderFilter
<1>1. DigitalInv /\ [Digital!Next]_(Digital!vars) => [level' # level => applied' =
    filter]_(Digital!vars)
  <2> SUFFICES ASSUME DigitalInv, Digital!Next, level' # level PROVE applied' = filter
    OBVIOUS
  <2>1. PICK good \in SUBSET Banks, read \in SUBSET Banks :
           \E high \in SUBSET read : Digital!RefreshInputs(good, read, high)
    BY DEF Digital!Next, Digital!Worker, Digital!Bind, Digital!Unbind, Digital!WriteFilter,
       Digital!WriteInterruptEnable, Digital!PassBlocked, Digital!SendTpdo
  <2> QED
    BY <2>1, RefreshStep
<1> QED
  BY <1>1, DigitalInvariance, Starts, Steps, PTL DEF Spec, Digital!PublishedUnderFilter

-----------------------------------------------------------------------------
(***************************************************************************)
(* Proofs about PowerLink: whatever bits the modes put into the two words, *)
(* the sides understand each other, every transition of the device brings  *)
(* it nearer to the target its command was written for, and it is enabled  *)
(* only for a target set after its last fault.                             *)
(***************************************************************************)

States   == Link!Targets \cup {"notReady", "reaction", "fault"}
Commands == {"disableVoltage", "quickStop", "shutdown", "switchOn", "enable", "faultReset"}

(* What a command makes of a drive in a state of its own accord. *)
Next1(s, c) ==
    CASE s = "switchOnDisabled" /\ c = "shutdown"             -> "ready"
      [] s \in Link!Targets /\ c = "disableVoltage"                -> "switchOnDisabled"
      [] s \in {"switchedOn", "enabled"} /\ c = "shutdown"    -> "ready"
      [] s \in {"ready", "enabled"} /\ c = "switchOn"         -> "switchedOn"
      [] s = "switchedOn" /\ c = "enable"                     -> "enabled"
      [] s = "enabled" /\ c = "quickStop"                     -> "quickStop"
      [] OTHER                                                -> s

Approach(s, c, g) ==
    Next1(s, c) # s => g \in Link!Targets /\ Link!Distance(Next1(s, c), g) < Link!Distance(s, g)

-----------------------------------------------------------------------------
TypeInv ==
    /\ linkState \in States /\ publishedState \in States
    /\ commandedWord \in Commands
    /\ linkTarget \in Link!Targets \cup {"none"} /\ goal \in Link!Targets \cup {"none"}
    /\ linkRemote \in States \cup {"unknown"}
    /\ {previousBit, linkAsked, linkPulse, fresh, intended} \subseteq BOOLEAN

(* What the two words hold. *)
WordInv ==
    /\ \E bits \in SUBSET StatusBits : statusword = Link!StatuswordFor(publishedState) \cup bits
    /\ controlword \cap Link!PdsMask = Link!UpdateFor(commandedWord)
    /\ controlword \ Link!PdsMask = modeBits
    /\ modeBits \subseteq ControlBits

(* The last Statusword speaks of the present state, or of the one in which *)
(* the drive has failed.                                                   *)
PublishInv == linkState = publishedState \/ (linkState = "reaction" /\
    publishedState \in Link!Targets)

(* The reset pulse is up exactly while its command is in the word, and     *)
(* there it meets no drive that works.  Nothing is commanded until the     *)
(* drive is ready.                                                         *)
LinkPulseInv ==
    /\ linkPulse <=> commandedWord = "faultReset"
    /\ linkPulse => linkTarget = "none" /\ linkState \in {"reaction", "fault", "switchOnDisabled"}
    /\ linkState = "notReady" => commandedWord = "disableVoltage"

(* A reading is at most one transition of the standing command old, or the *)
(* drive has failed since; a failed drive stays so until a pulse.          *)
ReadingInv ==
    fresh /\ ~linkPulse =>
        /\ \/ linkState \in {linkRemote, "reaction", "fault"}
           \/ linkRemote \in Link!Targets /\ linkState = Next1(linkRemote, commandedWord)
           \/ /\ linkRemote = "notReady" /\ linkState = "switchOnDisabled"
              /\ commandedWord = "disableVoltage"
        /\ linkRemote = "fault" => linkState = "fault"

(* The standing command leads to its goal from wherever the drive is. *)
GoalInv == linkState \in Link!Targets => Approach(linkState, commandedWord, goal)

(* Without an intention the drive has a fault, or nothing enables it.      *)
IntentInv ==
    ~intended =>
        \/ linkState \in {"reaction", "fault"}
        \/ linkTarget = "none" /\ commandedWord \in {"faultReset", "disableVoltage"}

LinkInv == /\ Link!PowerLinkAssumption
           /\ TypeInv /\ WordInv /\ PublishInv /\ LinkPulseInv
           /\ ReadingInv /\ GoalInv /\ IntentInv

-----------------------------------------------------------------------------
(* CO_402_state.c: a Statusword is read back as the state it was made of,  *)
(* whatever the mode adds.                                                 *)
LEMMA StatusDecodes ==
    ASSUME NEW s \in States, NEW bits \in SUBSET {10, 12, 13}
    PROVE  Link!DecodedState(Link!StatuswordFor(s) \cup bits) = s
<1> DEFINE w == Link!StatuswordFor(s) \cup bits
<1>1. \A i \in {0, 1, 2, 3, 5, 6} : i \in w <=> i \in Link!StatuswordFor(s)
  OBVIOUS
<1>2. w \cap Link!ShortMask = Link!StatuswordFor(s) \cap Link!ShortMask
  BY <1>1 DEF Link!ShortMask
<1>3. w \cap Link!LongMask = Link!StatuswordFor(s) \cap Link!LongMask
  BY <1>1 DEF Link!LongMask
<1>4. Link!DecodedState(Link!StatuswordFor(s)) = s
  <2> USE DEF Link!DecodedState, Link!StatuswordFor, Link!ShortMask, Link!LongMask
  <2>1. CASE s = "notReady"
    BY <2>1
  <2>2. CASE s = "switchOnDisabled"
    BY <2>2
  <2>3. CASE s = "ready"
    BY <2>3
  <2>4. CASE s = "switchedOn"
    BY <2>4
  <2>5. CASE s = "enabled"
    BY <2>5
  <2>6. CASE s = "quickStop"
    BY <2>6
  <2>7. CASE s = "reaction"
    BY <2>7
  <2>8. CASE s = "fault"
    BY <2>8
  <2> QED
    BY <2>1, <2>2, <2>3, <2>4, <2>5, <2>6, <2>7, <2>8 DEF States, Link!Targets
<1> QED
  BY <1>2, <1>3, <1>4 DEF Link!DecodedState

(* A Controlword is read as the command in its five PDS bits.              *)
LEMMA CommandDecodes ==
    ASSUME NEW w, NEW c \in Commands, w \cap Link!PdsMask = Link!UpdateFor(c)
    PROVE  Link!DecodedCommand(w) = c /\ (7 \in w <=> c = "faultReset")
<1>1. \A i \in Link!PdsMask : i \in w <=> i \in Link!UpdateFor(c)
  OBVIOUS
<1>2. 7 \in w <=> c = "faultReset"
  BY <1>1 DEF Link!PdsMask, Commands, Link!UpdateFor
<1>3. w \cap {0, 1, 2, 3, 7} = Link!UpdateFor(c) /\ w \cap {0, 1, 2, 7} = Link!UpdateFor(c) \ {3}
      /\ w \cap {1, 2, 7} = Link!UpdateFor(c) \ {0, 3} /\ w \cap {1, 7} = Link!UpdateFor(c) \ {0,
          2, 3}
  BY DEF Link!PdsMask
<1>4. Link!DecodedCommand(w) = Link!DecodedCommand(Link!UpdateFor(c))
  BY <1>2, <1>3 DEF Link!DecodedCommand, Commands, Link!UpdateFor
<1> QED
  BY <1>2, <1>4 DEF Link!DecodedCommand, Link!UpdateFor, Commands

(* A masked update puts its command into the word and leaves the rest.     *)
LEMMA MaskedUpdate ==
    ASSUME NEW w, NEW c \in Commands
    PROVE  /\ Link!Applied(w, c) \cap Link!PdsMask = Link!UpdateFor(c)
           /\ Link!Applied(w, c) \ Link!PdsMask = w \ Link!PdsMask
<1>1. Link!UpdateFor(c) \subseteq Link!PdsMask
  BY DEF Link!UpdateFor, Link!PdsMask, Commands
<1> QED
  BY <1>1 DEF Link!Applied, Link!Masked

(* A command makes its transition once.                                    *)
LEMMA NextOnce ==
    ASSUME NEW s \in Link!Targets, NEW c \in Commands
    PROVE  Next1(s, c) \in Link!Targets /\ Next1(Next1(s, c), c) = Next1(s, c)
BY DEF Next1, Link!Targets, Commands

(* The command chosen for the state that was read leads to the target also *)
(* from where the standing command has taken the drive since.              *)
LEMMA CommandLeads ==
    ASSUME NEW r \in Link!Targets, NEW c \in Commands, NEW t \in Link!Targets,
           NEW s \in {r, Next1(r, c)}, Link!CommandFor(r, t) # "none"
    PROVE  Approach(s, Link!CommandFor(r, t), t)
<1> USE DEF Approach, Link!CommandFor, Next1, Link!Targets, Commands, Link!Distance, Link!Level
<1>1. CASE r = "switchOnDisabled"
  BY <1>1
<1>2. CASE r = "ready"
  BY <1>2
<1>3. CASE r = "switchedOn"
  BY <1>3
<1>4. CASE r = "enabled"
  <2>1. CASE t = "switchOnDisabled"
    BY <1>4, <2>1
  <2>2. CASE t = "ready"
    BY <1>4, <2>2
  <2>3. CASE t = "switchedOn"
    BY <1>4, <2>3
  <2>4. CASE t = "enabled"
    BY <1>4, <2>4
  <2>5. CASE t = "quickStop"
    BY <1>4, <2>5
  <2> QED
    BY <2>1, <2>2, <2>3, <2>4, <2>5
<1>5. CASE r = "quickStop"
  BY <1>5
<1> QED
  BY <1>1, <1>2, <1>3, <1>4, <1>5

(* What a pass of the device does with the standing command.               *)
LEMMA DeviceMoves ==
    ASSUME LinkInv, Link!DevicePass
    PROVE  /\ linkState \in Link!Targets => linkState' = Next1(linkState, commandedWord)
           /\ linkState = "notReady" => linkState' = "switchOnDisabled"
           /\ linkState = "reaction" => linkState' = "fault"
           /\ linkState = "fault" => linkState' = "fault" \/ (linkPulse /\ linkState' =
               "switchOnDisabled")
           /\ publishedState' = linkState'
<1>1. Link!DecodedCommand(controlword) = commandedWord /\ (7 \in controlword => linkPulse)
  BY CommandDecodes DEF LinkInv, TypeInv, WordInv, LinkPulseInv
<1>2. linkState' \in Link!Moved(commandedWord, 7 \in controlword /\ ~previousBit) /\
    publishedState' = linkState'
  BY <1>1 DEF Link!DevicePass
<1>3. linkState \in States /\ commandedWord \in Commands
  BY DEF LinkInv, TypeInv
<1> QED
  BY <1>1, <1>2, <1>3 DEF Link!Moved, Next1, States, Link!Targets, Commands

-----------------------------------------------------------------------------
(* Words is what the two words hold, and of which types.                   *)
Words == TypeInv /\ WordInv /\ PublishInv

(* Whatever the controller writes, if anything.                            *)
LEMMA WriteKeepsWords ==
    ASSUME Words, NEW c \in Commands \cup {"none"}, Link!Write(c),
           linkTarget' \in Link!Targets \cup {"none"}, linkAsked' \in BOOLEAN,
               linkPulse' \in BOOLEAN,
           fresh' = FALSE, UNCHANGED <<Link!device, linkRemote, modeBits, intended>>
    PROVE  Words'
<1> USE DEF Words, TypeInv, WordInv, PublishInv, Link!device
<1>1. CASE c = "none"
  BY <1>1 DEF Link!Write, Link!written
<1>2. CASE c \in Commands
  <2>1. controlword' = Link!Applied(controlword, c) /\ commandedWord' = c /\ goal' = linkTarget
    BY <1>2 DEF Link!Write, Commands
  <2>2. controlword' \cap Link!PdsMask = Link!UpdateFor(c)
        /\ controlword' \ Link!PdsMask = controlword \ Link!PdsMask
    BY <1>2, <2>1, MaskedUpdate
  <2> QED
    BY <1>2, <2>1, <2>2
<1> QED
  BY <1>1, <1>2

(* Nor does acting on a reading disturb what the words hold. *)
LEMMA ActKeepsWords == Words /\ Link!Act => Words'
<1> SUFFICES ASSUME Words, Link!Act PROVE Words'
  OBVIOUS
<1>1. fresh' = FALSE /\ UNCHANGED <<Link!device, linkRemote, modeBits, intended>>
  BY DEF Link!Act
<1>2. CASE linkPulse
  <2>1. /\ Link!Write("disableVoltage") /\ linkTarget' \in Link!Targets \cup {"none"}
        /\ linkAsked' \in BOOLEAN /\ linkPulse' \in BOOLEAN
    BY <1>2 DEF Link!Act, Words, TypeInv
  <2> QED
    BY <1>1, <2>1, WriteKeepsWords DEF Commands
<1>3. CASE ~linkPulse /\ Link!Faulted
  <2>1. /\ Link!Write(IF linkPulse' THEN "faultReset" ELSE "none")
        /\ linkTarget' \in Link!Targets \cup {"none"}
        /\ linkAsked' \in BOOLEAN /\ linkPulse' \in BOOLEAN
    BY <1>3 DEF Link!Act, Words, TypeInv, Link!AfterFault, Link!TargetDropped
  <2> QED
    BY <1>1, <2>1, WriteKeepsWords DEF Commands
<1>4. CASE ~linkPulse /\ ~Link!Faulted
  <2> DEFINE c == IF linkTarget = "none" THEN "none" ELSE Link!CommandFor(linkRemote, linkTarget)
  <2>1. /\ Link!Write(c) /\ linkTarget' \in Link!Targets \cup {"none"}
        /\ linkAsked' \in BOOLEAN /\ linkPulse' \in BOOLEAN
    BY <1>4 DEF Link!Act, Words, TypeInv
  <2>2. c \in Commands \cup {"none"}
    BY DEF Link!CommandFor, Commands
  <2> HIDE DEF c
  <2> QED
    BY <1>1, <2>1, <2>2, WriteKeepsWords
<1> QED
  BY <1>2, <1>3, <1>4

(* Every step keeps the types and what the words hold.                     *)
LEMMA WordStep == LinkInv /\ [Link!Next]_(Link!vars) => Words'
<1> SUFFICES ASSUME LinkInv, [Link!Next]_(Link!vars) PROVE Words'
  OBVIOUS
<1>0. Words
  BY DEF LinkInv, Words
<1>1. CASE Link!Act
  BY <1>0, <1>1, ActKeepsWords
<1> USE DEF Words, TypeInv, WordInv, PublishInv, Link!device, Link!controller, Link!written
<1>2. CASE Link!DevicePass
  <2>1. linkState' \in States /\ publishedState' = linkState'
    BY <1>2, DeviceMoves, NextOnce DEF LinkInv, States, Link!Targets
  <2> QED
    BY <1>0, <1>2, <2>1 DEF Link!DevicePass
<1>3. CASE Link!ProductFails
  BY <1>0, <1>3 DEF Link!ProductFails, States
<1>4. CASE Link!ReadStatusword
  <2>1. linkRemote' = publishedState
    BY <1>0, <1>4, StatusDecodes DEF Link!ReadStatusword, LinkInv, Link!PowerLinkAssumption
  <2> QED
    BY <1>0, <1>4, <2>1 DEF Link!ReadStatusword
<1>5. ASSUME NEW t \in Link!Targets, Link!SetTarget(t) PROVE Words'
  BY <1>0, <1>5 DEF Link!SetTarget
<1>6. CASE Link!RequestFaultReset
  BY <1>0, <1>6 DEF Link!RequestFaultReset
<1>7. CASE Link!ClearTarget
  BY <1>0, <1>7 DEF Link!ClearTarget
<1>8. CASE Link!ResetController
  BY <1>0, <1>8 DEF Link!ResetController
<1>9. ASSUME NEW bits \in SUBSET ControlBits, Link!WriteModeBits(bits) PROVE Words'
  <2>1. Link!PdsMask \cap ControlBits = {}
    BY DEF LinkInv, Link!PowerLinkAssumption, Link!PdsMask
  <2> HIDE DEF States, Commands, Link!Targets
  <2> QED
    BY <1>0, <1>9, <2>1 DEF Link!WriteModeBits
<1>10. CASE UNCHANGED Link!vars
  BY <1>0, <1>10 DEF Link!vars
<1> QED
  BY <1>1, <1>2, <1>3, <1>4, <1>5, <1>6, <1>7, <1>8, <1>9, <1>10 DEF Link!Next

-----------------------------------------------------------------------------
Logic == LinkPulseInv /\ ReadingInv /\ GoalInv /\ IntentInv

(* A pass of the device: a reading ages by the one transition of the       *)
(* standing command, and only a pulse takes the drive out of a fault.      *)
LEMMA DeviceKeepsLogic == LinkInv /\ Link!DevicePass => Logic'
<1> SUFFICES ASSUME LinkInv, Link!DevicePass PROVE Logic'
  OBVIOUS
<1>1. UNCHANGED <<Link!controller, Link!written, modeBits, intended>>
  BY DEF Link!DevicePass
<1>2. linkState \in States /\ commandedWord \in Commands
  BY DEF LinkInv, TypeInv
<1>3. LinkPulseInv'
  <2>1. linkState = "switchOnDisabled" /\ linkPulse => linkState' = "switchOnDisabled"
    BY DeviceMoves DEF Next1, LinkInv, LinkPulseInv, Link!Targets
  <2>2. linkState' # "notReady"
    BY DeviceMoves, NextOnce, <1>2 DEF States, Link!Targets
  <2> QED
    BY <1>1, <2>1, <2>2, DeviceMoves DEF LinkInv, LinkPulseInv, Link!controller, Link!written
<1>4. ReadingInv'
  <2> SUFFICES ASSUME fresh, ~linkPulse
               PROVE  /\ \/ linkState' \in {linkRemote, "reaction", "fault"}
                         \/ linkRemote \in Link!Targets /\ linkState' = Next1(linkRemote,
                             commandedWord)
                         \/ /\ linkRemote = "notReady" /\ linkState' = "switchOnDisabled"
                            /\ commandedWord = "disableVoltage"
                      /\ linkRemote = "fault" => linkState' = "fault"
    BY <1>1 DEF ReadingInv, Link!controller, Link!written
  <2>1. CASE linkState \in {"reaction", "fault"}
    BY <2>1, DeviceMoves DEF LinkInv, ReadingInv
  <2>2. CASE linkRemote \in Link!Targets /\ linkState \in {linkRemote, Next1(linkRemote,
      commandedWord)}
    BY <1>2, <2>2, DeviceMoves, NextOnce DEF Link!Targets
  <2>3. CASE linkRemote = "notReady" /\ commandedWord = "disableVoltage"
             /\ linkState \in {"notReady", "switchOnDisabled"}
    BY <2>3, DeviceMoves DEF Next1, Link!Targets
  <2> QED
    BY <1>2, <2>1, <2>2, <2>3 DEF LinkInv, ReadingInv, LinkPulseInv, States
<1>5. GoalInv'
  <2>1. CASE linkState \in Link!Targets
    BY <1>1, <1>2, <2>1, DeviceMoves, NextOnce DEF GoalInv, Approach, Link!written
  <2>2. CASE linkState' \notin Link!Targets
    BY <2>2 DEF GoalInv
  <2>3. CASE linkState' = "switchOnDisabled" /\ commandedWord \in {"disableVoltage", "faultReset"}
    BY <1>1, <2>3 DEF GoalInv, Approach, Next1, Link!written
  <2> QED
    BY <1>2, <2>1, <2>2, <2>3, DeviceMoves DEF LinkInv, LinkPulseInv, States, Link!Targets
<1>6. IntentInv'
  <2>1. CASE linkPulse
    BY <1>1, <2>1 DEF LinkInv, LinkPulseInv, IntentInv, Link!controller, Link!written
  <2>2. CASE ~linkPulse
    BY <1>1, <2>2, DeviceMoves DEF LinkInv, IntentInv, Link!controller, Link!written
  <2> QED
    BY <2>1, <2>2
<1> QED
  BY <1>3, <1>4, <1>5, <1>6 DEF Logic

(* The controller acts on a reading.                                       *)
LEMMA ActKeepsLogic == LinkInv /\ Link!Act => Logic'
<1> SUFFICES ASSUME LinkInv, Link!Act PROVE Logic'
  OBVIOUS
<1>1. fresh /\ ~fresh' /\ UNCHANGED <<Link!device, linkRemote, modeBits, intended>>
  BY DEF Link!Act
<1>2. ReadingInv'
  BY <1>1 DEF ReadingInv
<1>3. CASE linkPulse
  <2>1. ~linkPulse' /\ commandedWord' = "disableVoltage" /\ linkTarget' = "none"
    BY <1>3 DEF Link!Act, Link!Write, LinkInv, LinkPulseInv
  <2>2. linkState' \in {"reaction", "fault", "switchOnDisabled"}
    BY <1>1, <1>3 DEF LinkInv, LinkPulseInv, Link!device
  <2>3. GoalInv'
    BY <2>1, <2>2 DEF GoalInv, Approach, Next1, Link!Targets
  <2> QED
    BY <1>1, <1>2, <2>1, <2>2, <2>3 DEF Logic, LinkPulseInv, IntentInv, LinkInv
<1>4. CASE ~linkPulse /\ linkRemote = "fault" /\ linkAsked
  <2>1. linkPulse' /\ commandedWord' = "faultReset" /\ linkTarget' = "none"
    BY <1>4 DEF Link!Act, Link!Write, Link!Faulted, Link!AfterFault, Link!TargetDropped
  <2>2. linkState' = "fault"
    BY <1>1, <1>4 DEF LinkInv, ReadingInv, Link!device
  <2> QED
    BY <1>1, <1>2, <2>1, <2>2 DEF Logic, LinkPulseInv, IntentInv, GoalInv, Link!Targets
<1>5. CASE ~linkPulse /\ Link!Faulted /\ ~(linkRemote = "fault" /\ linkAsked)
  <2>1. ~linkPulse' /\ UNCHANGED <<commandedWord, goal>> /\ linkTarget' = "none"
    BY <1>5 DEF Link!Act, Link!Write, Link!written, Link!AfterFault, Link!TargetDropped
  <2> QED
    BY <1>1, <1>2, <1>5, <2>1
       DEF LinkInv, Logic, LinkPulseInv, IntentInv, GoalInv, Approach, Link!device
<1>6. CASE ~linkPulse /\ ~Link!Faulted /\ (linkTarget = "none" \/ Link!CommandFor(linkRemote,
    linkTarget) = "none")
  <2>1. ~linkPulse' /\ UNCHANGED <<commandedWord, goal, linkTarget>>
    BY <1>6 DEF Link!Act, Link!Write, Link!written
  <2> QED
    BY <1>1, <1>2, <1>6, <2>1
       DEF LinkInv, Logic, LinkPulseInv, IntentInv, GoalInv, Approach, Link!device
<1>7. CASE ~linkPulse /\ ~Link!Faulted /\ linkTarget # "none" /\ Link!CommandFor(linkRemote,
    linkTarget) # "none"
  <2> DEFINE c == Link!CommandFor(linkRemote, linkTarget)
  <2>1. ~linkPulse' /\ commandedWord' = c /\ goal' = linkTarget /\ linkTarget' = linkTarget
    BY <1>7 DEF Link!Act, Link!Write
  <2>2. linkRemote \in Link!Targets /\ linkTarget \in Link!Targets /\
      c \in Commands \ {"faultReset"}
    BY <1>7 DEF Link!CommandFor, LinkInv, TypeInv, Link!Targets, Commands, Link!Faulted
  <2>3. linkState' = linkState /\ intended' = intended /\ linkState \in States /\
      commandedWord \in Commands
    BY <1>1 DEF Link!device, LinkInv, TypeInv
  <2>4. linkState \in {"reaction", "fault"} \/ linkState \in {linkRemote, Next1(linkRemote,
      commandedWord)}
    BY <1>1, <1>7, <2>2 DEF LinkInv, ReadingInv, Link!Targets
  <2>5. linkState # "notReady"
    BY <2>2, <2>3, <2>4, NextOnce DEF Link!Targets
  <2>6. GoalInv'
    BY <1>7, <2>1, <2>2, <2>3, <2>4, CommandLeads DEF GoalInv, Link!Targets
  <2>7. IntentInv'
    BY <1>7, <2>1, <2>3 DEF LinkInv, IntentInv
  <2>8. LinkPulseInv'
    BY <2>1, <2>2, <2>3, <2>5 DEF LinkPulseInv
  <2> QED
    BY <1>2, <2>6, <2>7, <2>8 DEF Logic
<1> QED
  BY <1>3, <1>4, <1>5, <1>6, <1>7

(* Every step keeps the logic of the two sides.                            *)
LEMMA LogicStep == LinkInv /\ [Link!Next]_(Link!vars) => Logic'
<1> SUFFICES ASSUME LinkInv, [Link!Next]_(Link!vars) PROVE Logic'
  OBVIOUS
<1>1. CASE Link!DevicePass
  BY <1>1, DeviceKeepsLogic
<1>2. CASE Link!Act
  BY <1>2, ActKeepsLogic
<1>3. CASE Link!ReadStatusword
  <2>1. linkRemote' = publishedState
    BY <1>3, StatusDecodes
       DEF Link!ReadStatusword, LinkInv, Link!PowerLinkAssumption, TypeInv, WordInv
  <2> QED
    BY <1>3, <2>1 DEF Link!ReadStatusword, LinkInv, Logic, PublishInv, LinkPulseInv, ReadingInv,
       GoalInv, Approach, IntentInv, Link!device, Link!written, Link!Targets
<1> USE DEF LinkInv, Logic, LinkPulseInv, ReadingInv, GoalInv, Approach, IntentInv,
            Link!device, Link!controller, Link!written
<1>4. CASE Link!ProductFails
  BY <1>4 DEF Link!ProductFails, Link!Targets
<1>5. ASSUME NEW t \in Link!Targets, Link!SetTarget(t) PROVE Logic'
  BY <1>5 DEF Link!SetTarget
<1>6. CASE Link!RequestFaultReset
  BY <1>6 DEF Link!RequestFaultReset
<1>7. CASE Link!ClearTarget
  BY <1>7 DEF Link!ClearTarget
<1>8. CASE Link!ResetController
  BY <1>8 DEF Link!ResetController
<1>9. ASSUME NEW bits \in SUBSET ControlBits, Link!WriteModeBits(bits) PROVE Logic'
  BY <1>9 DEF Link!WriteModeBits
<1>10. CASE UNCHANGED Link!vars
  BY <1>10 DEF Link!vars
<1> QED
  BY <1>1, <1>2, <1>3, <1>4, <1>5, <1>6, <1>7, <1>8, <1>9, <1>10 DEF Link!Next

(* The invariant holds throughout. *)
LEMMA LinkInvariance == Spec => []LinkInv
<1>1. Link!Init => LinkInv
  BY ProfilesAssumption DEF Link!Init, LinkInv, TypeInv, WordInv, PublishInv, LinkPulseInv,
     ReadingInv, GoalInv, IntentInv,
         Approach, Next1, States, Link!Targets, Commands, Link!UpdateFor, Link!PdsMask,
         Link!StatuswordFor
<1>2. LinkInv /\ [Link!Next]_(Link!vars) => LinkInv'
  BY WordStep, LogicStep DEF LinkInv, Words, Logic, Link!PowerLinkAssumption
<1> QED
  BY <1>1, <1>2, Starts, Steps, PTL DEF Spec

-----------------------------------------------------------------------------
(* Status- and Controlword are read as they were meant, and the bits of a  *)
(* mode survive every command (CO_402_state.c, CO_402_controller.c:66).    *)
THEOREM WordsUnderstood == Spec => []Link!WordsAreUnderstood
<1>1. LinkInv => Link!WordsAreUnderstood
  BY StatusDecodes, CommandDecodes
     DEF LinkInv, Link!PowerLinkAssumption, TypeInv, WordInv, Link!WordsAreUnderstood
<1> QED
  BY <1>1, LinkInvariance, PTL

(* A transition leads towards the target its command was written for,      *)
(* however late the device makes it.                                       *)
THEOREM TransitionsApproach == Spec => Link!CommandsApproach
<1> DEFINE A == linkState' # linkState /\ {linkState, linkState'} \subseteq Link!Targets =>
                    goal \in Link!Targets /\ Link!Distance(linkState',
                        goal) < Link!Distance(linkState, goal)
<1>1. LinkInv /\ [Link!Next]_(Link!vars) => [A]_(Link!vars)
  <2> SUFFICES ASSUME LinkInv, Link!Next, linkState' # linkState, {linkState,
      linkState'} \subseteq Link!Targets
               PROVE  goal \in Link!Targets /\ Link!Distance(linkState',
                   goal) < Link!Distance(linkState, goal)
    OBVIOUS
  <2>1. Link!DevicePass
    BY DEF Link!Next, Link!ProductFails, Link!ReadStatusword, Link!Act, Link!SetTarget,
       Link!RequestFaultReset,
       Link!ClearTarget, Link!ResetController, Link!WriteModeBits, Link!device, Link!Targets
  <2> QED
    BY <2>1, DeviceMoves DEF LinkInv, GoalInv, Approach
<1> QED
  BY <1>1, LinkInvariance, Starts, Steps, PTL DEF Spec, Link!CommandsApproach

(* After a fault the drive is enabled for a new target or not at all.      *)
THEOREM MotionIntended == Spec => Link!MotionIsIntended
<1>1. LinkInv /\ [Link!Next]_(Link!vars) => [linkState' = "enabled" /\ linkState # "enabled" =>
    intended]_(Link!vars)
  <2> SUFFICES ASSUME LinkInv, Link!Next, linkState' = "enabled",
      linkState # "enabled" PROVE intended
    OBVIOUS
  <2>1. Link!DevicePass
    BY DEF Link!Next, Link!ProductFails, Link!ReadStatusword, Link!Act, Link!SetTarget,
       Link!RequestFaultReset,
       Link!ClearTarget, Link!ResetController, Link!WriteModeBits, Link!device
  <2>2. linkState \in Link!Targets /\ commandedWord \in Commands
    BY <2>1, DeviceMoves DEF LinkInv, TypeInv, States
  <2>3. commandedWord = "enable"
    BY <2>1, <2>2, DeviceMoves DEF Next1, Commands
  <2> QED
    BY <2>2, <2>3 DEF LinkInv, IntentInv, Link!Targets
<1> QED
  BY <1>1, LinkInvariance, Starts, Steps, PTL DEF Spec, Link!MotionIsIntended

-----------------------------------------------------------------------------
(***************************************************************************)
(* Proofs about AnalogInput.  Only comparators that are selected and       *)
(* enabled watch, so a value that leaves their range fires an event.       *)
(***************************************************************************)

(* The types, one variable after the other. *)
AnalogTypes ==
    /\ value \in MinValue..MaxValue
    /\ reference \in MinValue..Analog!NoReference
    /\ attached \in BOOLEAN
    /\ unsent \in BOOLEAN
    /\ flagged \in BOOLEAN
    /\ source \in BOOLEAN
    /\ sourceFlag \in BOOLEAN
    /\ enabled \in BOOLEAN
    /\ eventOwed \in BOOLEAN
    /\ sourceOwed \in BOOLEAN
    /\ trigger \in Triggers
    /\ conditioning \in Conditionings
    /\ watched \subseteq Analog!Comparators

(* Whoever watches is selected and enabled. *)
WatchInv == watched \subseteq trigger /\ (watched # {} => enabled)

(* A watching comparator whose range was left has an event to send.        *)
DriftInv ==
    ~unsent /\ reference # Analog!NoReference =>
        /\ "delta" \in watched => value - reference \in -Delta..Delta
        /\ "negative" \in watched => reference - value <= NegativeDelta
        /\ "positive" \in watched => value - reference <= PositiveDelta

(* What is owed is remembered, attached or not. *)
OwedInv == (eventOwed => unsent) /\ (sourceOwed => source)

AnalogInv == AnalogTypes /\ WatchInv /\ DriftInv /\ OwedInv

(* An invalid reference lies above the values. *)
LEMMA NoReferenceFits == Analog!NoReference \in MinValue..Analog!NoReference /\
    0 \in MinValue..MaxValue
<1>1. MinValue \in Int /\ MaxValue \in Int /\ MinValue <= MaxValue
  BY ProfilesAssumption DEF Analog!AnalogInputAssumption
<1>2. 0 \in MinValue..MaxValue
  BY ProfilesAssumption DEF Analog!AnalogInputAssumption
<1>q. QED
  BY <1>1, <1>2 DEF Analog!NoReference

(* Every step keeps the types.                                             *)
LEMMA AnalogTypesStep ==
    ASSUME AnalogInv, [Analog!Next]_(Analog!vars)
    PROVE  AnalogTypes'
<1>0. CASE UNCHANGED Analog!vars
  BY <1>0 DEF Analog!vars, Analog!eventVars, Analog!configVars, AnalogTypes, Analog!NoReference,
     Analog!Comparators, AnalogInv,
     WatchInv, DriftInv, OwedInv, Analog!AnalogInputAssumption
<1>1. CASE Analog!Attach
  BY <1>1, NoReferenceFits DEF Analog!Attach, Analog!configVars, AnalogTypes, AnalogInv
<1>2. CASE Analog!Detach
  BY <1>2, ProfilesAssumption DEF Analog!Detach, Analog!eventVars, Analog!configVars, AnalogTypes,
     Analog!NoReference, Analog!Comparators, AnalogInv, WatchInv, DriftInv, OwedInv,
     Analog!AnalogInputAssumption
<1>3. CASE Analog!Configure
  <2>1. (value \in MinValue..MaxValue)'
    BY <1>3, ProfilesAssumption
       DEF Analog!Configure, Analog!eventVars, AnalogTypes, Analog!NoReference,
       Analog!Comparators, AnalogInv, WatchInv, DriftInv, OwedInv, Analog!AnalogInputAssumption
  <2>2. (reference \in MinValue..Analog!NoReference)'
    BY <1>3, ProfilesAssumption
       DEF Analog!Configure, Analog!eventVars, AnalogTypes, Analog!NoReference,
       Analog!Comparators, AnalogInv, WatchInv, DriftInv, OwedInv, Analog!AnalogInputAssumption
  <2>3. (attached \in BOOLEAN)'
    BY <1>3, ProfilesAssumption
       DEF Analog!Configure, Analog!eventVars, AnalogTypes, Analog!NoReference,
       Analog!Comparators, AnalogInv, WatchInv, DriftInv, OwedInv, Analog!AnalogInputAssumption
  <2>4. (unsent \in BOOLEAN)'
    BY <1>3, ProfilesAssumption
       DEF Analog!Configure, Analog!eventVars, AnalogTypes, Analog!NoReference,
       Analog!Comparators, AnalogInv, WatchInv, DriftInv, OwedInv, Analog!AnalogInputAssumption
  <2>5. (flagged \in BOOLEAN)'
    BY <1>3, ProfilesAssumption
       DEF Analog!Configure, Analog!eventVars, AnalogTypes, Analog!NoReference,
       Analog!Comparators, AnalogInv, WatchInv, DriftInv, OwedInv, Analog!AnalogInputAssumption
  <2>6. (source \in BOOLEAN)'
    BY <1>3, ProfilesAssumption
       DEF Analog!Configure, Analog!eventVars, AnalogTypes, Analog!NoReference,
       Analog!Comparators, AnalogInv, WatchInv, DriftInv, OwedInv, Analog!AnalogInputAssumption
  <2>7. (sourceFlag \in BOOLEAN)'
    BY <1>3, ProfilesAssumption
       DEF Analog!Configure, Analog!eventVars, AnalogTypes, Analog!NoReference,
       Analog!Comparators, AnalogInv, WatchInv, DriftInv, OwedInv, Analog!AnalogInputAssumption
  <2>8. (enabled \in BOOLEAN)'
    BY <1>3, ProfilesAssumption
       DEF Analog!Configure, Analog!eventVars, AnalogTypes, Analog!NoReference,
       Analog!Comparators, AnalogInv, WatchInv, DriftInv, OwedInv, Analog!AnalogInputAssumption
  <2>9. (eventOwed \in BOOLEAN)'
    BY <1>3, ProfilesAssumption
       DEF Analog!Configure, Analog!eventVars, AnalogTypes, Analog!NoReference,
       Analog!Comparators, AnalogInv, WatchInv, DriftInv, OwedInv, Analog!AnalogInputAssumption
  <2>10. (sourceOwed \in BOOLEAN)'
    BY <1>3, ProfilesAssumption
       DEF Analog!Configure, Analog!eventVars, AnalogTypes, Analog!NoReference,
       Analog!Comparators, AnalogInv, WatchInv, DriftInv, OwedInv, Analog!AnalogInputAssumption
  <2>11. (trigger \in Triggers)'
    BY <1>3, ProfilesAssumption
       DEF Analog!Configure, Analog!eventVars, AnalogTypes, Analog!NoReference,
       Analog!Comparators, AnalogInv, WatchInv, DriftInv, OwedInv, Analog!AnalogInputAssumption
  <2>12. (conditioning \in Conditionings)'
    BY <1>3, ProfilesAssumption
       DEF Analog!Configure, Analog!eventVars, AnalogTypes, Analog!NoReference,
       Analog!Comparators, AnalogInv, WatchInv, DriftInv, OwedInv, Analog!AnalogInputAssumption
  <2>13. (watched \subseteq Analog!Comparators)'
    BY <1>3, ProfilesAssumption
       DEF Analog!Configure, Analog!eventVars, AnalogTypes, Analog!NoReference,
       Analog!Comparators, AnalogInv, WatchInv, DriftInv, OwedInv, Analog!AnalogInputAssumption
  <2>q. QED
    BY <2>1, <2>2, <2>3, <2>4, <2>5, <2>6, <2>7, <2>8, <2>9, <2>10, <2>11, <2>12, <2>13
       DEF AnalogTypes
<1>4. ASSUME NEW raw \in Raw, Analog!RefreshInput(raw) PROVE AnalogTypes'
  <2>1. (value \in MinValue..MaxValue)'
    BY <1>4, ProfilesAssumption
       DEF Analog!RefreshInput, Analog!Fits, Analog!Fires, Analog!Reasserted, Analog!configVars,
       Analog!LastCommunicated, Analog!NoReference, AnalogTypes, Analog!Comparators, AnalogInv,
       WatchInv,
       DriftInv, OwedInv, Analog!AnalogInputAssumption
  <2>2. (reference \in MinValue..Analog!NoReference)'
    BY <1>4, ProfilesAssumption
       DEF Analog!RefreshInput, Analog!Fits, Analog!Fires, Analog!Reasserted, Analog!configVars,
       Analog!LastCommunicated, Analog!NoReference, AnalogTypes, Analog!Comparators, AnalogInv,
       WatchInv,
       DriftInv, OwedInv, Analog!AnalogInputAssumption
  <2>3. (attached \in BOOLEAN)'
    BY <1>4, ProfilesAssumption
       DEF Analog!RefreshInput, Analog!Fits, Analog!Fires, Analog!Reasserted, Analog!configVars,
       Analog!LastCommunicated, Analog!NoReference, AnalogTypes, Analog!Comparators, AnalogInv,
       WatchInv,
       DriftInv, OwedInv, Analog!AnalogInputAssumption
  <2>4. (unsent \in BOOLEAN)'
    BY <1>4, ProfilesAssumption
       DEF Analog!RefreshInput, Analog!Fits, Analog!Fires, Analog!Reasserted, Analog!configVars,
       Analog!LastCommunicated, Analog!NoReference, AnalogTypes, Analog!Comparators, AnalogInv,
       WatchInv,
       DriftInv, OwedInv, Analog!AnalogInputAssumption
  <2>5. (flagged \in BOOLEAN)'
    BY <1>4, ProfilesAssumption
       DEF Analog!RefreshInput, Analog!Fits, Analog!Fires, Analog!Reasserted, Analog!configVars,
       Analog!LastCommunicated, Analog!NoReference, AnalogTypes, Analog!Comparators, AnalogInv,
       WatchInv,
       DriftInv, OwedInv, Analog!AnalogInputAssumption
  <2>6. (source \in BOOLEAN)'
    BY <1>4, ProfilesAssumption
       DEF Analog!RefreshInput, Analog!Fits, Analog!Fires, Analog!Reasserted, Analog!configVars,
       Analog!LastCommunicated, Analog!NoReference, AnalogTypes, Analog!Comparators, AnalogInv,
       WatchInv,
       DriftInv, OwedInv, Analog!AnalogInputAssumption
  <2>7. (sourceFlag \in BOOLEAN)'
    BY <1>4, ProfilesAssumption
       DEF Analog!RefreshInput, Analog!Fits, Analog!Fires, Analog!Reasserted, Analog!configVars,
       Analog!LastCommunicated, Analog!NoReference, AnalogTypes, Analog!Comparators, AnalogInv,
       WatchInv,
       DriftInv, OwedInv, Analog!AnalogInputAssumption
  <2>8. (enabled \in BOOLEAN)'
    BY <1>4, ProfilesAssumption
       DEF Analog!RefreshInput, Analog!Fits, Analog!Fires, Analog!Reasserted, Analog!configVars,
       Analog!LastCommunicated, Analog!NoReference, AnalogTypes, Analog!Comparators, AnalogInv,
       WatchInv,
       DriftInv, OwedInv, Analog!AnalogInputAssumption
  <2>9. (eventOwed \in BOOLEAN)'
    BY <1>4, ProfilesAssumption
       DEF Analog!RefreshInput, Analog!Fits, Analog!Fires, Analog!Reasserted, Analog!configVars,
       Analog!LastCommunicated, Analog!NoReference, AnalogTypes, Analog!Comparators, AnalogInv,
       WatchInv,
       DriftInv, OwedInv, Analog!AnalogInputAssumption
  <2>10. (sourceOwed \in BOOLEAN)'
    BY <1>4, ProfilesAssumption
       DEF Analog!RefreshInput, Analog!Fits, Analog!Fires, Analog!Reasserted, Analog!configVars,
       Analog!LastCommunicated, Analog!NoReference, AnalogTypes, Analog!Comparators, AnalogInv,
       WatchInv,
       DriftInv, OwedInv, Analog!AnalogInputAssumption
  <2>11. (trigger \in Triggers)'
    BY <1>4, ProfilesAssumption
       DEF Analog!RefreshInput, Analog!Fits, Analog!Fires, Analog!Reasserted, Analog!configVars,
       Analog!LastCommunicated, Analog!NoReference, AnalogTypes, Analog!Comparators, AnalogInv,
       WatchInv,
       DriftInv, OwedInv, Analog!AnalogInputAssumption
  <2>12. (conditioning \in Conditionings)'
    BY <1>4, ProfilesAssumption
       DEF Analog!RefreshInput, Analog!Fits, Analog!Fires, Analog!Reasserted, Analog!configVars,
       Analog!LastCommunicated, Analog!NoReference, AnalogTypes, Analog!Comparators, AnalogInv,
       WatchInv,
       DriftInv, OwedInv, Analog!AnalogInputAssumption
  <2>13. (watched \subseteq Analog!Comparators)'
    BY <1>4, ProfilesAssumption
       DEF Analog!RefreshInput, Analog!Fits, Analog!Fires, Analog!Reasserted, Analog!configVars,
       Analog!LastCommunicated, Analog!NoReference, AnalogTypes, Analog!Comparators, AnalogInv,
       WatchInv,
       DriftInv, OwedInv, Analog!AnalogInputAssumption
  <2>q. QED
    BY <2>1, <2>2, <2>3, <2>4, <2>5, <2>6, <2>7, <2>8, <2>9, <2>10, <2>11, <2>12, <2>13
       DEF AnalogTypes
<1>5. CASE Analog!ReadFails
  <2>1. (value \in MinValue..MaxValue)'
    BY <1>5, ProfilesAssumption
       DEF Analog!ReadFails, Analog!eventVars, Analog!configVars, AnalogTypes,
       Analog!NoReference, Analog!Comparators, AnalogInv, WatchInv, DriftInv, OwedInv,
       Analog!AnalogInputAssumption
  <2>2. (reference \in MinValue..Analog!NoReference)'
    BY <1>5, ProfilesAssumption
       DEF Analog!ReadFails, Analog!eventVars, Analog!configVars, AnalogTypes,
       Analog!NoReference, Analog!Comparators, AnalogInv, WatchInv, DriftInv, OwedInv,
       Analog!AnalogInputAssumption
  <2>3. (attached \in BOOLEAN)'
    BY <1>5, ProfilesAssumption
       DEF Analog!ReadFails, Analog!eventVars, Analog!configVars, AnalogTypes,
       Analog!NoReference, Analog!Comparators, AnalogInv, WatchInv, DriftInv, OwedInv,
       Analog!AnalogInputAssumption
  <2>4. (unsent \in BOOLEAN)'
    BY <1>5, ProfilesAssumption
       DEF Analog!ReadFails, Analog!eventVars, Analog!configVars, AnalogTypes,
       Analog!NoReference, Analog!Comparators, AnalogInv, WatchInv, DriftInv, OwedInv,
       Analog!AnalogInputAssumption
  <2>5. (flagged \in BOOLEAN)'
    BY <1>5, ProfilesAssumption
       DEF Analog!ReadFails, Analog!eventVars, Analog!configVars, AnalogTypes,
       Analog!NoReference, Analog!Comparators, AnalogInv, WatchInv, DriftInv, OwedInv,
       Analog!AnalogInputAssumption
  <2>6. (source \in BOOLEAN)'
    BY <1>5, ProfilesAssumption
       DEF Analog!ReadFails, Analog!eventVars, Analog!configVars, AnalogTypes,
       Analog!NoReference, Analog!Comparators, AnalogInv, WatchInv, DriftInv, OwedInv,
       Analog!AnalogInputAssumption
  <2>7. (sourceFlag \in BOOLEAN)'
    BY <1>5, ProfilesAssumption
       DEF Analog!ReadFails, Analog!eventVars, Analog!configVars, AnalogTypes,
       Analog!NoReference, Analog!Comparators, AnalogInv, WatchInv, DriftInv, OwedInv,
       Analog!AnalogInputAssumption
  <2>8. (enabled \in BOOLEAN)'
    BY <1>5, ProfilesAssumption
       DEF Analog!ReadFails, Analog!eventVars, Analog!configVars, AnalogTypes,
       Analog!NoReference, Analog!Comparators, AnalogInv, WatchInv, DriftInv, OwedInv,
       Analog!AnalogInputAssumption
  <2>9. (eventOwed \in BOOLEAN)'
    BY <1>5, ProfilesAssumption
       DEF Analog!ReadFails, Analog!eventVars, Analog!configVars, AnalogTypes,
       Analog!NoReference, Analog!Comparators, AnalogInv, WatchInv, DriftInv, OwedInv,
       Analog!AnalogInputAssumption
  <2>10. (sourceOwed \in BOOLEAN)'
    BY <1>5, ProfilesAssumption
       DEF Analog!ReadFails, Analog!eventVars, Analog!configVars, AnalogTypes,
       Analog!NoReference, Analog!Comparators, AnalogInv, WatchInv, DriftInv, OwedInv,
       Analog!AnalogInputAssumption
  <2>11. (trigger \in Triggers)'
    BY <1>5, ProfilesAssumption
       DEF Analog!ReadFails, Analog!eventVars, Analog!configVars, AnalogTypes,
       Analog!NoReference, Analog!Comparators, AnalogInv, WatchInv, DriftInv, OwedInv,
       Analog!AnalogInputAssumption
  <2>12. (conditioning \in Conditionings)'
    BY <1>5, ProfilesAssumption
       DEF Analog!ReadFails, Analog!eventVars, Analog!configVars, AnalogTypes,
       Analog!NoReference, Analog!Comparators, AnalogInv, WatchInv, DriftInv, OwedInv,
       Analog!AnalogInputAssumption
  <2>13. (watched \subseteq Analog!Comparators)'
    BY <1>5, ProfilesAssumption
       DEF Analog!ReadFails, Analog!eventVars, Analog!configVars, AnalogTypes,
       Analog!NoReference, Analog!Comparators, AnalogInv, WatchInv, DriftInv, OwedInv,
       Analog!AnalogInputAssumption
  <2>q. QED
    BY <2>1, <2>2, <2>3, <2>4, <2>5, <2>6, <2>7, <2>8, <2>9, <2>10, <2>11, <2>12, <2>13
       DEF AnalogTypes
<1>6. ASSUME NEW ok \in BOOLEAN, Analog!SendValue(ok) PROVE AnalogTypes'
  <2>1. (value \in MinValue..MaxValue)'
    BY <1>6, ProfilesAssumption
       DEF Analog!SendValue, Analog!Retired, Analog!SetReference, Analog!configVars,
       AnalogTypes, Analog!NoReference, Analog!Comparators, AnalogInv, WatchInv, DriftInv, OwedInv,
       Analog!AnalogInputAssumption
  <2>2. (reference \in MinValue..Analog!NoReference)'
    BY <1>6, ProfilesAssumption
       DEF Analog!SendValue, Analog!Retired, Analog!SetReference, Analog!configVars,
       AnalogTypes, Analog!NoReference, Analog!Comparators, AnalogInv, WatchInv, DriftInv, OwedInv,
       Analog!AnalogInputAssumption
  <2>3. (attached \in BOOLEAN)'
    BY <1>6, ProfilesAssumption
       DEF Analog!SendValue, Analog!Retired, Analog!SetReference, Analog!configVars,
       AnalogTypes, Analog!NoReference, Analog!Comparators, AnalogInv, WatchInv, DriftInv, OwedInv,
       Analog!AnalogInputAssumption
  <2>4. (unsent \in BOOLEAN)'
    BY <1>6, ProfilesAssumption
       DEF Analog!SendValue, Analog!Retired, Analog!SetReference, Analog!configVars,
       AnalogTypes, Analog!NoReference, Analog!Comparators, AnalogInv, WatchInv, DriftInv, OwedInv,
       Analog!AnalogInputAssumption
  <2>5. (flagged \in BOOLEAN)'
    BY <1>6, ProfilesAssumption
       DEF Analog!SendValue, Analog!Retired, Analog!SetReference, Analog!configVars,
       AnalogTypes, Analog!NoReference, Analog!Comparators, AnalogInv, WatchInv, DriftInv, OwedInv,
       Analog!AnalogInputAssumption
  <2>6. (source \in BOOLEAN)'
    BY <1>6, ProfilesAssumption
       DEF Analog!SendValue, Analog!Retired, Analog!SetReference, Analog!configVars,
       AnalogTypes, Analog!NoReference, Analog!Comparators, AnalogInv, WatchInv, DriftInv, OwedInv,
       Analog!AnalogInputAssumption
  <2>7. (sourceFlag \in BOOLEAN)'
    BY <1>6, ProfilesAssumption
       DEF Analog!SendValue, Analog!Retired, Analog!SetReference, Analog!configVars,
       AnalogTypes, Analog!NoReference, Analog!Comparators, AnalogInv, WatchInv, DriftInv, OwedInv,
       Analog!AnalogInputAssumption
  <2>8. (enabled \in BOOLEAN)'
    BY <1>6, ProfilesAssumption
       DEF Analog!SendValue, Analog!Retired, Analog!SetReference, Analog!configVars,
       AnalogTypes, Analog!NoReference, Analog!Comparators, AnalogInv, WatchInv, DriftInv, OwedInv,
       Analog!AnalogInputAssumption
  <2>9. (eventOwed \in BOOLEAN)'
    BY <1>6, ProfilesAssumption
       DEF Analog!SendValue, Analog!Retired, Analog!SetReference, Analog!configVars,
       AnalogTypes, Analog!NoReference, Analog!Comparators, AnalogInv, WatchInv, DriftInv, OwedInv,
       Analog!AnalogInputAssumption
  <2>10. (sourceOwed \in BOOLEAN)'
    BY <1>6, ProfilesAssumption
       DEF Analog!SendValue, Analog!Retired, Analog!SetReference, Analog!configVars,
       AnalogTypes, Analog!NoReference, Analog!Comparators, AnalogInv, WatchInv, DriftInv, OwedInv,
       Analog!AnalogInputAssumption
  <2>11. (trigger \in Triggers)'
    BY <1>6, ProfilesAssumption
       DEF Analog!SendValue, Analog!Retired, Analog!SetReference, Analog!configVars,
       AnalogTypes, Analog!NoReference, Analog!Comparators, AnalogInv, WatchInv, DriftInv, OwedInv,
       Analog!AnalogInputAssumption
  <2>12. (conditioning \in Conditionings)'
    BY <1>6, ProfilesAssumption
       DEF Analog!SendValue, Analog!Retired, Analog!SetReference, Analog!configVars,
       AnalogTypes, Analog!NoReference, Analog!Comparators, AnalogInv, WatchInv, DriftInv, OwedInv,
       Analog!AnalogInputAssumption
  <2>13. (watched \subseteq Analog!Comparators)'
    BY <1>6, ProfilesAssumption
       DEF Analog!SendValue, Analog!Retired, Analog!SetReference, Analog!configVars,
       AnalogTypes, Analog!NoReference, Analog!Comparators, AnalogInv, WatchInv, DriftInv, OwedInv,
       Analog!AnalogInputAssumption
  <2>q. QED
    BY <2>1, <2>2, <2>3, <2>4, <2>5, <2>6, <2>7, <2>8, <2>9, <2>10, <2>11, <2>12, <2>13
       DEF AnalogTypes
<1>7. CASE Analog!SdoReadsValue
  BY <1>7, ProfilesAssumption DEF Analog!SdoReadsValue, Analog!SetReference, Analog!eventVars,
     Analog!configVars,
     AnalogTypes, Analog!NoReference, Analog!Comparators, AnalogInv, WatchInv, DriftInv, OwedInv,
     Analog!AnalogInputAssumption
<1>8. ASSUME NEW ok \in BOOLEAN, Analog!SendSource(ok) PROVE AnalogTypes'
  <2>1. (value \in MinValue..MaxValue)'
    BY <1>8, ProfilesAssumption
       DEF Analog!SendSource, Analog!Consumed, Analog!configVars, AnalogTypes,
       Analog!NoReference, Analog!Comparators, AnalogInv, WatchInv, DriftInv, OwedInv,
       Analog!AnalogInputAssumption
  <2>2. (reference \in MinValue..Analog!NoReference)'
    BY <1>8, ProfilesAssumption
       DEF Analog!SendSource, Analog!Consumed, Analog!configVars, AnalogTypes,
       Analog!NoReference, Analog!Comparators, AnalogInv, WatchInv, DriftInv, OwedInv,
       Analog!AnalogInputAssumption
  <2>3. (attached \in BOOLEAN)'
    BY <1>8, ProfilesAssumption
       DEF Analog!SendSource, Analog!Consumed, Analog!configVars, AnalogTypes,
       Analog!NoReference, Analog!Comparators, AnalogInv, WatchInv, DriftInv, OwedInv,
       Analog!AnalogInputAssumption
  <2>4. (unsent \in BOOLEAN)'
    BY <1>8, ProfilesAssumption
       DEF Analog!SendSource, Analog!Consumed, Analog!configVars, AnalogTypes,
       Analog!NoReference, Analog!Comparators, AnalogInv, WatchInv, DriftInv, OwedInv,
       Analog!AnalogInputAssumption
  <2>5. (flagged \in BOOLEAN)'
    BY <1>8, ProfilesAssumption
       DEF Analog!SendSource, Analog!Consumed, Analog!configVars, AnalogTypes,
       Analog!NoReference, Analog!Comparators, AnalogInv, WatchInv, DriftInv, OwedInv,
       Analog!AnalogInputAssumption
  <2>6. (source \in BOOLEAN)'
    BY <1>8, ProfilesAssumption
       DEF Analog!SendSource, Analog!Consumed, Analog!configVars, AnalogTypes,
       Analog!NoReference, Analog!Comparators, AnalogInv, WatchInv, DriftInv, OwedInv,
       Analog!AnalogInputAssumption
  <2>7. (sourceFlag \in BOOLEAN)'
    BY <1>8, ProfilesAssumption
       DEF Analog!SendSource, Analog!Consumed, Analog!configVars, AnalogTypes,
       Analog!NoReference, Analog!Comparators, AnalogInv, WatchInv, DriftInv, OwedInv,
       Analog!AnalogInputAssumption
  <2>8. (enabled \in BOOLEAN)'
    BY <1>8, ProfilesAssumption
       DEF Analog!SendSource, Analog!Consumed, Analog!configVars, AnalogTypes,
       Analog!NoReference, Analog!Comparators, AnalogInv, WatchInv, DriftInv, OwedInv,
       Analog!AnalogInputAssumption
  <2>9. (eventOwed \in BOOLEAN)'
    BY <1>8, ProfilesAssumption
       DEF Analog!SendSource, Analog!Consumed, Analog!configVars, AnalogTypes,
       Analog!NoReference, Analog!Comparators, AnalogInv, WatchInv, DriftInv, OwedInv,
       Analog!AnalogInputAssumption
  <2>10. (sourceOwed \in BOOLEAN)'
    BY <1>8, ProfilesAssumption
       DEF Analog!SendSource, Analog!Consumed, Analog!configVars, AnalogTypes,
       Analog!NoReference, Analog!Comparators, AnalogInv, WatchInv, DriftInv, OwedInv,
       Analog!AnalogInputAssumption
  <2>11. (trigger \in Triggers)'
    BY <1>8, ProfilesAssumption
       DEF Analog!SendSource, Analog!Consumed, Analog!configVars, AnalogTypes,
       Analog!NoReference, Analog!Comparators, AnalogInv, WatchInv, DriftInv, OwedInv,
       Analog!AnalogInputAssumption
  <2>12. (conditioning \in Conditionings)'
    BY <1>8, ProfilesAssumption
       DEF Analog!SendSource, Analog!Consumed, Analog!configVars, AnalogTypes,
       Analog!NoReference, Analog!Comparators, AnalogInv, WatchInv, DriftInv, OwedInv,
       Analog!AnalogInputAssumption
  <2>13. (watched \subseteq Analog!Comparators)'
    BY <1>8, ProfilesAssumption
       DEF Analog!SendSource, Analog!Consumed, Analog!configVars, AnalogTypes,
       Analog!NoReference, Analog!Comparators, AnalogInv, WatchInv, DriftInv, OwedInv,
       Analog!AnalogInputAssumption
  <2>q. QED
    BY <2>1, <2>2, <2>3, <2>4, <2>5, <2>6, <2>7, <2>8, <2>9, <2>10, <2>11, <2>12, <2>13
       DEF AnalogTypes
<1>9. CASE Analog!SdoReadsSource
  BY <1>9, ProfilesAssumption DEF Analog!SdoReadsSource, Analog!Consumed, Analog!configVars,
     AnalogTypes,
     Analog!NoReference, Analog!Comparators, AnalogInv, WatchInv, DriftInv, OwedInv,
     Analog!AnalogInputAssumption
<1>q. QED
  BY <1>0, <1>1, <1>2, <1>3, <1>4, <1>5, <1>6, <1>7, <1>8, <1>9 DEF Analog!Next, Analog!AnalogPass

(* Every step keeps the watch.                                             *)
LEMMA WatchStep ==
    ASSUME AnalogInv, [Analog!Next]_(Analog!vars)
    PROVE  WatchInv'
<1>0. CASE UNCHANGED Analog!vars
  BY <1>0 DEF Analog!vars, Analog!eventVars, Analog!configVars, WatchInv, AnalogInv, AnalogTypes,
     DriftInv,
     OwedInv, Analog!AnalogInputAssumption, Analog!NoReference
<1>1. CASE Analog!Detach \/ Analog!ReadFails \/ Analog!SdoReadsSource
  BY <1>1 DEF Analog!Detach, Analog!ReadFails, Analog!SdoReadsSource, Analog!eventVars,
     Analog!configVars, WatchInv, AnalogInv,
     AnalogTypes, DriftInv, OwedInv, Analog!AnalogInputAssumption, Analog!NoReference
<1>2. ASSUME NEW raw \in Raw,
             Analog!RefreshInput(raw)
      PROVE  WatchInv'
  BY <1>2 DEF Analog!RefreshInput, Analog!configVars, WatchInv, AnalogInv, AnalogTypes, DriftInv,
     OwedInv,
     Analog!AnalogInputAssumption, Analog!NoReference
<1>3. ASSUME NEW ok \in BOOLEAN,
             Analog!SendSource(ok)
      PROVE  WatchInv'
  BY <1>3 DEF Analog!SendSource, Analog!configVars, WatchInv, AnalogInv, AnalogTypes, DriftInv,
     OwedInv,
     Analog!AnalogInputAssumption, Analog!NoReference
<1>4. CASE Analog!Attach
  BY <1>4, ProfilesAssumption DEF Analog!Attach, Analog!NoReference, Analog!configVars, WatchInv,
     AnalogInv,
     AnalogTypes, DriftInv, OwedInv, Analog!AnalogInputAssumption
<1>5. CASE Analog!Configure
  BY <1>5, ProfilesAssumption DEF Analog!Configure, Analog!eventVars, WatchInv, AnalogInv,
     AnalogTypes,
     DriftInv, OwedInv, Analog!AnalogInputAssumption, Analog!NoReference
<1>6. ASSUME NEW ok \in BOOLEAN, Analog!SendValue(ok) PROVE WatchInv'
  BY <1>6, ProfilesAssumption DEF Analog!SendValue, Analog!Retired, Analog!SetReference,
     Analog!configVars,
     WatchInv, AnalogInv, AnalogTypes, DriftInv, OwedInv, Analog!AnalogInputAssumption,
     Analog!NoReference
<1>7. CASE Analog!SdoReadsValue
  BY <1>7, ProfilesAssumption DEF Analog!SdoReadsValue, Analog!SetReference, Analog!eventVars,
     Analog!configVars,
     WatchInv, AnalogInv, AnalogTypes, DriftInv, OwedInv, Analog!AnalogInputAssumption,
     Analog!NoReference
<1>q. QED
  BY <1>0, <1>1, <1>2, <1>3, <1>4, <1>5, <1>6, <1>7 DEF Analog!Next, Analog!AnalogPass

(* No drift goes by unseen.                                                *)
LEMMA DriftStep ==
    ASSUME AnalogInv, [Analog!Next]_(Analog!vars)
    PROVE  DriftInv'
<1>0. CASE UNCHANGED Analog!vars
  BY <1>0 DEF Analog!vars, Analog!eventVars, Analog!configVars, DriftInv, Analog!NoReference,
     AnalogInv, AnalogTypes,
     WatchInv, OwedInv, Analog!AnalogInputAssumption
<1>1. CASE Analog!Detach \/ Analog!ReadFails \/ Analog!SdoReadsSource
  BY <1>1 DEF Analog!Detach, Analog!ReadFails, Analog!SdoReadsSource, Analog!eventVars,
     Analog!configVars, DriftInv,
     Analog!NoReference, AnalogInv, AnalogTypes, WatchInv, OwedInv, Analog!AnalogInputAssumption
<1>2. ASSUME NEW ok \in BOOLEAN,
             Analog!SendSource(ok)
      PROVE  DriftInv'
  BY <1>2 DEF Analog!SendSource, Analog!configVars, DriftInv, Analog!NoReference, AnalogInv,
     AnalogTypes,
     WatchInv, OwedInv, Analog!AnalogInputAssumption
<1>3. CASE Analog!Attach
  BY <1>3, ProfilesAssumption DEF Analog!Attach, Analog!NoReference, Analog!configVars, DriftInv,
     AnalogInv,
     AnalogTypes, WatchInv, OwedInv, Analog!AnalogInputAssumption
<1>4. CASE Analog!Configure
  BY <1>4, ProfilesAssumption DEF Analog!Configure, Analog!eventVars, DriftInv,
     Analog!NoReference, AnalogInv,
     AnalogTypes, WatchInv, OwedInv, Analog!AnalogInputAssumption
<1>5. ASSUME NEW raw \in Raw, Analog!RefreshInput(raw) PROVE DriftInv'
  BY <1>5, ProfilesAssumption DEF Analog!RefreshInput, Analog!Fits, Analog!Fires,
     Analog!Reasserted, Analog!configVars,
     Analog!LastCommunicated, Analog!NoReference, DriftInv, AnalogInv, AnalogTypes, WatchInv,
     OwedInv,
     Analog!AnalogInputAssumption
<1>6. ASSUME NEW ok \in BOOLEAN, Analog!SendValue(ok) PROVE DriftInv'
  BY <1>6, ProfilesAssumption DEF Analog!SendValue, Analog!Retired, Analog!SetReference,
     Analog!configVars,
     DriftInv, Analog!NoReference, AnalogInv, AnalogTypes, WatchInv, OwedInv,
     Analog!AnalogInputAssumption
<1>7. CASE Analog!SdoReadsValue
  BY <1>7, ProfilesAssumption DEF Analog!SdoReadsValue, Analog!SetReference, Analog!eventVars,
     Analog!configVars,
     DriftInv, Analog!NoReference, AnalogInv, AnalogTypes, WatchInv, OwedInv,
     Analog!AnalogInputAssumption
<1>q. QED
  BY <1>0, <1>1, <1>2, <1>3, <1>4, <1>5, <1>6, <1>7 DEF Analog!Next, Analog!AnalogPass

(* What is owed is remembered.                                             *)
LEMMA OwedStep ==
    ASSUME AnalogInv, [Analog!Next]_(Analog!vars)
    PROVE  OwedInv'
<1>0. CASE UNCHANGED Analog!vars
  BY <1>0 DEF Analog!vars, Analog!eventVars, Analog!configVars, OwedInv, AnalogInv, AnalogTypes,
     WatchInv,
     DriftInv, Analog!AnalogInputAssumption, Analog!NoReference
<1>1. CASE Analog!Detach \/ Analog!Configure \/ Analog!ReadFails \/ Analog!SdoReadsValue
  BY <1>1 DEF Analog!Detach, Analog!Configure, Analog!ReadFails, Analog!SdoReadsValue,
     Analog!eventVars, Analog!configVars,
     OwedInv, AnalogInv, AnalogTypes, WatchInv, DriftInv, Analog!AnalogInputAssumption,
     Analog!NoReference
<1>2. CASE Analog!Attach
  BY <1>2, ProfilesAssumption DEF Analog!Attach, Analog!NoReference, Analog!configVars, OwedInv,
     AnalogInv,
     AnalogTypes, WatchInv, DriftInv, Analog!AnalogInputAssumption
<1>3. ASSUME NEW raw \in Raw, Analog!RefreshInput(raw) PROVE OwedInv'
  BY <1>3, ProfilesAssumption DEF Analog!RefreshInput, Analog!Fits, Analog!Fires,
     Analog!Reasserted, Analog!configVars,
     Analog!LastCommunicated, Analog!NoReference, OwedInv, AnalogInv, AnalogTypes, WatchInv,
     DriftInv,
     Analog!AnalogInputAssumption
<1>4. ASSUME NEW ok \in BOOLEAN, Analog!SendValue(ok) PROVE OwedInv'
  BY <1>4, ProfilesAssumption DEF Analog!SendValue, Analog!Retired, Analog!SetReference,
     Analog!configVars, OwedInv,
     AnalogInv, AnalogTypes, WatchInv, DriftInv, Analog!AnalogInputAssumption, Analog!NoReference
<1>5. ASSUME NEW ok \in BOOLEAN, Analog!SendSource(ok) PROVE OwedInv'
  BY <1>5, ProfilesAssumption DEF Analog!SendSource, Analog!Consumed, Analog!configVars, OwedInv,
     AnalogInv,
     AnalogTypes, WatchInv, DriftInv, Analog!AnalogInputAssumption, Analog!NoReference
<1>6. CASE Analog!SdoReadsSource
  BY <1>6, ProfilesAssumption DEF Analog!SdoReadsSource, Analog!Consumed, Analog!configVars,
     OwedInv, AnalogInv,
     AnalogTypes, WatchInv, DriftInv, Analog!AnalogInputAssumption, Analog!NoReference
<1>q. QED
  BY <1>0, <1>1, <1>2, <1>3, <1>4, <1>5, <1>6 DEF Analog!Next, Analog!AnalogPass

LEMMA AnalogStarts == Analog!Init => AnalogInv
<1> SUFFICES ASSUME Analog!Init PROVE AnalogInv
  OBVIOUS
<1>0. trigger \in Triggers /\ conditioning \in Conditionings
  BY ProfilesAssumption DEF Analog!Init, Analog!AnalogInputAssumption
<1>1. AnalogTypes
  BY <1>0, NoReferenceFits DEF Analog!Init, AnalogTypes
<1>q. QED
  BY <1>1 DEF Analog!Init, AnalogInv, WatchInv, DriftInv, OwedInv

LEMMA AnalogInvariant == Spec => []AnalogInv
<1>1. AnalogInv /\ [Analog!Next]_(Analog!vars) => AnalogInv'
  BY AnalogTypesStep, WatchStep, DriftStep, OwedStep DEF AnalogInv
<1>q. QED
  BY <1>1, AnalogStarts, Starts, Steps, PTL DEF Spec

(* Drift within a delta comparator's range is the only drift that goes     *)
(* unreported, and an event and its source bit last until a frame or a     *)
(* client has carried them away (CO_401_analog.c:107, :147).               *)
THEOREM AnalogInputSafe == Spec => []Analog!AnalogInputIsSafe
<1>1. AnalogInv => Analog!TypeOK
  BY DEF AnalogInv, AnalogTypes, Analog!TypeOK
<1>2. AnalogInv => Analog!DriftIsReported /\ Analog!EventsLast
  BY DEF AnalogInv, DriftInv, OwedInv, Analog!DriftIsReported, Analog!EventsLast
<1>3. AnalogInv => Analog!AnalogInputIsSafe
  BY <1>1, <1>2 DEF Analog!AnalogInputIsSafe
<1>q. QED
  BY <1>3, AnalogInvariant, PTL

-----------------------------------------------------------------------------
(***************************************************************************)
(* Proofs about DriveController.  Time is accounted for by two sums that   *)
(* include what is deferred; a reset edge that waits carries its command   *)
(* with it.                                                                *)
(***************************************************************************)

(* The types, one variable after the other. *)
DriveTypes ==
    /\ target \in Drive!Targets \cup {Drive!NoTarget}
    /\ remote \in Drive!States \cup {"UNKNOWN"}
    /\ invalid \in BOOLEAN
    /\ resetAsked \in BOOLEAN
    /\ pulseHigh \in BOOLEAN
    /\ edge \in BOOLEAN
    /\ outcome \in Drive!Outcomes
    /\ pending \in Drive!Commands \cup {Drive!NoCommand}
    /\ driveAt \in {"idle", "read", "write"}
    /\ drive \in Drive!States
    /\ word \in Drive!Commands

TimeTypes ==
    /\ moving \in 0..MaxTime
    /\ silent \in 0..MaxTime
    /\ deferred \in 0..MaxTime
    /\ sinceGoal \in 0..MaxTime
    /\ sinceHeard \in 0..MaxTime

(* What the transition has taken, with what is still deferred, has passed  *)
(* since the goal was given or the drive was seen to move.                 *)
OwnTimeInv ==
    /\ Drive!Plus(moving, deferred) <= sinceGoal
    /\ outcome = "TRANSITION_TIMEOUT" => sinceGoal >= TransitionTimeout

(* Only a pending command is on its way. *)
DrivePlaceInv == driveAt # "idle" => pending # Drive!NoCommand

(* The drive's bit 7 is high only while the pulse is, or while the command *)
(* that takes it back waits.                                               *)
DrivePulseInv ==
    /\ word = "FAULT_RESET" => pulseHigh \/ (edge /\ pending = "DISABLE_VOLTAGE")
    /\ pending = "FAULT_RESET" => edge /\ pulseHigh

DriveInv ==
    /\ DriveTypes /\ TimeTypes
    /\ Drive!FeedbackAgeIsExact /\ OwnTimeInv /\ Drive!PendingServesTarget
    /\ DrivePlaceInv /\ DrivePulseInv

-----------------------------------------------------------------------------
(* The saturating addition of times is an addition up to the limit.        *)
LEMMA PlusTypes ==
    ASSUME NEW a \in 0..MaxTime, NEW b \in 0..MaxTime
    PROVE  /\ Drive!Plus(a, b) \in 0..MaxTime /\ Drive!Plus(a, 0) = a
           /\ Drive!Plus(a, b) >= a
BY ProfilesAssumption DEF Drive!Plus, Drive!DriveControllerAssumption

LEMMA PlusAssociates ==
    ASSUME NEW a \in 0..MaxTime, NEW b \in 0..MaxTime, NEW c \in Nat
    PROVE  /\ Drive!Plus(b, c) \in 0..MaxTime
           /\ Drive!Plus(a, Drive!Plus(b, c)) = Drive!Plus(Drive!Plus(a, b), c)
BY ProfilesAssumption DEF Drive!Plus, Drive!DriveControllerAssumption

LEMMA PlusGrows ==
    ASSUME NEW a \in 0..MaxTime, NEW b \in 0..MaxTime, a <= b, NEW c \in Nat
    PROVE  /\ Drive!Plus(a, c) <= Drive!Plus(b, c) /\ Drive!Plus(b, c) >= b /\ Drive!Plus(b,
              c) \in 0..MaxTime
BY ProfilesAssumption DEF Drive!Plus, Drive!DriveControllerAssumption

(* No target asks for a reset. *)
LEMMA CommandTypes ==
    ASSUME NEW s, NEW t
    PROVE  Drive!CommandFor(s, t) \in (Drive!Commands \ {"FAULT_RESET"}) \cup {Drive!NoCommand,
        "blocked"}
BY DEF Drive!CommandFor, Drive!Commands, Drive!NoCommand

(* The limits of the times. *)
LEMMA Limits ==
    /\ 0 \in 0..MaxTime /\ Drive!Steps \subseteq Nat
    /\ TransitionTimeout \in Nat /\ TransitionTimeout > 0
BY ProfilesAssumption DEF Drive!DriveControllerAssumption, Drive!Steps

LEMMA GoalTypes == Goals \subseteq Drive!Targets
BY ProfilesAssumption DEF Drive!DriveControllerAssumption

(* Every step keeps the types.                                             *)
LEMMA DriveTypesStep ==
    ASSUME DriveInv, [Drive!Next]_(Drive!vars)
    PROVE  DriveTypes'
<1>0. CASE UNCHANGED Drive!vars
  BY <1>0 DEF Drive!vars, Drive!coreVars, Drive!clientVars, Drive!driveVars, Drive!timeVars,
     DriveTypes, Drive!Targets,
     Drive!NoTarget, Drive!States, Drive!Outcomes, Drive!Commands, Drive!NoCommand,
     Drive!FaultStates, DriveInv, DrivePlaceInv
<1>1. ASSUME NEW dt \in Drive!Steps,
             Drive!StatuswordRefused(dt)
      PROVE  DriveTypes'
  BY <1>1 DEF Drive!StatuswordRefused, Drive!coreVars, Drive!driveVars, DriveTypes,
     Drive!Targets, Drive!NoTarget,
     Drive!States, Drive!Outcomes, Drive!Commands, Drive!NoCommand, Drive!FaultStates, DriveInv,
     DrivePlaceInv
<1>2. ASSUME NEW t \in Goals, Drive!SetTarget(t) PROVE DriveTypes'
  BY <1>2, GoalTypes DEF Drive!SetTarget, Drive!FaultStates, Drive!SameTarget, Drive!NoCommand,
     Drive!Committed,
     Drive!driveVars, Drive!CommitDeferred, DriveTypes, Drive!Targets, Drive!NoTarget,
     Drive!States, Drive!Outcomes,
     Drive!Commands, DriveInv, DrivePlaceInv
<1>3. CASE Drive!ClearTarget
  BY <1>3, GoalTypes DEF Drive!ClearTarget, Drive!NoTarget, Drive!EdgeKept, Drive!NoCommand,
     Drive!Committed,
     Drive!driveVars, Drive!timeVars, Drive!CommitDeferred, DriveTypes, Drive!Targets,
     Drive!States, Drive!Outcomes,
     Drive!Commands, Drive!FaultStates, DriveInv, DrivePlaceInv
<1>4. CASE Drive!RequestFaultReset
  BY <1>4, GoalTypes DEF Drive!RequestFaultReset, Drive!NoCommand, Drive!driveVars,
     Drive!timeVars, DriveTypes,
     Drive!Targets, Drive!NoTarget, Drive!States, Drive!Outcomes, Drive!Commands,
     Drive!FaultStates, DriveInv, DrivePlaceInv
<1>5. ASSUME NEW dt \in Drive!Steps, Drive!Retry(dt) PROVE DriveTypes'
  BY <1>5, GoalTypes DEF Drive!Retry, Drive!NoCommand, Drive!coreVars, Drive!driveVars,
     DriveTypes, Drive!Targets,
     Drive!NoTarget, Drive!States, Drive!Outcomes, Drive!Commands, Drive!FaultStates, DriveInv,
     DrivePlaceInv
<1>6. ASSUME NEW dt \in Drive!Steps, NEW reply \in Drive!Replies, Drive!ReadStatusword(dt,
    reply) PROVE
   DriveTypes'
  <2>1. (target \in Drive!Targets \cup {Drive!NoTarget})'
    BY <1>6, CommandTypes DEF Drive!ReadStatusword, Drive!ReplayDeferred, Drive!NoCommand,
       Drive!Judge,
       Drive!driveVars, Drive!NoTarget, Drive!FaultStates, Drive!States, Drive!Targets,
       DriveTypes, Drive!Outcomes,
       Drive!Commands, DriveInv, DrivePlaceInv
  <2>2. (remote \in Drive!States \cup {"UNKNOWN"})'
    BY <1>6, CommandTypes DEF Drive!ReadStatusword, Drive!ReplayDeferred, Drive!NoCommand,
       Drive!Judge,
       Drive!driveVars, Drive!NoTarget, Drive!FaultStates, Drive!States, Drive!Targets,
       DriveTypes, Drive!Outcomes,
       Drive!Commands, DriveInv, DrivePlaceInv
  <2>3. (invalid \in BOOLEAN)'
    BY <1>6, CommandTypes DEF Drive!ReadStatusword, Drive!ReplayDeferred, Drive!NoCommand,
       Drive!Judge,
       Drive!driveVars, Drive!NoTarget, Drive!FaultStates, Drive!States, Drive!Targets,
       DriveTypes, Drive!Outcomes,
       Drive!Commands, DriveInv, DrivePlaceInv
  <2>4. (resetAsked \in BOOLEAN)'
    BY <1>6, CommandTypes DEF Drive!ReadStatusword, Drive!ReplayDeferred, Drive!NoCommand,
       Drive!Judge,
       Drive!driveVars, Drive!NoTarget, Drive!FaultStates, Drive!States, Drive!Targets,
       DriveTypes, Drive!Outcomes,
       Drive!Commands, DriveInv, DrivePlaceInv
  <2>5. (pulseHigh \in BOOLEAN)'
    BY <1>6, CommandTypes DEF Drive!ReadStatusword, Drive!ReplayDeferred, Drive!NoCommand,
       Drive!Judge,
       Drive!driveVars, Drive!NoTarget, Drive!FaultStates, Drive!States, Drive!Targets,
       DriveTypes, Drive!Outcomes,
       Drive!Commands, DriveInv, DrivePlaceInv
  <2>6. (edge \in BOOLEAN)'
    BY <1>6, CommandTypes DEF Drive!ReadStatusword, Drive!ReplayDeferred, Drive!NoCommand,
       Drive!Judge,
       Drive!driveVars, Drive!NoTarget, Drive!FaultStates, Drive!States, Drive!Targets,
       DriveTypes, Drive!Outcomes,
       Drive!Commands, DriveInv, DrivePlaceInv
  <2>7. (outcome \in Drive!Outcomes)'
    BY <1>6, CommandTypes DEF Drive!ReadStatusword, Drive!ReplayDeferred, Drive!NoCommand,
       Drive!Judge,
       Drive!driveVars, Drive!NoTarget, Drive!FaultStates, Drive!States, Drive!Targets,
       DriveTypes, Drive!Outcomes,
       Drive!Commands, DriveInv, DrivePlaceInv
  <2>8. (pending \in Drive!Commands \cup {Drive!NoCommand})'
    BY <1>6, CommandTypes DEF Drive!ReadStatusword, Drive!ReplayDeferred, Drive!NoCommand,
       Drive!Judge,
       Drive!driveVars, Drive!NoTarget, Drive!FaultStates, Drive!States, Drive!Targets,
       DriveTypes, Drive!Outcomes,
       Drive!Commands, DriveInv, DrivePlaceInv
  <2>9. (driveAt \in {"idle", "read", "write"})'
    BY <1>6, CommandTypes DEF Drive!ReadStatusword, Drive!ReplayDeferred, Drive!NoCommand,
       Drive!Judge,
       Drive!driveVars, Drive!NoTarget, Drive!FaultStates, Drive!States, Drive!Targets,
       DriveTypes, Drive!Outcomes,
       Drive!Commands, DriveInv, DrivePlaceInv
  <2>10. (drive \in Drive!States)'
    BY <1>6, CommandTypes DEF Drive!ReadStatusword, Drive!ReplayDeferred, Drive!NoCommand,
       Drive!Judge,
       Drive!driveVars, Drive!NoTarget, Drive!FaultStates, Drive!States, Drive!Targets,
       DriveTypes, Drive!Outcomes,
       Drive!Commands, DriveInv, DrivePlaceInv
  <2>11. (word \in Drive!Commands)'
    BY <1>6, CommandTypes DEF Drive!ReadStatusword, Drive!ReplayDeferred, Drive!NoCommand,
       Drive!Judge,
       Drive!driveVars, Drive!NoTarget, Drive!FaultStates, Drive!States, Drive!Targets,
       DriveTypes, Drive!Outcomes,
       Drive!Commands, DriveInv, DrivePlaceInv
  <2>q. QED
    BY <2>1, <2>2, <2>3, <2>4, <2>5, <2>6, <2>7, <2>8, <2>9, <2>10, <2>11 DEF DriveTypes
<1>7. CASE Drive!ReadControlword
  BY <1>7, GoalTypes DEF Drive!ReadControlword, Drive!coreVars, Drive!clientVars,
     Drive!driveVars, Drive!timeVars,
     DriveTypes, Drive!Targets, Drive!NoTarget, Drive!States, Drive!Outcomes, Drive!Commands,
     Drive!NoCommand, Drive!FaultStates,
     DriveInv, DrivePlaceInv
<1>8. CASE Drive!WriteAccepted
  <2>1. (target \in Drive!Targets \cup {Drive!NoTarget})'
    BY <1>8, CommandTypes DEF Drive!WriteAccepted, Drive!Delivered, Drive!NoCommand,
       Drive!CommitDeferred,
       Drive!timeVars, Drive!Obeys, Drive!EnabledFrom, DriveTypes, Drive!Targets, Drive!NoTarget,
       Drive!States, Drive!Outcomes,
       Drive!Commands, Drive!FaultStates, DriveInv, DrivePlaceInv
  <2>2. (remote \in Drive!States \cup {"UNKNOWN"})'
    BY <1>8, CommandTypes DEF Drive!WriteAccepted, Drive!Delivered, Drive!NoCommand,
       Drive!CommitDeferred,
       Drive!timeVars, Drive!Obeys, Drive!EnabledFrom, DriveTypes, Drive!Targets, Drive!NoTarget,
       Drive!States, Drive!Outcomes,
       Drive!Commands, Drive!FaultStates, DriveInv, DrivePlaceInv
  <2>3. (invalid \in BOOLEAN)'
    BY <1>8, CommandTypes DEF Drive!WriteAccepted, Drive!Delivered, Drive!NoCommand,
       Drive!CommitDeferred,
       Drive!timeVars, Drive!Obeys, Drive!EnabledFrom, DriveTypes, Drive!Targets, Drive!NoTarget,
       Drive!States, Drive!Outcomes,
       Drive!Commands, Drive!FaultStates, DriveInv, DrivePlaceInv
  <2>4. (resetAsked \in BOOLEAN)'
    BY <1>8, CommandTypes DEF Drive!WriteAccepted, Drive!Delivered, Drive!NoCommand,
       Drive!CommitDeferred,
       Drive!timeVars, Drive!Obeys, Drive!EnabledFrom, DriveTypes, Drive!Targets, Drive!NoTarget,
       Drive!States, Drive!Outcomes,
       Drive!Commands, Drive!FaultStates, DriveInv, DrivePlaceInv
  <2>5. (pulseHigh \in BOOLEAN)'
    BY <1>8, CommandTypes DEF Drive!WriteAccepted, Drive!Delivered, Drive!NoCommand,
       Drive!CommitDeferred,
       Drive!timeVars, Drive!Obeys, Drive!EnabledFrom, DriveTypes, Drive!Targets, Drive!NoTarget,
       Drive!States, Drive!Outcomes,
       Drive!Commands, Drive!FaultStates, DriveInv, DrivePlaceInv
  <2>6. (edge \in BOOLEAN)'
    BY <1>8, CommandTypes DEF Drive!WriteAccepted, Drive!Delivered, Drive!NoCommand,
       Drive!CommitDeferred,
       Drive!timeVars, Drive!Obeys, Drive!EnabledFrom, DriveTypes, Drive!Targets, Drive!NoTarget,
       Drive!States, Drive!Outcomes,
       Drive!Commands, Drive!FaultStates, DriveInv, DrivePlaceInv
  <2>7. (outcome \in Drive!Outcomes)'
    BY <1>8, CommandTypes DEF Drive!WriteAccepted, Drive!Delivered, Drive!NoCommand,
       Drive!CommitDeferred,
       Drive!timeVars, Drive!Obeys, Drive!EnabledFrom, DriveTypes, Drive!Targets, Drive!NoTarget,
       Drive!States, Drive!Outcomes,
       Drive!Commands, Drive!FaultStates, DriveInv, DrivePlaceInv
  <2>8. (pending \in Drive!Commands \cup {Drive!NoCommand})'
    BY <1>8, CommandTypes DEF Drive!WriteAccepted, Drive!Delivered, Drive!NoCommand,
       Drive!CommitDeferred,
       Drive!timeVars, Drive!Obeys, Drive!EnabledFrom, DriveTypes, Drive!Targets, Drive!NoTarget,
       Drive!States, Drive!Outcomes,
       Drive!Commands, Drive!FaultStates, DriveInv, DrivePlaceInv
  <2>9. (driveAt \in {"idle", "read", "write"})'
    BY <1>8, CommandTypes DEF Drive!WriteAccepted, Drive!Delivered, Drive!NoCommand,
       Drive!CommitDeferred,
       Drive!timeVars, Drive!Obeys, Drive!EnabledFrom, DriveTypes, Drive!Targets, Drive!NoTarget,
       Drive!States, Drive!Outcomes,
       Drive!Commands, Drive!FaultStates, DriveInv, DrivePlaceInv
  <2>10. (drive \in Drive!States)'
    BY <1>8, CommandTypes DEF Drive!WriteAccepted, Drive!Delivered, Drive!NoCommand,
       Drive!CommitDeferred,
       Drive!timeVars, Drive!Obeys, Drive!EnabledFrom, DriveTypes, Drive!Targets, Drive!NoTarget,
       Drive!States, Drive!Outcomes,
       Drive!Commands, Drive!FaultStates, DriveInv, DrivePlaceInv
  <2>11. (word \in Drive!Commands)'
    BY <1>8, CommandTypes DEF Drive!WriteAccepted, Drive!Delivered, Drive!NoCommand,
       Drive!CommitDeferred,
       Drive!timeVars, Drive!Obeys, Drive!EnabledFrom, DriveTypes, Drive!Targets, Drive!NoTarget,
       Drive!States, Drive!Outcomes,
       Drive!Commands, Drive!FaultStates, DriveInv, DrivePlaceInv
  <2>q. QED
    BY <2>1, <2>2, <2>3, <2>4, <2>5, <2>6, <2>7, <2>8, <2>9, <2>10, <2>11 DEF DriveTypes
<1>9. CASE Drive!WriteFails
  <2>1. (target \in Drive!Targets \cup {Drive!NoTarget})'
    BY <1>9, CommandTypes DEF Drive!WriteFails, Drive!Delivered, Drive!driveVars, Drive!Retained,
       Drive!coreVars,
       Drive!timeVars, Drive!Obeys, Drive!EnabledFrom, DriveTypes, Drive!Targets, Drive!NoTarget,
       Drive!States, Drive!Outcomes,
       Drive!Commands, Drive!NoCommand, Drive!FaultStates, DriveInv, DrivePlaceInv
  <2>2. (remote \in Drive!States \cup {"UNKNOWN"})'
    BY <1>9, CommandTypes DEF Drive!WriteFails, Drive!Delivered, Drive!driveVars, Drive!Retained,
       Drive!coreVars,
       Drive!timeVars, Drive!Obeys, Drive!EnabledFrom, DriveTypes, Drive!Targets, Drive!NoTarget,
       Drive!States, Drive!Outcomes,
       Drive!Commands, Drive!NoCommand, Drive!FaultStates, DriveInv, DrivePlaceInv
  <2>3. (invalid \in BOOLEAN)'
    BY <1>9, CommandTypes DEF Drive!WriteFails, Drive!Delivered, Drive!driveVars, Drive!Retained,
       Drive!coreVars,
       Drive!timeVars, Drive!Obeys, Drive!EnabledFrom, DriveTypes, Drive!Targets, Drive!NoTarget,
       Drive!States, Drive!Outcomes,
       Drive!Commands, Drive!NoCommand, Drive!FaultStates, DriveInv, DrivePlaceInv
  <2>4. (resetAsked \in BOOLEAN)'
    BY <1>9, CommandTypes DEF Drive!WriteFails, Drive!Delivered, Drive!driveVars, Drive!Retained,
       Drive!coreVars,
       Drive!timeVars, Drive!Obeys, Drive!EnabledFrom, DriveTypes, Drive!Targets, Drive!NoTarget,
       Drive!States, Drive!Outcomes,
       Drive!Commands, Drive!NoCommand, Drive!FaultStates, DriveInv, DrivePlaceInv
  <2>5. (pulseHigh \in BOOLEAN)'
    BY <1>9, CommandTypes DEF Drive!WriteFails, Drive!Delivered, Drive!driveVars, Drive!Retained,
       Drive!coreVars,
       Drive!timeVars, Drive!Obeys, Drive!EnabledFrom, DriveTypes, Drive!Targets, Drive!NoTarget,
       Drive!States, Drive!Outcomes,
       Drive!Commands, Drive!NoCommand, Drive!FaultStates, DriveInv, DrivePlaceInv
  <2>6. (edge \in BOOLEAN)'
    BY <1>9, CommandTypes DEF Drive!WriteFails, Drive!Delivered, Drive!driveVars, Drive!Retained,
       Drive!coreVars,
       Drive!timeVars, Drive!Obeys, Drive!EnabledFrom, DriveTypes, Drive!Targets, Drive!NoTarget,
       Drive!States, Drive!Outcomes,
       Drive!Commands, Drive!NoCommand, Drive!FaultStates, DriveInv, DrivePlaceInv
  <2>7. (outcome \in Drive!Outcomes)'
    BY <1>9, CommandTypes DEF Drive!WriteFails, Drive!Delivered, Drive!driveVars, Drive!Retained,
       Drive!coreVars,
       Drive!timeVars, Drive!Obeys, Drive!EnabledFrom, DriveTypes, Drive!Targets, Drive!NoTarget,
       Drive!States, Drive!Outcomes,
       Drive!Commands, Drive!NoCommand, Drive!FaultStates, DriveInv, DrivePlaceInv
  <2>8. (pending \in Drive!Commands \cup {Drive!NoCommand})'
    BY <1>9, CommandTypes DEF Drive!WriteFails, Drive!Delivered, Drive!driveVars, Drive!Retained,
       Drive!coreVars,
       Drive!timeVars, Drive!Obeys, Drive!EnabledFrom, DriveTypes, Drive!Targets, Drive!NoTarget,
       Drive!States, Drive!Outcomes,
       Drive!Commands, Drive!NoCommand, Drive!FaultStates, DriveInv, DrivePlaceInv
  <2>9. (driveAt \in {"idle", "read", "write"})'
    BY <1>9, CommandTypes DEF Drive!WriteFails, Drive!Delivered, Drive!driveVars, Drive!Retained,
       Drive!coreVars,
       Drive!timeVars, Drive!Obeys, Drive!EnabledFrom, DriveTypes, Drive!Targets, Drive!NoTarget,
       Drive!States, Drive!Outcomes,
       Drive!Commands, Drive!NoCommand, Drive!FaultStates, DriveInv, DrivePlaceInv
  <2>10. (drive \in Drive!States)'
    BY <1>9, CommandTypes DEF Drive!WriteFails, Drive!Delivered, Drive!driveVars, Drive!Retained,
       Drive!coreVars,
       Drive!timeVars, Drive!Obeys, Drive!EnabledFrom, DriveTypes, Drive!Targets, Drive!NoTarget,
       Drive!States, Drive!Outcomes,
       Drive!Commands, Drive!NoCommand, Drive!FaultStates, DriveInv, DrivePlaceInv
  <2>11. (word \in Drive!Commands)'
    BY <1>9, CommandTypes DEF Drive!WriteFails, Drive!Delivered, Drive!driveVars, Drive!Retained,
       Drive!coreVars,
       Drive!timeVars, Drive!Obeys, Drive!EnabledFrom, DriveTypes, Drive!Targets, Drive!NoTarget,
       Drive!States, Drive!Outcomes,
       Drive!Commands, Drive!NoCommand, Drive!FaultStates, DriveInv, DrivePlaceInv
  <2>q. QED
    BY <2>1, <2>2, <2>3, <2>4, <2>5, <2>6, <2>7, <2>8, <2>9, <2>10, <2>11 DEF DriveTypes
<1>10. CASE Drive!DriveMoves
  <2>1. (target \in Drive!Targets \cup {Drive!NoTarget})'
    BY <1>10, CommandTypes DEF Drive!DriveMoves, Drive!FaultStates, Drive!coreVars,
       Drive!clientVars, Drive!timeVars,
       DriveTypes, Drive!Targets, Drive!NoTarget, Drive!States, Drive!Outcomes, Drive!Commands,
       Drive!NoCommand, DriveInv,
       DrivePlaceInv
  <2>2. (remote \in Drive!States \cup {"UNKNOWN"})'
    BY <1>10, CommandTypes DEF Drive!DriveMoves, Drive!FaultStates, Drive!coreVars,
       Drive!clientVars, Drive!timeVars,
       DriveTypes, Drive!Targets, Drive!NoTarget, Drive!States, Drive!Outcomes, Drive!Commands,
       Drive!NoCommand, DriveInv,
       DrivePlaceInv
  <2>3. (invalid \in BOOLEAN)'
    BY <1>10, CommandTypes DEF Drive!DriveMoves, Drive!FaultStates, Drive!coreVars,
       Drive!clientVars, Drive!timeVars,
       DriveTypes, Drive!Targets, Drive!NoTarget, Drive!States, Drive!Outcomes, Drive!Commands,
       Drive!NoCommand, DriveInv,
       DrivePlaceInv
  <2>4. (resetAsked \in BOOLEAN)'
    BY <1>10, CommandTypes DEF Drive!DriveMoves, Drive!FaultStates, Drive!coreVars,
       Drive!clientVars, Drive!timeVars,
       DriveTypes, Drive!Targets, Drive!NoTarget, Drive!States, Drive!Outcomes, Drive!Commands,
       Drive!NoCommand, DriveInv,
       DrivePlaceInv
  <2>5. (pulseHigh \in BOOLEAN)'
    BY <1>10, CommandTypes DEF Drive!DriveMoves, Drive!FaultStates, Drive!coreVars,
       Drive!clientVars, Drive!timeVars,
       DriveTypes, Drive!Targets, Drive!NoTarget, Drive!States, Drive!Outcomes, Drive!Commands,
       Drive!NoCommand, DriveInv,
       DrivePlaceInv
  <2>6. (edge \in BOOLEAN)'
    BY <1>10, CommandTypes DEF Drive!DriveMoves, Drive!FaultStates, Drive!coreVars,
       Drive!clientVars, Drive!timeVars,
       DriveTypes, Drive!Targets, Drive!NoTarget, Drive!States, Drive!Outcomes, Drive!Commands,
       Drive!NoCommand, DriveInv,
       DrivePlaceInv
  <2>7. (outcome \in Drive!Outcomes)'
    BY <1>10, CommandTypes DEF Drive!DriveMoves, Drive!FaultStates, Drive!coreVars,
       Drive!clientVars, Drive!timeVars,
       DriveTypes, Drive!Targets, Drive!NoTarget, Drive!States, Drive!Outcomes, Drive!Commands,
       Drive!NoCommand, DriveInv,
       DrivePlaceInv
  <2>8. (pending \in Drive!Commands \cup {Drive!NoCommand})'
    BY <1>10, CommandTypes DEF Drive!DriveMoves, Drive!FaultStates, Drive!coreVars,
       Drive!clientVars, Drive!timeVars,
       DriveTypes, Drive!Targets, Drive!NoTarget, Drive!States, Drive!Outcomes, Drive!Commands,
       Drive!NoCommand, DriveInv,
       DrivePlaceInv
  <2>9. (driveAt \in {"idle", "read", "write"})'
    BY <1>10, CommandTypes DEF Drive!DriveMoves, Drive!FaultStates, Drive!coreVars,
       Drive!clientVars, Drive!timeVars,
       DriveTypes, Drive!Targets, Drive!NoTarget, Drive!States, Drive!Outcomes, Drive!Commands,
       Drive!NoCommand, DriveInv,
       DrivePlaceInv
  <2>10. (drive \in Drive!States)'
    BY <1>10, CommandTypes DEF Drive!DriveMoves, Drive!FaultStates, Drive!coreVars,
       Drive!clientVars, Drive!timeVars,
       DriveTypes, Drive!Targets, Drive!NoTarget, Drive!States, Drive!Outcomes, Drive!Commands,
       Drive!NoCommand, DriveInv,
       DrivePlaceInv
  <2>11. (word \in Drive!Commands)'
    BY <1>10, CommandTypes DEF Drive!DriveMoves, Drive!FaultStates, Drive!coreVars,
       Drive!clientVars, Drive!timeVars,
       DriveTypes, Drive!Targets, Drive!NoTarget, Drive!States, Drive!Outcomes, Drive!Commands,
       Drive!NoCommand, DriveInv,
       DrivePlaceInv
  <2>q. QED
    BY <2>1, <2>2, <2>3, <2>4, <2>5, <2>6, <2>7, <2>8, <2>9, <2>10, <2>11 DEF DriveTypes
<1>q. QED
  BY <1>0, <1>1, <1>2, <1>3, <1>4, <1>5, <1>6, <1>7, <1>8, <1>9, <1>10 DEF Drive!Next,
     Drive!Process, Drive!Application

(* Every step keeps the times in their range.                              *)
LEMMA TimeTypesStep ==
    ASSUME DriveInv, [Drive!Next]_(Drive!vars)
    PROVE  TimeTypes'
<1>0. CASE UNCHANGED Drive!vars
  BY <1>0 DEF Drive!vars, Drive!coreVars, Drive!clientVars, Drive!driveVars, Drive!timeVars,
     TimeTypes, DriveInv
<1>1. CASE Drive!RequestFaultReset \/ Drive!ReadControlword \/ Drive!WriteFails \/ Drive!DriveMoves
  BY <1>1 DEF Drive!RequestFaultReset, Drive!ReadControlword, Drive!WriteFails, Drive!DriveMoves,
     Drive!driveVars,
     Drive!timeVars, Drive!coreVars, Drive!clientVars, TimeTypes, DriveInv
<1>2. ASSUME NEW t \in Goals, Drive!SetTarget(t) PROVE TimeTypes'
  BY <1>2, Limits, PlusTypes, PlusGrows DEF Drive!SetTarget, Drive!FaultStates, Drive!SameTarget,
     Drive!NoCommand, Drive!Committed, Drive!driveVars, Drive!CommitDeferred, TimeTypes, DriveInv
<1>3. CASE Drive!ClearTarget
  BY <1>3, Limits, PlusTypes, PlusGrows
     DEF Drive!ClearTarget, Drive!NoTarget, Drive!EdgeKept, Drive!NoCommand,
     Drive!Committed, Drive!driveVars, Drive!timeVars, Drive!CommitDeferred, TimeTypes, DriveInv
<1>4. ASSUME NEW dt \in Drive!Steps, Drive!Retry(dt) PROVE TimeTypes'
  BY <1>4, Limits, PlusTypes, PlusGrows
     DEF Drive!Retry, Drive!NoCommand, Drive!coreVars, Drive!driveVars,
     TimeTypes, DriveInv
<1>5. ASSUME NEW dt \in Drive!Steps, Drive!StatuswordRefused(dt) PROVE TimeTypes'
  BY <1>5, Limits, PlusTypes, PlusGrows
     DEF Drive!StatuswordRefused, Drive!NoCommand, Drive!coreVars,
     Drive!driveVars, TimeTypes, DriveInv
<1>6. ASSUME NEW dt \in Drive!Steps, NEW reply \in Drive!Replies, Drive!ReadStatusword(dt,
    reply) PROVE
   TimeTypes'
  BY <1>6, Limits, PlusTypes, PlusGrows
     DEF Drive!ReadStatusword, Drive!ReplayDeferred, Drive!NoCommand,
     Drive!Judge, Drive!driveVars, Drive!NoTarget, Drive!FaultStates, Drive!States,
     Drive!Targets, TimeTypes, DriveInv
<1>7. CASE Drive!WriteAccepted
  BY <1>7, Limits, PlusTypes, PlusGrows DEF Drive!WriteAccepted, Drive!Delivered, Drive!NoCommand,
     Drive!CommitDeferred, Drive!timeVars, Drive!Obeys, Drive!EnabledFrom, TimeTypes, DriveInv
<1>q. QED
  BY <1>0, <1>1, <1>2, <1>3, <1>4, <1>5, <1>6, <1>7 DEF Drive!Next, Drive!Process, Drive!Application

(* Every step counts the time without feedback.                            *)
LEMMA AgeStep ==
    ASSUME DriveInv, [Drive!Next]_(Drive!vars)
    PROVE  Drive!FeedbackAgeIsExact'
<1>0. CASE UNCHANGED Drive!vars
  BY <1>0 DEF Drive!vars, Drive!coreVars, Drive!clientVars, Drive!driveVars, Drive!timeVars,
     Drive!FeedbackAgeIsExact, DriveInv,
     TimeTypes
<1>1. CASE Drive!RequestFaultReset \/ Drive!ReadControlword \/ Drive!WriteFails \/ Drive!DriveMoves
  BY <1>1 DEF Drive!RequestFaultReset, Drive!ReadControlword, Drive!WriteFails, Drive!DriveMoves,
     Drive!driveVars,
     Drive!timeVars, Drive!coreVars, Drive!clientVars, Drive!FeedbackAgeIsExact, DriveInv, TimeTypes
<1>2. ASSUME NEW t \in Goals, Drive!SetTarget(t) PROVE Drive!FeedbackAgeIsExact'
  BY <1>2, Limits, PlusTypes, PlusAssociates
     DEF Drive!SetTarget, Drive!FaultStates, Drive!SameTarget,
     Drive!NoCommand, Drive!Committed, Drive!driveVars, Drive!CommitDeferred,
     Drive!FeedbackAgeIsExact, DriveInv,
     TimeTypes
<1>3. CASE Drive!ClearTarget
  BY <1>3, Limits, PlusTypes, PlusAssociates DEF Drive!ClearTarget, Drive!NoTarget, Drive!EdgeKept,
     Drive!NoCommand, Drive!Committed, Drive!driveVars, Drive!timeVars, Drive!CommitDeferred,
     Drive!FeedbackAgeIsExact,
     DriveInv, TimeTypes
<1>4. ASSUME NEW dt \in Drive!Steps, Drive!Retry(dt) PROVE Drive!FeedbackAgeIsExact'
  BY <1>4, Limits, PlusTypes, PlusAssociates
     DEF Drive!Retry, Drive!NoCommand, Drive!coreVars, Drive!driveVars,
     Drive!FeedbackAgeIsExact, DriveInv, TimeTypes
<1>5. ASSUME NEW dt \in Drive!Steps, Drive!StatuswordRefused(dt) PROVE Drive!FeedbackAgeIsExact'
  BY <1>5, Limits, PlusTypes, PlusAssociates
     DEF Drive!StatuswordRefused, Drive!NoCommand, Drive!coreVars,
     Drive!driveVars, Drive!FeedbackAgeIsExact, DriveInv, TimeTypes
<1>6. ASSUME NEW dt \in Drive!Steps, NEW reply \in Drive!Replies, Drive!ReadStatusword(dt,
    reply) PROVE
   Drive!FeedbackAgeIsExact'
  <2>1. /\ deferred' = 0
        /\ silent' = IF reply = "error" THEN Drive!Plus(silent, Drive!Plus(deferred, dt)) ELSE 0
        /\ sinceHeard' = IF reply = "error" THEN Drive!Plus(sinceHeard, dt) ELSE 0
    BY <1>6 DEF Drive!ReadStatusword, Drive!ReplayDeferred
  <2>2. dt \in Nat /\ silent \in 0..MaxTime /\ deferred \in 0..MaxTime
    BY Limits DEF DriveInv, TimeTypes
  <2>3. Drive!Plus(silent, Drive!Plus(deferred, dt)) = Drive!Plus(sinceHeard, dt)
    BY <2>2, PlusAssociates DEF DriveInv, Drive!FeedbackAgeIsExact
  <2>4. sinceHeard' \in 0..MaxTime
    BY TimeTypesStep DEF TimeTypes
  <2>5. silent' = sinceHeard'
    BY <2>1, <2>3
  <2>q. QED
    BY <2>1, <2>4, <2>5, PlusTypes, Limits DEF Drive!FeedbackAgeIsExact
<1>7. CASE Drive!WriteAccepted
  BY <1>7, Limits, PlusTypes, PlusAssociates
     DEF Drive!WriteAccepted, Drive!Delivered, Drive!NoCommand,
     Drive!CommitDeferred, Drive!timeVars, Drive!Obeys, Drive!EnabledFrom,
     Drive!FeedbackAgeIsExact, DriveInv, TimeTypes
<1>q. QED
  BY <1>0, <1>1, <1>2, <1>3, <1>4, <1>5, <1>6, <1>7 DEF Drive!Next, Drive!Process, Drive!Application

(* No step charges the transition what is not its own.                     *)
LEMMA OwnTimeStep ==
    ASSUME DriveInv, [Drive!Next]_(Drive!vars)
    PROVE  OwnTimeInv'
<1>0. CASE UNCHANGED Drive!vars
  BY <1>0 DEF Drive!vars, Drive!coreVars, Drive!clientVars, Drive!driveVars, Drive!timeVars,
     OwnTimeInv, DriveInv,
     TimeTypes
<1>1. CASE Drive!RequestFaultReset \/ Drive!ReadControlword \/ Drive!WriteFails \/ Drive!DriveMoves
  BY <1>1 DEF Drive!RequestFaultReset, Drive!ReadControlword, Drive!WriteFails, Drive!DriveMoves,
     Drive!driveVars,
     Drive!timeVars, Drive!coreVars, Drive!clientVars, OwnTimeInv, DriveInv, TimeTypes
<1>2. ASSUME NEW t \in Goals, Drive!SetTarget(t) PROVE OwnTimeInv'
  BY <1>2, Limits, PlusTypes, PlusAssociates, PlusGrows DEF Drive!SetTarget, Drive!FaultStates,
     Drive!SameTarget, Drive!NoCommand, Drive!Committed, Drive!driveVars, Drive!CommitDeferred,
     OwnTimeInv, DriveInv,
     TimeTypes
<1>3. CASE Drive!ClearTarget
  BY <1>3, Limits, PlusTypes, PlusAssociates, PlusGrows DEF Drive!ClearTarget, Drive!NoTarget,
     Drive!EdgeKept, Drive!NoCommand, Drive!Committed, Drive!driveVars, Drive!timeVars,
     Drive!CommitDeferred, OwnTimeInv,
     DriveInv, TimeTypes
<1>4. ASSUME NEW dt \in Drive!Steps, Drive!Retry(dt) PROVE OwnTimeInv'
  <2>1. /\ deferred' = Drive!Plus(deferred, dt) /\ sinceGoal' = Drive!Plus(sinceGoal, dt)
        /\ UNCHANGED <<moving, outcome>>
    BY <1>4 DEF Drive!Retry, Drive!coreVars
  <2>2. /\ dt \in Nat /\ moving \in 0..MaxTime /\ deferred \in 0..MaxTime
        /\ sinceGoal \in 0..MaxTime /\ Drive!Plus(moving, deferred) \in 0..MaxTime
    BY Limits, PlusTypes DEF DriveInv, TimeTypes
  <2>3. Drive!Plus(moving, Drive!Plus(deferred, dt)) = Drive!Plus(Drive!Plus(moving, deferred), dt)
    BY <2>2, PlusAssociates
  <2>4. Drive!Plus(Drive!Plus(moving, deferred), dt) <= Drive!Plus(sinceGoal, dt) /\
      Drive!Plus(sinceGoal, dt) >= sinceGoal
    BY <2>2, PlusGrows DEF DriveInv, OwnTimeInv
  <2>q. QED
    BY <2>1, <2>2, <2>3, <2>4, PlusGrows, Limits DEF OwnTimeInv, DriveInv
<1>5. ASSUME NEW dt \in Drive!Steps, Drive!StatuswordRefused(dt) PROVE OwnTimeInv'
  <2>1. /\ deferred' = Drive!Plus(deferred, dt) /\ sinceGoal' = Drive!Plus(sinceGoal, dt)
        /\ UNCHANGED <<moving, outcome>>
    BY <1>5 DEF Drive!StatuswordRefused, Drive!coreVars
  <2>2. /\ dt \in Nat /\ moving \in 0..MaxTime /\ deferred \in 0..MaxTime
        /\ sinceGoal \in 0..MaxTime /\ Drive!Plus(moving, deferred) \in 0..MaxTime
    BY Limits, PlusTypes DEF DriveInv, TimeTypes
  <2>3. Drive!Plus(moving, Drive!Plus(deferred, dt)) = Drive!Plus(Drive!Plus(moving, deferred), dt)
    BY <2>2, PlusAssociates
  <2>4. Drive!Plus(Drive!Plus(moving, deferred), dt) <= Drive!Plus(sinceGoal, dt) /\
      Drive!Plus(sinceGoal, dt) >= sinceGoal
    BY <2>2, PlusGrows DEF DriveInv, OwnTimeInv
  <2>q. QED
    BY <2>1, <2>2, <2>3, <2>4, PlusGrows, Limits DEF OwnTimeInv, DriveInv
<1>6. ASSUME NEW dt \in Drive!Steps, NEW reply \in Drive!Replies, Drive!ReadStatusword(dt,
    reply) PROVE
   OwnTimeInv'
  <2> DEFINE elapsed == Drive!Plus(deferred, dt)
             changed == reply = "word" /\ remote # drive
             before == IF reply = "garbled" THEN Drive!Plus(moving, elapsed)
                       ELSE IF changed THEN 0 ELSE moving
             taken == IF changed THEN before ELSE Drive!Plus(before, elapsed)
  <2>1. deferred' = 0 /\ sinceGoal' = IF changed THEN 0 ELSE Drive!Plus(sinceGoal, dt)
    BY <1>6 DEF Drive!ReadStatusword, Drive!ReplayDeferred
  <2>2. /\ moving' = before \/ moving' = 0 \/ (reply # "garbled" /\ moving' = taken)
        /\ outcome' = "TRANSITION_TIMEOUT" =>
             reply # "garbled" /\ moving' = taken /\ taken >= TransitionTimeout
    BY <1>6 DEF Drive!ReadStatusword, Drive!ReplayDeferred, Drive!Judge
  <2>3. /\ dt \in Nat /\ moving \in 0..MaxTime /\ deferred \in 0..MaxTime
        /\ sinceGoal \in 0..MaxTime /\ Drive!Plus(moving, deferred) \in 0..MaxTime
    BY Limits, PlusTypes DEF DriveInv, TimeTypes
  <2>4. Drive!Plus(moving, elapsed) = Drive!Plus(Drive!Plus(moving, deferred), dt)
    BY <2>3, PlusAssociates
  <2>5. Drive!Plus(Drive!Plus(moving, deferred), dt) <= Drive!Plus(sinceGoal, dt)
    BY <2>3, PlusGrows DEF DriveInv, OwnTimeInv
  <2>6. elapsed \in 0..MaxTime /\ Drive!Plus(moving, elapsed) \in 0..MaxTime /\
      moving <= Drive!Plus(moving, elapsed)
    BY <2>3, PlusAssociates, PlusTypes
  <2>7. moving' <= sinceGoal' /\ moving' \in 0..MaxTime /\ sinceGoal' \in 0..MaxTime
    <3>1. moving' \in 0..MaxTime /\ sinceGoal' \in 0..MaxTime
      BY TimeTypesStep DEF TimeTypes
    <3> HIDE DEF elapsed
    <3>2. CASE changed
      BY <3>1, <3>2, <2>1, <2>2, <2>3, Limits
    <3>3. CASE ~changed
      <4>1. taken = Drive!Plus(moving, elapsed) \/ reply = "garbled"
        BY <3>3
      <4>2. before \in {moving, Drive!Plus(moving, elapsed)}
        BY <3>3
      <4> HIDE DEF taken, before, changed
      <4>3. Drive!Plus(moving, elapsed) <= sinceGoal' /\ moving <= sinceGoal'
        BY <3>1, <3>3, <2>1, <2>3, <2>4, <2>5, <2>6
      <4>q. QED
        BY <4>1, <4>2, <4>3, <3>1, <2>2, <2>6
    <3>q. QED
      BY <3>2, <3>3
  <2>8. outcome' = "TRANSITION_TIMEOUT" => sinceGoal' >= TransitionTimeout
    <3> HIDE DEF taken
    <3>q. QED
      BY <2>2, <2>7, Limits
  <2>9. Drive!Plus(moving', deferred') = moving'
    BY <2>1, <2>7, PlusTypes, Limits
  <2>q. QED
    BY <2>7, <2>8, <2>9 DEF OwnTimeInv
<1>7. CASE Drive!WriteAccepted
  BY <1>7, Limits, PlusTypes, PlusAssociates, PlusGrows DEF Drive!WriteAccepted, Drive!Delivered,
     Drive!NoCommand, Drive!CommitDeferred, Drive!timeVars, Drive!Obeys, Drive!EnabledFrom,
     OwnTimeInv, DriveInv,
     TimeTypes
<1>q. QED
  BY <1>0, <1>1, <1>2, <1>3, <1>4, <1>5, <1>6, <1>7 DEF Drive!Next, Drive!Process, Drive!Application

(* Every step leaves pending what serves the target.                       *)
LEMMA PendingStep ==
    ASSUME DriveInv, [Drive!Next]_(Drive!vars)
    PROVE  Drive!PendingServesTarget'
<1>0. CASE UNCHANGED Drive!vars
  BY <1>0 DEF Drive!vars, Drive!coreVars, Drive!clientVars, Drive!driveVars, Drive!timeVars,
     Drive!PendingServesTarget,
     Drive!NoCommand, Drive!NoTarget, DriveInv, DriveTypes
<1>1. ASSUME NEW t \in Goals, Drive!SetTarget(t) PROVE Drive!PendingServesTarget'
  BY <1>1 DEF Drive!SetTarget, Drive!FaultStates, Drive!SameTarget, Drive!NoCommand,
     Drive!Committed, Drive!driveVars,
     Drive!CommitDeferred, Drive!PendingServesTarget, Drive!NoTarget, DriveInv, DriveTypes
<1>2. CASE Drive!ClearTarget
  BY <1>2 DEF Drive!ClearTarget, Drive!NoTarget, Drive!EdgeKept, Drive!NoCommand,
     Drive!Committed, Drive!driveVars,
     Drive!timeVars, Drive!CommitDeferred, Drive!PendingServesTarget, DriveInv, DriveTypes
<1>3. CASE Drive!RequestFaultReset
  BY <1>3 DEF Drive!RequestFaultReset, Drive!NoCommand, Drive!driveVars, Drive!timeVars,
     Drive!PendingServesTarget,
     Drive!NoTarget, DriveInv, DriveTypes
<1>4. ASSUME NEW dt \in Drive!Steps, Drive!Retry(dt) PROVE Drive!PendingServesTarget'
  BY <1>4 DEF Drive!Retry, Drive!NoCommand, Drive!coreVars, Drive!driveVars,
     Drive!PendingServesTarget, Drive!NoTarget,
     DriveInv, DriveTypes
<1>5. ASSUME NEW dt \in Drive!Steps, Drive!StatuswordRefused(dt) PROVE Drive!PendingServesTarget'
  BY <1>5 DEF Drive!StatuswordRefused, Drive!NoCommand, Drive!coreVars, Drive!driveVars,
     Drive!PendingServesTarget,
     Drive!NoTarget, DriveInv, DriveTypes
<1>6. ASSUME NEW dt \in Drive!Steps, NEW reply \in Drive!Replies, Drive!ReadStatusword(dt,
    reply) PROVE
   Drive!PendingServesTarget'
  BY <1>6 DEF Drive!ReadStatusword, Drive!ReplayDeferred, Drive!NoCommand, Drive!Judge,
     Drive!driveVars, Drive!NoTarget,
     Drive!FaultStates, Drive!States, Drive!Targets, Drive!PendingServesTarget, DriveInv, DriveTypes
<1>7. CASE Drive!ReadControlword
  BY <1>7 DEF Drive!ReadControlword, Drive!coreVars, Drive!clientVars, Drive!driveVars,
     Drive!timeVars,
     Drive!PendingServesTarget, Drive!NoCommand, Drive!NoTarget, DriveInv, DriveTypes
<1>8. CASE Drive!WriteAccepted
  BY <1>8 DEF Drive!WriteAccepted, Drive!Delivered, Drive!NoCommand, Drive!CommitDeferred,
     Drive!timeVars, Drive!Obeys,
     Drive!EnabledFrom, Drive!PendingServesTarget, Drive!NoTarget, DriveInv, DriveTypes
<1>9. CASE Drive!WriteFails
  BY <1>9 DEF Drive!WriteFails, Drive!Delivered, Drive!driveVars, Drive!Retained, Drive!coreVars,
     Drive!timeVars, Drive!Obeys,
     Drive!EnabledFrom, Drive!PendingServesTarget, Drive!NoCommand, Drive!NoTarget, DriveInv,
     DriveTypes
<1>10. CASE Drive!DriveMoves
  BY <1>10 DEF Drive!DriveMoves, Drive!FaultStates, Drive!coreVars, Drive!clientVars,
     Drive!timeVars,
     Drive!PendingServesTarget, Drive!NoCommand, Drive!NoTarget, DriveInv, DriveTypes
<1>q. QED
  BY <1>0, <1>1, <1>2, <1>3, <1>4, <1>5, <1>6, <1>7, <1>8, <1>9, <1>10 DEF Drive!Next,
     Drive!Process, Drive!Application

(* Only a pending command is on its way.                                   *)
LEMMA DrivePlaceStep ==
    ASSUME DriveInv, [Drive!Next]_(Drive!vars)
    PROVE  DrivePlaceInv'
<1>0. CASE UNCHANGED Drive!vars
  BY <1>0 DEF Drive!vars, Drive!coreVars, Drive!clientVars, Drive!driveVars, Drive!timeVars,
     DrivePlaceInv, Drive!NoCommand, DriveInv
<1>1. ASSUME NEW dt \in Drive!Steps,
             Drive!StatuswordRefused(dt)
      PROVE  DrivePlaceInv'
  BY <1>1 DEF Drive!StatuswordRefused, Drive!coreVars, Drive!driveVars, DrivePlaceInv,
     Drive!NoCommand, DriveInv
<1>2. CASE Drive!DriveMoves
  BY <1>2 DEF Drive!DriveMoves, Drive!coreVars, Drive!clientVars, Drive!timeVars, DrivePlaceInv,
     Drive!NoCommand, DriveInv
<1>3. ASSUME NEW t \in Goals, Drive!SetTarget(t) PROVE DrivePlaceInv'
  BY <1>3 DEF Drive!SetTarget, Drive!FaultStates, Drive!SameTarget, Drive!NoCommand,
     Drive!Committed, Drive!driveVars,
     Drive!CommitDeferred, DrivePlaceInv, DriveInv
<1>4. CASE Drive!ClearTarget
  BY <1>4 DEF Drive!ClearTarget, Drive!NoTarget, Drive!EdgeKept, Drive!NoCommand,
     Drive!Committed, Drive!driveVars,
     Drive!timeVars, Drive!CommitDeferred, DrivePlaceInv, DriveInv
<1>5. CASE Drive!RequestFaultReset
  BY <1>5 DEF Drive!RequestFaultReset, Drive!NoCommand, Drive!driveVars, Drive!timeVars,
     DrivePlaceInv, DriveInv
<1>6. ASSUME NEW dt \in Drive!Steps, Drive!Retry(dt) PROVE DrivePlaceInv'
  BY <1>6 DEF Drive!Retry, Drive!NoCommand, Drive!coreVars, Drive!driveVars, DrivePlaceInv, DriveInv
<1>7. ASSUME NEW dt \in Drive!Steps, NEW reply \in Drive!Replies, Drive!ReadStatusword(dt,
    reply) PROVE
   DrivePlaceInv'
  BY <1>7 DEF Drive!ReadStatusword, Drive!ReplayDeferred, Drive!NoCommand, Drive!Judge,
     Drive!driveVars, Drive!NoTarget,
     Drive!FaultStates, Drive!States, Drive!Targets, DrivePlaceInv, DriveInv
<1>8. CASE Drive!ReadControlword
  BY <1>8 DEF Drive!ReadControlword, Drive!coreVars, Drive!clientVars, Drive!driveVars,
     Drive!timeVars, DrivePlaceInv,
     Drive!NoCommand, DriveInv
<1>9. CASE Drive!WriteAccepted
  BY <1>9 DEF Drive!WriteAccepted, Drive!Delivered, Drive!NoCommand, Drive!CommitDeferred,
     Drive!timeVars, Drive!Obeys,
     Drive!EnabledFrom, DrivePlaceInv, DriveInv
<1>10. CASE Drive!WriteFails
  BY <1>10 DEF Drive!WriteFails, Drive!Delivered, Drive!driveVars, Drive!Retained,
     Drive!coreVars, Drive!timeVars, Drive!Obeys,
     Drive!EnabledFrom, DrivePlaceInv, Drive!NoCommand, DriveInv
<1>q. QED
  BY <1>0, <1>1, <1>2, <1>3, <1>4, <1>5, <1>6, <1>7, <1>8, <1>9, <1>10 DEF Drive!Next,
     Drive!Process, Drive!Application

(* Every step keeps track of the pulse.                                    *)
LEMMA PulseStep ==
    ASSUME DriveInv, [Drive!Next]_(Drive!vars)
    PROVE  DrivePulseInv'
<1>0. CASE UNCHANGED Drive!vars
  BY <1>0 DEF Drive!vars, Drive!coreVars, Drive!clientVars, Drive!driveVars, Drive!timeVars,
     DrivePulseInv, DriveInv,
     DriveTypes, Drive!PendingServesTarget, DrivePlaceInv
<1>1. ASSUME NEW dt \in Drive!Steps,
             Drive!Retry(dt) \/ Drive!StatuswordRefused(dt)
      PROVE  DrivePulseInv'
  BY <1>1 DEF Drive!Retry, Drive!StatuswordRefused, Drive!coreVars, Drive!driveVars,
     DrivePulseInv, DriveInv, DriveTypes,
     Drive!PendingServesTarget, DrivePlaceInv
<1>2. CASE Drive!ReadControlword \/ Drive!DriveMoves
  BY <1>2 DEF Drive!ReadControlword, Drive!DriveMoves, Drive!coreVars, Drive!clientVars,
     Drive!driveVars, Drive!timeVars,
     DrivePulseInv, DriveInv, DriveTypes, Drive!PendingServesTarget, DrivePlaceInv
<1>3. ASSUME NEW t \in Goals, Drive!SetTarget(t) PROVE DrivePulseInv'
  BY <1>3, CommandTypes DEF Drive!SetTarget, Drive!FaultStates, Drive!SameTarget,
     Drive!NoCommand, Drive!Committed,
     Drive!driveVars, Drive!CommitDeferred, DrivePulseInv, DriveInv, DriveTypes,
     Drive!PendingServesTarget,
     DrivePlaceInv
<1>4. CASE Drive!ClearTarget
  BY <1>4, CommandTypes DEF Drive!ClearTarget, Drive!NoTarget, Drive!EdgeKept, Drive!NoCommand,
     Drive!Committed,
     Drive!driveVars, Drive!timeVars, Drive!CommitDeferred, DrivePulseInv, DriveInv, DriveTypes,
     Drive!PendingServesTarget, DrivePlaceInv
<1>5. CASE Drive!RequestFaultReset
  BY <1>5, CommandTypes DEF Drive!RequestFaultReset, Drive!NoCommand, Drive!driveVars,
     Drive!timeVars, DrivePulseInv,
     DriveInv, DriveTypes, Drive!PendingServesTarget, DrivePlaceInv
<1>6. ASSUME NEW dt \in Drive!Steps, NEW reply \in Drive!Replies, Drive!ReadStatusword(dt,
    reply) PROVE
   DrivePulseInv'
  BY <1>6, CommandTypes DEF Drive!ReadStatusword, Drive!ReplayDeferred, Drive!NoCommand,
     Drive!Judge, Drive!driveVars,
     Drive!NoTarget, Drive!FaultStates, Drive!States, Drive!Targets, DrivePulseInv, DriveInv,
     DriveTypes,
     Drive!PendingServesTarget, DrivePlaceInv
<1>7. CASE Drive!WriteAccepted
  BY <1>7, CommandTypes DEF Drive!WriteAccepted, Drive!Delivered, Drive!NoCommand,
     Drive!CommitDeferred,
     Drive!timeVars, Drive!Obeys, Drive!EnabledFrom, DrivePulseInv, DriveInv, DriveTypes,
     Drive!PendingServesTarget,
     DrivePlaceInv
<1>8. CASE Drive!WriteFails
  BY <1>8, CommandTypes DEF Drive!WriteFails, Drive!Delivered, Drive!driveVars, Drive!Retained,
     Drive!coreVars,
     Drive!timeVars, Drive!Obeys, Drive!EnabledFrom, DrivePulseInv, DriveInv, DriveTypes,
     Drive!PendingServesTarget,
     DrivePlaceInv
<1>q. QED
  BY <1>0, <1>1, <1>2, <1>3, <1>4, <1>5, <1>6, <1>7, <1>8
     DEF Drive!Next, Drive!Process, Drive!Application


LEMMA DriveStarts == Drive!Init => DriveInv
<1> SUFFICES ASSUME Drive!Init PROVE DriveInv
  OBVIOUS
<1>1. DriveTypes /\ DrivePlaceInv /\ DrivePulseInv /\ Drive!PendingServesTarget
  BY DEF Drive!Init, DriveTypes, DrivePlaceInv, DrivePulseInv, Drive!PendingServesTarget,
     Drive!NoTarget, Drive!NoCommand, Drive!Commands,
     Drive!States, Drive!Targets, Drive!FaultStates, Drive!Outcomes
<1>2. TimeTypes /\ Drive!FeedbackAgeIsExact /\ OwnTimeInv
  BY Limits, PlusTypes DEF Drive!Init, TimeTypes, Drive!FeedbackAgeIsExact, OwnTimeInv
<1>q. QED
  BY <1>1, <1>2 DEF DriveInv

LEMMA DriveInvariant == Spec => []DriveInv
<1>1. DriveInv /\ [Drive!Next]_(Drive!vars) => DriveInv'
  BY DriveTypesStep, TimeTypesStep, AgeStep, OwnTimeStep, PendingStep, DrivePlaceStep,
     PulseStep DEF DriveInv
<1>q. QED
  BY <1>1, DriveStarts, Starts, Steps, PTL DEF Spec

(* Retries and refused calls are time without feedback, once each, and     *)
(* none of it is charged to a transition it does not belong to; what waits *)
(* serves the present target (CO_402_controller_client.c:140, 154, 200,    *)
(* 220).                                                                   *)
THEOREM RetriesAccounted == Spec => []Drive!RetriesAreAccounted
<1>1. DriveInv => Drive!TypeOK
  BY DEF DriveInv, DriveTypes, TimeTypes, Drive!TypeOK
<1>2. DriveInv => Drive!TransitionTimeIsOwn
  <2> SUFFICES ASSUME DriveInv PROVE Drive!TransitionTimeIsOwn
    OBVIOUS
  <2>1. moving <= Drive!Plus(moving, deferred) /\ Drive!Plus(moving, deferred) \in 0..MaxTime
    BY PlusTypes DEF DriveInv, TimeTypes
  <2>q. QED
    BY <2>1 DEF DriveInv, OwnTimeInv, TimeTypes, Drive!TransitionTimeIsOwn
<1>3. DriveInv => Drive!RetriesAreAccounted
  BY <1>1, <1>2 DEF DriveInv, Drive!RetriesAreAccounted
<1>q. QED
  BY <1>3, DriveInvariant, PTL

(* A fault reset is a rising edge of bit 7 at the drive, whichever         *)
(* deliveries failed before (CO_402_controller.c:295).                     *)
THEOREM ResetsAreEdges == Spec => Drive!ResetIsAnEdge
<1>1. DriveInv /\ [Drive!Next]_(Drive!vars) =>
        [pending' = "FAULT_RESET" /\ pending # "FAULT_RESET" => word # "FAULT_RESET"]_(Drive!vars)
  <2> SUFFICES ASSUME DriveInv, Drive!Next, pending' = "FAULT_RESET", pending # "FAULT_RESET"
               PROVE  word # "FAULT_RESET"
    OBVIOUS
  <2>1. PICK dt \in Drive!Steps, reply \in Drive!Replies : Drive!ReadStatusword(dt, reply)
    BY DEF Drive!Next, Drive!Process, Drive!Application, Drive!SetTarget, Drive!ClearTarget,
       Drive!RequestFaultReset, Drive!Retry,
       Drive!StatuswordRefused, Drive!ReadControlword, Drive!WriteAccepted, Drive!WriteFails,
       Drive!Retained, Drive!DriveMoves,
       Drive!clientVars, Drive!NoCommand
  <2>2. pending = Drive!NoCommand /\ ~edge
    BY <2>1 DEF Drive!ReadStatusword, DriveInv, Drive!PendingServesTarget, Drive!NoCommand
  <2>3. ~pulseHigh
    BY <2>1 DEF Drive!ReadStatusword, Drive!Judge
  <2>q. QED
    BY <2>2, <2>3 DEF DriveInv, DrivePulseInv
<1>q. QED
  BY <1>1, DriveInvariant, Starts, Steps, PTL DEF Spec, Drive!ResetIsAnEdge

-----------------------------------------------------------------------------
(***************************************************************************)
(* Proofs about MotionModes.  While bit 4 is up and the mode has not       *)
(* sampled it, either it rose for this command, or the axis is not ready   *)
(* and samples the bit before it is.                                       *)
(***************************************************************************)

(* The state of a mode has these fields.                                   *)
RunFields == {"previous", "acknowledge", "active", "aborting", "attained", "reached", "error",
              "accepted"}

(* The mode that is left is the active one, and one is entered from none.  *)
MotionPlaceInv ==
    /\ run = [f \in RunFields |-> run[f]]
    /\ passPhase \in {"idle", "mode"}
    /\ exiting # NoMode => motionMode = exiting /\ entering = NoMode
    /\ entering # NoMode => motionMode = NoMode /\ entering \in Motion!Modes
    /\ motionMode \in Motion!Modes \cup {NoMode}

(* What a start that was acknowledged still has before it.                 *)
StartInv ==
    promised = "yes" =>
        /\ start /\ ~run.previous /\ Motion!Operational
        /\ asked = motionMode /\ motionMode \in Motion!EdgeModes
        /\ ~(motionMode = "HM" /\ run.active)

(* A homing whose bit 4 was seen low is being aborted.                     *)
HomingInv ==
    motionMode = "HM" =>
        /\ run.active => ~run.attained
        /\ run.active /\ ~run.aborting => ~interrupted /\ run.previous
        /\ run.attained => ~interrupted

(* Only a homing that is active is aborted.                                *)
AbortInv == motionMode = "HM" /\ run.aborting => run.active

OwnedInv ==
    motionMode \in Motion!EdgeModes =>
        /\ run.active => run.accepted = ordered
        /\ handed.kind \in {"poll", "abort"} => handed.params = ordered

(* A bit that is up and not sampled rose for this command, or the axis is  *)
(* on its way through a state in which the mode samples it.                *)
FreshInv ==
    motionMode \in Motion!EdgeModes /\ start /\ ~run.previous /\ ~risen =>
        Motion!Pending \/ motionPds = "safety" \/ (passPhase = "mode" /\ (owner \/
            motionPds # "enabled"))

MotionInv == MotionPlaceInv /\ StartInv /\ HomingInv /\ AbortInv /\ OwnedInv /\ FreshInv

-----------------------------------------------------------------------------
(* None of the modes is no mode.                                           *)
LEMMA ModeFacts == NoMode \notin Motion!Modes /\ Motion!EdgeModes \subseteq Motion!Modes /\
    Other \notin Motion!Modes
BY ProfilesAssumption DEF Motion!MotionAssumption, Motion!Modes

(* A mode that is reset has sampled the bit and commands nothing.          *)
LEMMA ResetFacts ==
    ASSUME NEW m
    PROVE  /\ Motion!Reset(m) = [f \in RunFields |-> Motion!Reset(m)[f]]
           /\ ~Motion!Reset(m).active /\ ~Motion!Reset(m).aborting /\ ~Motion!Reset(m).attained
           /\ start /\ m \in Motion!EdgeModes => Motion!Reset(m).previous
BY DEF Motion!Reset, Motion!Blank, RunFields

(* Every step keeps modes and their state in place.                        *)
LEMMA MotionPlaceStep ==
    ASSUME MotionInv, [Motion!Next]_(Motion!vars)
    PROVE  MotionPlaceInv'
<1>0. CASE UNCHANGED Motion!vars
  BY <1>0 DEF Motion!vars, Motion!axisVars, Motion!orderVars, Motion!seenVars, MotionPlaceInv,
     Motion!Modes, Motion!EdgeModes, MotionInv,
     RunFields
<1>1. CASE Motion!WriteControlword
  BY <1>1, ModeFacts, ResetFacts
     DEF Motion!WriteControlword, Motion!Written, Motion!Revoked, Motion!axisVars,
     MotionPlaceInv, Motion!Modes, Motion!EdgeModes, MotionInv, RunFields
<1>2. CASE Motion!WriteMode
  BY <1>2, ModeFacts, ResetFacts
     DEF Motion!WriteMode, Motion!Written, Motion!Modes, Motion!Revoked, Motion!axisVars,
     Motion!EdgeModes, MotionPlaceInv, MotionInv, RunFields
<1>3. CASE Motion!WriteParameters
  BY <1>3, ModeFacts, ResetFacts
     DEF Motion!WriteParameters, Motion!Written, Motion!axisVars, MotionPlaceInv,
     Motion!Modes, Motion!EdgeModes, MotionInv, RunFields
<1>4. CASE Motion!StartAccepted
  BY <1>4, ModeFacts, ResetFacts
     DEF Motion!StartAccepted, Motion!Consumed, Motion!Written, Motion!Consumable,
     Motion!axisVars, Motion!EdgeModes, Motion!Operational, Motion!Pending, MotionPlaceInv,
     Motion!Modes, MotionInv, RunFields
<1>5. CASE Motion!PdsStep
  BY <1>5, ModeFacts, ResetFacts
     DEF Motion!PdsStep, Motion!PdsHolds, Motion!PdsMoves, Motion!PdsPreempts, Motion!Faulted,
     Motion!axisVars, Motion!Nothing, Motion!orderVars, Motion!Pending, MotionPlaceInv,
     Motion!Modes, Motion!EdgeModes, MotionInv, RunFields
<1>6. CASE Motion!ReadFailed
  BY <1>6, ModeFacts, ResetFacts
     DEF Motion!ReadFailed, Motion!Faulted, Motion!orderVars, MotionPlaceInv, Motion!Modes,
     Motion!EdgeModes, MotionInv, RunFields
<1>7. CASE Motion!PdsOwns
  BY <1>7, ModeFacts, ResetFacts
     DEF Motion!PdsOwns, Motion!ModeStep, Motion!ResetIn, Motion!NotReady, Motion!axisVars,
     Motion!orderVars, Motion!Nothing, MotionPlaceInv, Motion!Modes, Motion!EdgeModes, MotionInv,
     RunFields
<1>8. CASE Motion!ContinueExit
  BY <1>8, ModeFacts, ResetFacts
     DEF Motion!ContinueExit, Motion!ModeStep, Motion!Exit, Motion!orderVars, Motion!Paused,
     Motion!ResetIn, Motion!Faulted, Motion!NotReady, Motion!Nothing, MotionPlaceInv,
     Motion!Modes, Motion!EdgeModes, MotionInv, RunFields
<1>9. CASE Motion!ContinueEnter
  BY <1>9, ModeFacts, ResetFacts
     DEF Motion!ContinueEnter, Motion!ModeStep, Motion!Enter, Motion!orderVars, Motion!Paused,
     Motion!ResetIn, Motion!Faulted, Motion!NotReady, Motion!Nothing, MotionPlaceInv,
     Motion!Modes, Motion!EdgeModes, MotionInv, RunFields
<1>10. CASE Motion!LeaveMode
  BY <1>10, ModeFacts, ResetFacts
     DEF Motion!LeaveMode, Motion!ModeStep, Motion!Pending, Motion!Selected, Motion!Exit,
     Motion!orderVars, Motion!Modes, Motion!Paused, Motion!ResetIn, Motion!Faulted,
     Motion!NotReady, Motion!EdgeModes, Motion!Nothing, MotionPlaceInv,
     MotionInv, RunFields
<1>11. CASE Motion!TakeMode
  BY <1>11, ModeFacts, ResetFacts
     DEF Motion!TakeMode, Motion!ModeStep, Motion!Pending, Motion!Selected, Motion!Enter,
     Motion!orderVars, Motion!Modes, Motion!Paused, Motion!ResetIn, Motion!Faulted,
     Motion!NotReady, Motion!EdgeModes, Motion!Nothing, MotionPlaceInv,
     MotionInv, RunFields
<1>12. CASE Motion!NoCommand
  BY <1>12, ModeFacts, ResetFacts
     DEF Motion!NoCommand, Motion!ModeStep, Motion!Pending, Motion!Selected, Motion!ResetIn,
     Motion!NotReady, Motion!axisVars, Motion!orderVars, Motion!Modes, Motion!Nothing,
     Motion!EdgeModes, MotionPlaceInv, MotionInv, RunFields
<1>13. CASE Motion!PpWait
  BY <1>13, ModeFacts, ResetFacts
     DEF Motion!PpWait, Motion!Commanded, Motion!Rising, Motion!PpSeen, Motion!Succeeds,
     Motion!NothingHanded, Motion!ModeStep, Motion!Operational, Motion!Selected, Motion!axisVars,
     Motion!Nothing, Motion!orderVars,
     Motion!Pending, Motion!Modes, Motion!EdgeModes, MotionPlaceInv, MotionInv, RunFields
<1>14. CASE Motion!PpUnreadable
  BY <1>14, ModeFacts, ResetFacts
     DEF Motion!PpUnreadable, Motion!Commanded, Motion!Rising, Motion!PpLost, Motion!Fails,
     Motion!NothingHanded, Motion!ModeStep, Motion!Operational, Motion!Selected, Motion!PpSeen,
     Motion!Faulted, Motion!Nothing,
     Motion!orderVars, Motion!Pending, Motion!Modes, Motion!EdgeModes, MotionPlaceInv, MotionInv,
     RunFields
<1>15. CASE Motion!PpCommand
  BY <1>15, ModeFacts, ResetFacts
     DEF Motion!PpCommand, Motion!Commanded, Motion!Rising, Motion!PpSeen, Motion!OwnParams,
     Motion!Succeeds, Motion!PpLost, Motion!Fails, Motion!Handing, Motion!ModeStep,
     Motion!Operational, Motion!Selected, Motion!axisVars,
     Motion!Faulted, Motion!orderVars, Motion!Pending, Motion!Modes, Motion!EdgeModes,
     MotionPlaceInv, MotionInv, RunFields
<1>16. CASE Motion!PvCommand
  BY <1>16, ModeFacts, ResetFacts
     DEF Motion!PvCommand, Motion!Commanded, Motion!Succeeds, Motion!Fails, Motion!Handing,
     Motion!NothingHanded, Motion!ModeStep, Motion!Operational, Motion!Selected, Motion!axisVars,
     Motion!Faulted, Motion!Nothing,
     Motion!orderVars, Motion!Pending, Motion!Modes, Motion!EdgeModes, MotionPlaceInv, MotionInv,
     RunFields
<1>17. CASE Motion!HmWait
  BY <1>17, ModeFacts, ResetFacts
     DEF Motion!HmWait, Motion!Commanded, Motion!Rising, Motion!Succeeds,
     Motion!NothingHanded, Motion!ModeStep, Motion!Operational, Motion!Selected, Motion!axisVars,
     Motion!Nothing, Motion!orderVars,
     Motion!Pending, Motion!Modes, Motion!EdgeModes, MotionPlaceInv, MotionInv, RunFields
<1>18. CASE Motion!HmUnreadable
  BY <1>18, ModeFacts, ResetFacts
     DEF Motion!HmUnreadable, Motion!Commanded, Motion!HmAccepts, Motion!HmLost, Motion!Fails,
     Motion!NothingHanded, Motion!ModeStep, Motion!Operational, Motion!Selected, Motion!Rising,
     Motion!Faulted, Motion!Nothing,
     Motion!orderVars, Motion!Pending, Motion!Modes, Motion!EdgeModes, MotionPlaceInv, MotionInv,
     RunFields
<1>19. CASE Motion!HmCommand
  BY <1>19, ModeFacts, ResetFacts
     DEF Motion!HmCommand, Motion!Commanded, Motion!HmAccepts, Motion!Aborting, Motion!Rising,
     Motion!Succeeds, Motion!HmLost, Motion!Fails, Motion!Handing, Motion!ModeStep,
     Motion!Operational, Motion!Selected, Motion!axisVars,
     Motion!Faulted, Motion!orderVars, Motion!Pending, Motion!Modes, Motion!EdgeModes,
     MotionPlaceInv, MotionInv, RunFields
<1>q. QED
  BY <1>0, <1>1, <1>2, <1>3, <1>4, <1>5, <1>6, <1>7, <1>8, <1>9, <1>10, <1>11, <1>12,
     <1>13, <1>14, <1>15, <1>16, <1>17, <1>18, <1>19 DEF Motion!Next, Motion!Supervise

(* Every step keeps an acknowledged start.                                 *)
LEMMA StartStep ==
    ASSUME MotionInv, [Motion!Next]_(Motion!vars)
    PROVE  StartInv'
<1>0. CASE UNCHANGED Motion!vars
  BY <1>0 DEF Motion!vars, Motion!axisVars, Motion!orderVars, Motion!seenVars, StartInv,
     Motion!Operational, Motion!EdgeModes,
     Motion!Pending, MotionInv, MotionPlaceInv, AbortInv, RunFields
<1>1. CASE Motion!WriteControlword
  BY <1>1, ModeFacts, ResetFacts
     DEF Motion!WriteControlword, Motion!Written, Motion!Revoked, Motion!axisVars,
     StartInv, Motion!Operational, Motion!EdgeModes, Motion!Pending, MotionInv, MotionPlaceInv,
     AbortInv, RunFields
<1>2. CASE Motion!WriteMode
  BY <1>2, ModeFacts, ResetFacts
     DEF Motion!WriteMode, Motion!Written, Motion!Modes, Motion!Revoked, Motion!axisVars,
     Motion!EdgeModes, StartInv, Motion!Operational, Motion!Pending, MotionInv, MotionPlaceInv,
     AbortInv, RunFields
<1>3. CASE Motion!WriteParameters
  BY <1>3, ModeFacts, ResetFacts
     DEF Motion!WriteParameters, Motion!Written, Motion!axisVars, StartInv,
     Motion!Operational, Motion!EdgeModes, Motion!Pending, MotionInv, MotionPlaceInv, AbortInv,
     RunFields
<1>4. CASE Motion!StartAccepted
  BY <1>4, ModeFacts, ResetFacts
     DEF Motion!StartAccepted, Motion!Consumed, Motion!Written, Motion!Consumable,
     Motion!axisVars, Motion!EdgeModes, Motion!Operational, Motion!Pending, StartInv, MotionInv,
     MotionPlaceInv, AbortInv,
     RunFields
<1>5. CASE Motion!PdsStep
  BY <1>5, ModeFacts, ResetFacts
     DEF Motion!PdsStep, Motion!PdsHolds, Motion!PdsMoves, Motion!PdsPreempts, Motion!Faulted,
     Motion!axisVars, Motion!Nothing, Motion!orderVars, Motion!Pending, StartInv,
     Motion!Operational, Motion!EdgeModes, MotionInv,
     MotionPlaceInv, AbortInv, RunFields
<1>6. CASE Motion!ReadFailed
  BY <1>6, ModeFacts, ResetFacts DEF Motion!ReadFailed, Motion!Faulted, Motion!orderVars, StartInv,
     Motion!Operational, Motion!EdgeModes, Motion!Pending, MotionInv, MotionPlaceInv, AbortInv,
     RunFields
<1>7. CASE Motion!PdsOwns
  BY <1>7, ModeFacts, ResetFacts
     DEF Motion!PdsOwns, Motion!ModeStep, Motion!ResetIn, Motion!NotReady, Motion!axisVars,
     Motion!orderVars, Motion!Nothing, StartInv, Motion!Operational, Motion!EdgeModes,
     Motion!Pending, MotionInv, MotionPlaceInv,
     AbortInv, RunFields
<1>8. CASE Motion!ContinueExit
  BY <1>8, ModeFacts, ResetFacts
     DEF Motion!ContinueExit, Motion!ModeStep, Motion!Exit, Motion!orderVars, Motion!Paused,
     Motion!ResetIn, Motion!Faulted, Motion!NotReady, Motion!Nothing, StartInv,
     Motion!Operational, Motion!EdgeModes, Motion!Pending,
     MotionInv, MotionPlaceInv, AbortInv, RunFields
<1>9. CASE Motion!ContinueEnter
  BY <1>9, ModeFacts, ResetFacts
     DEF Motion!ContinueEnter, Motion!ModeStep, Motion!Enter, Motion!orderVars, Motion!Paused,
     Motion!ResetIn, Motion!Faulted, Motion!NotReady, Motion!Nothing, StartInv,
     Motion!Operational, Motion!EdgeModes, Motion!Pending,
     MotionInv, MotionPlaceInv, AbortInv, RunFields
<1>10. CASE Motion!LeaveMode
  BY <1>10, ModeFacts, ResetFacts
     DEF Motion!LeaveMode, Motion!ModeStep, Motion!Pending, Motion!Selected, Motion!Exit,
     Motion!orderVars, Motion!Modes, Motion!Paused, Motion!ResetIn, Motion!Faulted,
     Motion!NotReady, Motion!EdgeModes, Motion!Nothing, StartInv,
     Motion!Operational, MotionInv, MotionPlaceInv, AbortInv, RunFields
<1>11. CASE Motion!TakeMode
  BY <1>11, ModeFacts, ResetFacts
     DEF Motion!TakeMode, Motion!ModeStep, Motion!Pending, Motion!Selected, Motion!Enter,
     Motion!orderVars, Motion!Modes, Motion!Paused, Motion!ResetIn, Motion!Faulted,
     Motion!NotReady, Motion!EdgeModes, Motion!Nothing, StartInv,
     Motion!Operational, MotionInv, MotionPlaceInv, AbortInv, RunFields
<1>12. CASE Motion!NoCommand
  BY <1>12, ModeFacts, ResetFacts
     DEF Motion!NoCommand, Motion!ModeStep, Motion!Pending, Motion!Selected, Motion!ResetIn,
     Motion!NotReady, Motion!axisVars, Motion!orderVars, Motion!Modes, Motion!Nothing,
     Motion!EdgeModes, StartInv, Motion!Operational,
     MotionInv, MotionPlaceInv, AbortInv, RunFields
<1>13. CASE Motion!PpWait
  BY <1>13, ModeFacts, ResetFacts
     DEF Motion!PpWait, Motion!Commanded, Motion!Rising, Motion!PpSeen, Motion!Succeeds,
     Motion!NothingHanded, Motion!ModeStep, Motion!Operational, Motion!Selected, Motion!axisVars,
     Motion!Nothing, Motion!orderVars,
     Motion!Pending, Motion!Modes, Motion!EdgeModes, StartInv, MotionInv, MotionPlaceInv,
     AbortInv, RunFields
<1>14. CASE Motion!PpUnreadable
  BY <1>14, ModeFacts, ResetFacts
     DEF Motion!PpUnreadable, Motion!Commanded, Motion!Rising, Motion!PpLost, Motion!Fails,
     Motion!NothingHanded, Motion!ModeStep, Motion!Operational, Motion!Selected, Motion!PpSeen,
     Motion!Faulted, Motion!Nothing,
     Motion!orderVars, Motion!Pending, Motion!Modes, Motion!EdgeModes, StartInv, MotionInv,
     MotionPlaceInv, AbortInv, RunFields
<1>15. CASE Motion!PpCommand
  BY <1>15, ModeFacts, ResetFacts
     DEF Motion!PpCommand, Motion!Commanded, Motion!Rising, Motion!PpSeen, Motion!OwnParams,
     Motion!Succeeds, Motion!PpLost, Motion!Fails, Motion!Handing, Motion!ModeStep,
     Motion!Operational, Motion!Selected, Motion!axisVars,
     Motion!Faulted, Motion!orderVars, Motion!Pending, Motion!Modes, Motion!EdgeModes, StartInv,
     MotionInv, MotionPlaceInv, AbortInv,
     RunFields
<1>16. CASE Motion!PvCommand
  BY <1>16, ModeFacts, ResetFacts
     DEF Motion!PvCommand, Motion!Commanded, Motion!Succeeds, Motion!Fails, Motion!Handing,
     Motion!NothingHanded, Motion!ModeStep, Motion!Operational, Motion!Selected, Motion!axisVars,
     Motion!Faulted, Motion!Nothing,
     Motion!orderVars, Motion!Pending, Motion!Modes, Motion!EdgeModes, StartInv, MotionInv,
     MotionPlaceInv, AbortInv, RunFields
<1>17. CASE Motion!HmWait
  BY <1>17, ModeFacts, ResetFacts
     DEF Motion!HmWait, Motion!Commanded, Motion!Rising, Motion!Succeeds,
     Motion!NothingHanded, Motion!ModeStep, Motion!Operational, Motion!Selected, Motion!axisVars,
     Motion!Nothing, Motion!orderVars,
     Motion!Pending, Motion!Modes, Motion!EdgeModes, StartInv, MotionInv, MotionPlaceInv,
     AbortInv, RunFields
<1>18. CASE Motion!HmUnreadable
  BY <1>18, ModeFacts, ResetFacts
     DEF Motion!HmUnreadable, Motion!Commanded, Motion!HmAccepts, Motion!HmLost, Motion!Fails,
     Motion!NothingHanded, Motion!ModeStep, Motion!Operational, Motion!Selected, Motion!Rising,
     Motion!Faulted, Motion!Nothing,
     Motion!orderVars, Motion!Pending, Motion!Modes, Motion!EdgeModes, StartInv, MotionInv,
     MotionPlaceInv, AbortInv, RunFields
<1>19. CASE Motion!HmCommand
  BY <1>19, ModeFacts, ResetFacts
     DEF Motion!HmCommand, Motion!Commanded, Motion!HmAccepts, Motion!Aborting, Motion!Rising,
     Motion!Succeeds, Motion!HmLost, Motion!Fails, Motion!Handing, Motion!ModeStep,
     Motion!Operational, Motion!Selected, Motion!axisVars,
     Motion!Faulted, Motion!orderVars, Motion!Pending, Motion!Modes, Motion!EdgeModes, StartInv,
     MotionInv, MotionPlaceInv, AbortInv,
     RunFields
<1>q. QED
  BY <1>0, <1>1, <1>2, <1>3, <1>4, <1>5, <1>6, <1>7, <1>8, <1>9, <1>10, <1>11, <1>12,
     <1>13, <1>14, <1>15, <1>16, <1>17, <1>18, <1>19 DEF Motion!Next, Motion!Supervise

(* Every step tells a homing from an abort.                                *)
LEMMA HomingStep ==
    ASSUME MotionInv, [Motion!Next]_(Motion!vars)
    PROVE  HomingInv'
<1>0. CASE UNCHANGED Motion!vars
  BY <1>0 DEF Motion!vars, Motion!axisVars, Motion!orderVars, Motion!seenVars, HomingInv,
     MotionInv, MotionPlaceInv, AbortInv,
     RunFields
<1>1. CASE Motion!WriteControlword
  BY <1>1, ModeFacts, ResetFacts
     DEF Motion!WriteControlword, Motion!Written, Motion!Revoked, Motion!axisVars,
     HomingInv, MotionInv, MotionPlaceInv, AbortInv, RunFields
<1>2. CASE Motion!WriteMode
  BY <1>2, ModeFacts, ResetFacts
     DEF Motion!WriteMode, Motion!Written, Motion!Modes, Motion!Revoked, Motion!axisVars,
     Motion!EdgeModes, HomingInv, MotionInv, MotionPlaceInv, AbortInv, RunFields
<1>3. CASE Motion!WriteParameters
  BY <1>3, ModeFacts, ResetFacts
     DEF Motion!WriteParameters, Motion!Written, Motion!axisVars, HomingInv,
     MotionInv, MotionPlaceInv, AbortInv, RunFields
<1>4. CASE Motion!StartAccepted
  BY <1>4, ModeFacts, ResetFacts
     DEF Motion!StartAccepted, Motion!Consumed, Motion!Written, Motion!Consumable,
     Motion!axisVars, Motion!EdgeModes, Motion!Operational, Motion!Pending, HomingInv, MotionInv,
     MotionPlaceInv, AbortInv,
     RunFields
<1>5. CASE Motion!PdsStep
  BY <1>5, ModeFacts, ResetFacts
     DEF Motion!PdsStep, Motion!PdsHolds, Motion!PdsMoves, Motion!PdsPreempts, Motion!Faulted,
     Motion!axisVars, Motion!Nothing, Motion!orderVars, Motion!Pending, HomingInv, MotionInv,
     MotionPlaceInv, AbortInv,
     RunFields
<1>6. CASE Motion!ReadFailed
  BY <1>6, ModeFacts, ResetFacts
     DEF Motion!ReadFailed, Motion!Faulted, Motion!orderVars, HomingInv, MotionInv,
     MotionPlaceInv, AbortInv, RunFields
<1>7. CASE Motion!PdsOwns
  BY <1>7, ModeFacts, ResetFacts
     DEF Motion!PdsOwns, Motion!ModeStep, Motion!ResetIn, Motion!NotReady, Motion!axisVars,
     Motion!orderVars, Motion!Nothing, HomingInv, MotionInv, MotionPlaceInv, AbortInv, RunFields
<1>8. CASE Motion!ContinueExit
  BY <1>8, ModeFacts, ResetFacts
     DEF Motion!ContinueExit, Motion!ModeStep, Motion!Exit, Motion!orderVars, Motion!Paused,
     Motion!ResetIn, Motion!Faulted, Motion!NotReady, Motion!Nothing, HomingInv, MotionInv,
     MotionPlaceInv, AbortInv, RunFields
<1>9. CASE Motion!ContinueEnter
  BY <1>9, ModeFacts, ResetFacts
     DEF Motion!ContinueEnter, Motion!ModeStep, Motion!Enter, Motion!orderVars, Motion!Paused,
     Motion!ResetIn, Motion!Faulted, Motion!NotReady, Motion!Nothing, HomingInv, MotionInv,
     MotionPlaceInv, AbortInv, RunFields
<1>10. CASE Motion!LeaveMode
  BY <1>10, ModeFacts, ResetFacts
     DEF Motion!LeaveMode, Motion!ModeStep, Motion!Pending, Motion!Selected, Motion!Exit,
     Motion!orderVars, Motion!Modes, Motion!Paused, Motion!ResetIn, Motion!Faulted,
     Motion!NotReady, Motion!EdgeModes, Motion!Nothing,
     HomingInv, MotionInv, MotionPlaceInv, AbortInv, RunFields
<1>11. CASE Motion!TakeMode
  BY <1>11, ModeFacts, ResetFacts
     DEF Motion!TakeMode, Motion!ModeStep, Motion!Pending, Motion!Selected, Motion!Enter,
     Motion!orderVars, Motion!Modes, Motion!Paused, Motion!ResetIn, Motion!Faulted,
     Motion!NotReady, Motion!EdgeModes, Motion!Nothing,
     HomingInv, MotionInv, MotionPlaceInv, AbortInv, RunFields
<1>12. CASE Motion!NoCommand
  BY <1>12, ModeFacts, ResetFacts
     DEF Motion!NoCommand, Motion!ModeStep, Motion!Pending, Motion!Selected, Motion!ResetIn,
     Motion!NotReady, Motion!axisVars, Motion!orderVars, Motion!Modes, Motion!Nothing,
     Motion!EdgeModes, HomingInv, MotionInv,
     MotionPlaceInv, AbortInv, RunFields
<1>13. CASE Motion!PpWait
  BY <1>13, ModeFacts, ResetFacts
     DEF Motion!PpWait, Motion!Commanded, Motion!Rising, Motion!PpSeen, Motion!Succeeds,
     Motion!NothingHanded, Motion!ModeStep, Motion!Operational, Motion!Selected, Motion!axisVars,
     Motion!Nothing, Motion!orderVars,
     Motion!Pending, Motion!Modes, Motion!EdgeModes, HomingInv, MotionInv, MotionPlaceInv,
     AbortInv, RunFields
<1>14. CASE Motion!PpUnreadable
  BY <1>14, ModeFacts, ResetFacts
     DEF Motion!PpUnreadable, Motion!Commanded, Motion!Rising, Motion!PpLost, Motion!Fails,
     Motion!NothingHanded, Motion!ModeStep, Motion!Operational, Motion!Selected, Motion!PpSeen,
     Motion!Faulted, Motion!Nothing,
     Motion!orderVars, Motion!Pending, Motion!Modes, Motion!EdgeModes, HomingInv, MotionInv,
     MotionPlaceInv, AbortInv,
     RunFields
<1>15. CASE Motion!PpCommand
  BY <1>15, ModeFacts, ResetFacts
     DEF Motion!PpCommand, Motion!Commanded, Motion!Rising, Motion!PpSeen, Motion!OwnParams,
     Motion!Succeeds, Motion!PpLost, Motion!Fails, Motion!Handing, Motion!ModeStep,
     Motion!Operational, Motion!Selected, Motion!axisVars,
     Motion!Faulted, Motion!orderVars, Motion!Pending, Motion!Modes, Motion!EdgeModes, HomingInv,
     MotionInv, MotionPlaceInv, AbortInv,
     RunFields
<1>16. CASE Motion!PvCommand
  BY <1>16, ModeFacts, ResetFacts
     DEF Motion!PvCommand, Motion!Commanded, Motion!Succeeds, Motion!Fails, Motion!Handing,
     Motion!NothingHanded, Motion!ModeStep, Motion!Operational, Motion!Selected, Motion!axisVars,
     Motion!Faulted, Motion!Nothing,
     Motion!orderVars, Motion!Pending, Motion!Modes, Motion!EdgeModes, HomingInv, MotionInv,
     MotionPlaceInv, AbortInv,
     RunFields
<1>17. CASE Motion!HmWait
  BY <1>17, ModeFacts, ResetFacts
     DEF Motion!HmWait, Motion!Commanded, Motion!Rising, Motion!Succeeds,
     Motion!NothingHanded, Motion!ModeStep, Motion!Operational, Motion!Selected, Motion!axisVars,
     Motion!Nothing, Motion!orderVars,
     Motion!Pending, Motion!Modes, Motion!EdgeModes, HomingInv, MotionInv, MotionPlaceInv,
     AbortInv, RunFields
<1>18. CASE Motion!HmUnreadable
  BY <1>18, ModeFacts, ResetFacts
     DEF Motion!HmUnreadable, Motion!Commanded, Motion!HmAccepts, Motion!HmLost, Motion!Fails,
     Motion!NothingHanded, Motion!ModeStep, Motion!Operational, Motion!Selected, Motion!Rising,
     Motion!Faulted, Motion!Nothing,
     Motion!orderVars, Motion!Pending, Motion!Modes, Motion!EdgeModes, HomingInv, MotionInv,
     MotionPlaceInv, AbortInv,
     RunFields
<1>19. CASE Motion!HmCommand
  BY <1>19, ModeFacts, ResetFacts
     DEF Motion!HmCommand, Motion!Commanded, Motion!HmAccepts, Motion!Aborting, Motion!Rising,
     Motion!Succeeds, Motion!HmLost, Motion!Fails, Motion!Handing, Motion!ModeStep,
     Motion!Operational, Motion!Selected, Motion!axisVars,
     Motion!Faulted, Motion!orderVars, Motion!Pending, Motion!Modes, Motion!EdgeModes, HomingInv,
     MotionInv, MotionPlaceInv, AbortInv,
     RunFields
<1>q. QED
  BY <1>0, <1>1, <1>2, <1>3, <1>4, <1>5, <1>6, <1>7, <1>8, <1>9, <1>10, <1>11, <1>12,
     <1>13, <1>14, <1>15, <1>16, <1>17, <1>18, <1>19 DEF Motion!Next, Motion!Supervise

(* Only an active command is aborted.                                      *)
LEMMA AbortStep ==
    ASSUME MotionInv, [Motion!Next]_(Motion!vars)
    PROVE  AbortInv'
<1>0. CASE UNCHANGED Motion!vars
  BY <1>0 DEF Motion!vars, Motion!axisVars, Motion!orderVars, Motion!seenVars, AbortInv,
     MotionInv, MotionPlaceInv, RunFields
<1>1. CASE Motion!WriteControlword
  BY <1>1, ModeFacts, ResetFacts
     DEF Motion!WriteControlword, Motion!Written, Motion!Revoked, Motion!axisVars,
     AbortInv, MotionInv, MotionPlaceInv, RunFields
<1>2. CASE Motion!WriteMode
  BY <1>2, ModeFacts, ResetFacts
     DEF Motion!WriteMode, Motion!Written, Motion!Modes, Motion!Revoked, Motion!axisVars,
     Motion!EdgeModes, AbortInv, MotionInv, MotionPlaceInv, RunFields
<1>3. CASE Motion!WriteParameters
  BY <1>3, ModeFacts, ResetFacts
     DEF Motion!WriteParameters, Motion!Written, Motion!axisVars, AbortInv, MotionInv,
     MotionPlaceInv, RunFields
<1>4. CASE Motion!StartAccepted
  BY <1>4, ModeFacts, ResetFacts
     DEF Motion!StartAccepted, Motion!Consumed, Motion!Written, Motion!Consumable,
     Motion!axisVars, Motion!EdgeModes, Motion!Operational, Motion!Pending, AbortInv, MotionInv,
     MotionPlaceInv, RunFields
<1>5. CASE Motion!PdsStep
  BY <1>5, ModeFacts, ResetFacts
     DEF Motion!PdsStep, Motion!PdsHolds, Motion!PdsMoves, Motion!PdsPreempts, Motion!Faulted,
     Motion!axisVars, Motion!Nothing, Motion!orderVars, Motion!Pending, AbortInv, MotionInv,
     MotionPlaceInv, RunFields
<1>6. CASE Motion!ReadFailed
  BY <1>6, ModeFacts, ResetFacts
     DEF Motion!ReadFailed, Motion!Faulted, Motion!orderVars, AbortInv, MotionInv,
     MotionPlaceInv, RunFields
<1>7. CASE Motion!PdsOwns
  BY <1>7, ModeFacts, ResetFacts
     DEF Motion!PdsOwns, Motion!ModeStep, Motion!ResetIn, Motion!NotReady, Motion!axisVars,
     Motion!orderVars, Motion!Nothing, AbortInv, MotionInv, MotionPlaceInv, RunFields
<1>8. CASE Motion!ContinueExit
  BY <1>8, ModeFacts, ResetFacts
     DEF Motion!ContinueExit, Motion!ModeStep, Motion!Exit, Motion!orderVars, Motion!Paused,
     Motion!ResetIn, Motion!Faulted, Motion!NotReady, Motion!Nothing, AbortInv, MotionInv,
     MotionPlaceInv, RunFields
<1>9. CASE Motion!ContinueEnter
  BY <1>9, ModeFacts, ResetFacts
     DEF Motion!ContinueEnter, Motion!ModeStep, Motion!Enter, Motion!orderVars, Motion!Paused,
     Motion!ResetIn, Motion!Faulted, Motion!NotReady, Motion!Nothing, AbortInv, MotionInv,
     MotionPlaceInv, RunFields
<1>10. CASE Motion!LeaveMode
  BY <1>10, ModeFacts, ResetFacts
     DEF Motion!LeaveMode, Motion!ModeStep, Motion!Pending, Motion!Selected, Motion!Exit,
     Motion!orderVars, Motion!Modes, Motion!Paused, Motion!ResetIn, Motion!Faulted,
     Motion!NotReady, Motion!EdgeModes, Motion!Nothing, AbortInv,
     MotionInv, MotionPlaceInv, RunFields
<1>11. CASE Motion!TakeMode
  BY <1>11, ModeFacts, ResetFacts
     DEF Motion!TakeMode, Motion!ModeStep, Motion!Pending, Motion!Selected, Motion!Enter,
     Motion!orderVars, Motion!Modes, Motion!Paused, Motion!ResetIn, Motion!Faulted,
     Motion!NotReady, Motion!EdgeModes, Motion!Nothing, AbortInv,
     MotionInv, MotionPlaceInv, RunFields
<1>12. CASE Motion!NoCommand
  BY <1>12, ModeFacts, ResetFacts
     DEF Motion!NoCommand, Motion!ModeStep, Motion!Pending, Motion!Selected, Motion!ResetIn,
     Motion!NotReady, Motion!axisVars, Motion!orderVars, Motion!Modes, Motion!Nothing,
     Motion!EdgeModes, AbortInv, MotionInv, MotionPlaceInv,
     RunFields
<1>13. CASE Motion!PpWait
  BY <1>13, ModeFacts, ResetFacts
     DEF Motion!PpWait, Motion!Commanded, Motion!Rising, Motion!PpSeen, Motion!Succeeds,
     Motion!NothingHanded, Motion!ModeStep, Motion!Operational, Motion!Selected, Motion!axisVars,
     Motion!Nothing, Motion!orderVars,
     Motion!Pending, Motion!Modes, Motion!EdgeModes, AbortInv, MotionInv, MotionPlaceInv, RunFields
<1>14. CASE Motion!PpUnreadable
  BY <1>14, ModeFacts, ResetFacts
     DEF Motion!PpUnreadable, Motion!Commanded, Motion!Rising, Motion!PpLost, Motion!Fails,
     Motion!NothingHanded, Motion!ModeStep, Motion!Operational, Motion!Selected, Motion!PpSeen,
     Motion!Faulted, Motion!Nothing,
     Motion!orderVars, Motion!Pending, Motion!Modes, Motion!EdgeModes, AbortInv, MotionInv,
     MotionPlaceInv, RunFields
<1>15. CASE Motion!PpCommand
  BY <1>15, ModeFacts, ResetFacts
     DEF Motion!PpCommand, Motion!Commanded, Motion!Rising, Motion!PpSeen, Motion!OwnParams,
     Motion!Succeeds, Motion!PpLost, Motion!Fails, Motion!Handing, Motion!ModeStep,
     Motion!Operational, Motion!Selected, Motion!axisVars,
     Motion!Faulted, Motion!orderVars, Motion!Pending, Motion!Modes, Motion!EdgeModes, AbortInv,
     MotionInv, MotionPlaceInv, RunFields
<1>16. CASE Motion!PvCommand
  BY <1>16, ModeFacts, ResetFacts
     DEF Motion!PvCommand, Motion!Commanded, Motion!Succeeds, Motion!Fails, Motion!Handing,
     Motion!NothingHanded, Motion!ModeStep, Motion!Operational, Motion!Selected, Motion!axisVars,
     Motion!Faulted, Motion!Nothing,
     Motion!orderVars, Motion!Pending, Motion!Modes, Motion!EdgeModes, AbortInv, MotionInv,
     MotionPlaceInv, RunFields
<1>17. CASE Motion!HmWait
  BY <1>17, ModeFacts, ResetFacts
     DEF Motion!HmWait, Motion!Commanded, Motion!Rising, Motion!Succeeds,
     Motion!NothingHanded, Motion!ModeStep, Motion!Operational, Motion!Selected, Motion!axisVars,
     Motion!Nothing, Motion!orderVars,
     Motion!Pending, Motion!Modes, Motion!EdgeModes, AbortInv, MotionInv, MotionPlaceInv, RunFields
<1>18. CASE Motion!HmUnreadable
  BY <1>18, ModeFacts, ResetFacts
     DEF Motion!HmUnreadable, Motion!Commanded, Motion!HmAccepts, Motion!HmLost, Motion!Fails,
     Motion!NothingHanded, Motion!ModeStep, Motion!Operational, Motion!Selected, Motion!Rising,
     Motion!Faulted, Motion!Nothing,
     Motion!orderVars, Motion!Pending, Motion!Modes, Motion!EdgeModes, AbortInv, MotionInv,
     MotionPlaceInv, RunFields
<1>19. CASE Motion!HmCommand
  BY <1>19, ModeFacts, ResetFacts
     DEF Motion!HmCommand, Motion!Commanded, Motion!HmAccepts, Motion!Aborting, Motion!Rising,
     Motion!Succeeds, Motion!HmLost, Motion!Fails, Motion!Handing, Motion!ModeStep,
     Motion!Operational, Motion!Selected, Motion!axisVars,
     Motion!Faulted, Motion!orderVars, Motion!Pending, Motion!Modes, Motion!EdgeModes, AbortInv,
     MotionInv, MotionPlaceInv, RunFields
<1>q. QED
  BY <1>0, <1>1, <1>2, <1>3, <1>4, <1>5, <1>6, <1>7, <1>8, <1>9, <1>10, <1>11, <1>12,
     <1>13, <1>14, <1>15, <1>16, <1>17, <1>18, <1>19 DEF Motion!Next, Motion!Supervise

(* A command keeps its parameters.                                         *)
LEMMA OwnedStep ==
    ASSUME MotionInv, [Motion!Next]_(Motion!vars)
    PROVE  OwnedInv'
<1>0. CASE UNCHANGED Motion!vars
  BY <1>0 DEF Motion!vars, Motion!axisVars, Motion!orderVars, Motion!seenVars, OwnedInv,
     Motion!EdgeModes, MotionInv, MotionPlaceInv,
     AbortInv, HomingInv, RunFields
<1>1. CASE Motion!WriteControlword
  BY <1>1, ModeFacts, ResetFacts
     DEF Motion!WriteControlword, Motion!Written, Motion!Revoked, Motion!axisVars,
     OwnedInv, Motion!EdgeModes, MotionInv, MotionPlaceInv, AbortInv, HomingInv, RunFields
<1>2. CASE Motion!WriteMode
  BY <1>2, ModeFacts, ResetFacts
     DEF Motion!WriteMode, Motion!Written, Motion!Modes, Motion!Revoked, Motion!axisVars,
     Motion!EdgeModes, OwnedInv, MotionInv, MotionPlaceInv, AbortInv, HomingInv, RunFields
<1>3. CASE Motion!WriteParameters
  BY <1>3, ModeFacts, ResetFacts
     DEF Motion!WriteParameters, Motion!Written, Motion!axisVars, OwnedInv,
     Motion!EdgeModes, MotionInv, MotionPlaceInv, AbortInv, HomingInv, RunFields
<1>4. CASE Motion!StartAccepted
  BY <1>4, ModeFacts, ResetFacts
     DEF Motion!StartAccepted, Motion!Consumed, Motion!Written, Motion!Consumable,
     Motion!axisVars, Motion!EdgeModes, Motion!Operational, Motion!Pending, OwnedInv, MotionInv,
     MotionPlaceInv, AbortInv,
     HomingInv, RunFields
<1>5. CASE Motion!PdsStep
  BY <1>5, ModeFacts, ResetFacts
     DEF Motion!PdsStep, Motion!PdsHolds, Motion!PdsMoves, Motion!PdsPreempts, Motion!Faulted,
     Motion!axisVars, Motion!Nothing, Motion!orderVars, Motion!Pending, OwnedInv,
     Motion!EdgeModes, MotionInv, MotionPlaceInv,
     AbortInv, HomingInv, RunFields
<1>6. CASE Motion!ReadFailed
  BY <1>6, ModeFacts, ResetFacts DEF Motion!ReadFailed, Motion!Faulted, Motion!orderVars, OwnedInv,
     Motion!EdgeModes, MotionInv, MotionPlaceInv, AbortInv, HomingInv, RunFields
<1>7. CASE Motion!PdsOwns
  BY <1>7, ModeFacts, ResetFacts
     DEF Motion!PdsOwns, Motion!ModeStep, Motion!ResetIn, Motion!NotReady, Motion!axisVars,
     Motion!orderVars, Motion!Nothing, OwnedInv, Motion!EdgeModes, MotionInv, MotionPlaceInv,
     AbortInv, HomingInv,
     RunFields
<1>8. CASE Motion!ContinueExit
  BY <1>8, ModeFacts, ResetFacts
     DEF Motion!ContinueExit, Motion!ModeStep, Motion!Exit, Motion!orderVars, Motion!Paused,
     Motion!ResetIn, Motion!Faulted, Motion!NotReady, Motion!Nothing, OwnedInv, Motion!EdgeModes,
     MotionInv, MotionPlaceInv, AbortInv,
     HomingInv, RunFields
<1>9. CASE Motion!ContinueEnter
  BY <1>9, ModeFacts, ResetFacts
     DEF Motion!ContinueEnter, Motion!ModeStep, Motion!Enter, Motion!orderVars, Motion!Paused,
     Motion!ResetIn, Motion!Faulted, Motion!NotReady, Motion!Nothing, OwnedInv, Motion!EdgeModes,
     MotionInv, MotionPlaceInv, AbortInv,
     HomingInv, RunFields
<1>10. CASE Motion!LeaveMode
  BY <1>10, ModeFacts, ResetFacts
     DEF Motion!LeaveMode, Motion!ModeStep, Motion!Pending, Motion!Selected, Motion!Exit,
     Motion!orderVars, Motion!Modes, Motion!Paused, Motion!ResetIn, Motion!Faulted,
     Motion!NotReady, Motion!EdgeModes, Motion!Nothing, OwnedInv,
     MotionInv, MotionPlaceInv, AbortInv, HomingInv, RunFields
<1>11. CASE Motion!TakeMode
  BY <1>11, ModeFacts, ResetFacts
     DEF Motion!TakeMode, Motion!ModeStep, Motion!Pending, Motion!Selected, Motion!Enter,
     Motion!orderVars, Motion!Modes, Motion!Paused, Motion!ResetIn, Motion!Faulted,
     Motion!NotReady, Motion!EdgeModes, Motion!Nothing, OwnedInv,
     MotionInv, MotionPlaceInv, AbortInv, HomingInv, RunFields
<1>12. CASE Motion!NoCommand
  BY <1>12, ModeFacts, ResetFacts
     DEF Motion!NoCommand, Motion!ModeStep, Motion!Pending, Motion!Selected, Motion!ResetIn,
     Motion!NotReady, Motion!axisVars, Motion!orderVars, Motion!Modes, Motion!Nothing,
     Motion!EdgeModes, OwnedInv, MotionInv, MotionPlaceInv,
     AbortInv, HomingInv, RunFields
<1>13. CASE Motion!PpWait
  BY <1>13, ModeFacts, ResetFacts
     DEF Motion!PpWait, Motion!Commanded, Motion!Rising, Motion!PpSeen, Motion!Succeeds,
     Motion!NothingHanded, Motion!ModeStep, Motion!Operational, Motion!Selected, Motion!axisVars,
     Motion!Nothing, Motion!orderVars,
     Motion!Pending, Motion!Modes, Motion!EdgeModes, OwnedInv, MotionInv, MotionPlaceInv,
     AbortInv, HomingInv, RunFields
<1>14. CASE Motion!PpUnreadable
  BY <1>14, ModeFacts, ResetFacts
     DEF Motion!PpUnreadable, Motion!Commanded, Motion!Rising, Motion!PpLost, Motion!Fails,
     Motion!NothingHanded, Motion!ModeStep, Motion!Operational, Motion!Selected, Motion!PpSeen,
     Motion!Faulted, Motion!Nothing,
     Motion!orderVars, Motion!Pending, Motion!Modes, Motion!EdgeModes, OwnedInv, MotionInv,
     MotionPlaceInv, AbortInv,
     HomingInv, RunFields
<1>15. CASE Motion!PpCommand
  BY <1>15, ModeFacts, ResetFacts
     DEF Motion!PpCommand, Motion!Commanded, Motion!Rising, Motion!PpSeen, Motion!OwnParams,
     Motion!Succeeds, Motion!PpLost, Motion!Fails, Motion!Handing, Motion!ModeStep,
     Motion!Operational, Motion!Selected, Motion!axisVars,
     Motion!Faulted, Motion!orderVars, Motion!Pending, Motion!Modes, Motion!EdgeModes, OwnedInv,
     MotionInv, MotionPlaceInv, AbortInv,
     HomingInv, RunFields
<1>16. CASE Motion!PvCommand
  BY <1>16, ModeFacts, ResetFacts
     DEF Motion!PvCommand, Motion!Commanded, Motion!Succeeds, Motion!Fails, Motion!Handing,
     Motion!NothingHanded, Motion!ModeStep, Motion!Operational, Motion!Selected, Motion!axisVars,
     Motion!Faulted, Motion!Nothing,
     Motion!orderVars, Motion!Pending, Motion!Modes, Motion!EdgeModes, OwnedInv, MotionInv,
     MotionPlaceInv, AbortInv,
     HomingInv, RunFields
<1>17. CASE Motion!HmWait
  BY <1>17, ModeFacts, ResetFacts
     DEF Motion!HmWait, Motion!Commanded, Motion!Rising, Motion!Succeeds,
     Motion!NothingHanded, Motion!ModeStep, Motion!Operational, Motion!Selected, Motion!axisVars,
     Motion!Nothing, Motion!orderVars,
     Motion!Pending, Motion!Modes, Motion!EdgeModes, OwnedInv, MotionInv, MotionPlaceInv,
     AbortInv, HomingInv, RunFields
<1>18. CASE Motion!HmUnreadable
  BY <1>18, ModeFacts, ResetFacts
     DEF Motion!HmUnreadable, Motion!Commanded, Motion!HmAccepts, Motion!HmLost, Motion!Fails,
     Motion!NothingHanded, Motion!ModeStep, Motion!Operational, Motion!Selected, Motion!Rising,
     Motion!Faulted, Motion!Nothing,
     Motion!orderVars, Motion!Pending, Motion!Modes, Motion!EdgeModes, OwnedInv, MotionInv,
     MotionPlaceInv, AbortInv,
     HomingInv, RunFields
<1>19. CASE Motion!HmCommand
  BY <1>19, ModeFacts, ResetFacts
     DEF Motion!HmCommand, Motion!Commanded, Motion!HmAccepts, Motion!Aborting, Motion!Rising,
     Motion!Succeeds, Motion!HmLost, Motion!Fails, Motion!Handing, Motion!ModeStep,
     Motion!Operational, Motion!Selected, Motion!axisVars,
     Motion!Faulted, Motion!orderVars, Motion!Pending, Motion!Modes, Motion!EdgeModes, OwnedInv,
     MotionInv, MotionPlaceInv, AbortInv,
     HomingInv, RunFields
<1>q. QED
  BY <1>0, <1>1, <1>2, <1>3, <1>4, <1>5, <1>6, <1>7, <1>8, <1>9, <1>10, <1>11, <1>12,
     <1>13, <1>14, <1>15, <1>16, <1>17, <1>18, <1>19 DEF Motion!Next, Motion!Supervise

(* A bit that is up is fresh, or will be sampled.                          *)
LEMMA FreshStep ==
    ASSUME MotionInv, [Motion!Next]_(Motion!vars)
    PROVE  FreshInv'
<1>0. CASE UNCHANGED Motion!vars
  BY <1>0 DEF Motion!vars, Motion!axisVars, Motion!orderVars, Motion!seenVars, FreshInv,
     Motion!EdgeModes, Motion!Pending, MotionInv,
     MotionPlaceInv, RunFields
<1>1. CASE Motion!WriteControlword
  <2>1. PICK bit \in BOOLEAN : Motion!Written(bit)
    BY <1>1, Zenon DEF Motion!WriteControlword
  <2>2. start' => start \/ risen'
    BY <2>1, Zenon DEF Motion!Written
  <2>3. risen => risen'
    BY <2>1, Zenon DEF Motion!Written
  <2>4. UNCHANGED <<Motion!axisVars, motionMode, run, passPhase>>
    BY <2>1 DEF Motion!Written
  <2>q. QED
    BY <2>2, <2>3, <2>4 DEF FreshInv, MotionInv, Motion!axisVars, Motion!Pending
<1>2. CASE Motion!WriteMode
  BY <1>2, ModeFacts, ResetFacts
     DEF Motion!WriteMode, Motion!Written, Motion!Modes, Motion!Revoked, Motion!axisVars,
     Motion!EdgeModes, FreshInv, Motion!Pending, MotionInv, MotionPlaceInv, RunFields
<1>3. CASE Motion!WriteParameters
  BY <1>3, ModeFacts, ResetFacts
     DEF Motion!WriteParameters, Motion!Written, Motion!axisVars, FreshInv,
     Motion!EdgeModes, Motion!Pending, MotionInv, MotionPlaceInv, RunFields
<1>4. CASE Motion!StartAccepted
  BY <1>4, ModeFacts, ResetFacts
     DEF Motion!StartAccepted, Motion!Consumed, Motion!Written, Motion!Consumable,
     Motion!axisVars, Motion!EdgeModes, Motion!Operational, Motion!Pending, FreshInv, MotionInv,
     MotionPlaceInv, RunFields
<1>5. CASE Motion!PdsStep
  BY <1>5, ModeFacts, ResetFacts
     DEF Motion!PdsStep, Motion!PdsHolds, Motion!PdsMoves, Motion!PdsPreempts, Motion!Faulted,
     Motion!axisVars, Motion!Nothing, Motion!orderVars, Motion!Pending, FreshInv,
     Motion!EdgeModes, MotionInv, MotionPlaceInv,
     RunFields
<1>6. CASE Motion!ReadFailed
  BY <1>6, ModeFacts, ResetFacts DEF Motion!ReadFailed, Motion!Faulted, Motion!orderVars, FreshInv,
     Motion!EdgeModes, Motion!Pending, MotionInv, MotionPlaceInv, RunFields
<1>7. CASE Motion!PdsOwns
  BY <1>7, ModeFacts, ResetFacts
     DEF Motion!PdsOwns, Motion!ModeStep, Motion!ResetIn, Motion!NotReady, Motion!axisVars,
     Motion!orderVars, Motion!Nothing, FreshInv, Motion!EdgeModes, Motion!Pending, MotionInv,
     MotionPlaceInv, RunFields
<1>8. CASE Motion!ContinueExit
  BY <1>8, ModeFacts, ResetFacts
     DEF Motion!ContinueExit, Motion!ModeStep, Motion!Exit, Motion!orderVars, Motion!Paused,
     Motion!ResetIn, Motion!Faulted, Motion!NotReady, Motion!Nothing, FreshInv, Motion!EdgeModes,
     Motion!Pending, MotionInv, MotionPlaceInv,
     RunFields
<1>9. CASE Motion!ContinueEnter
  BY <1>9, ModeFacts, ResetFacts
     DEF Motion!ContinueEnter, Motion!ModeStep, Motion!Enter, Motion!orderVars, Motion!Paused,
     Motion!ResetIn, Motion!Faulted, Motion!NotReady, Motion!Nothing, FreshInv, Motion!EdgeModes,
     Motion!Pending, MotionInv, MotionPlaceInv,
     RunFields
<1>10. CASE Motion!LeaveMode
  BY <1>10, ModeFacts, ResetFacts
     DEF Motion!LeaveMode, Motion!ModeStep, Motion!Pending, Motion!Selected, Motion!Exit,
     Motion!orderVars, Motion!Modes, Motion!Paused, Motion!ResetIn, Motion!Faulted,
     Motion!NotReady, Motion!EdgeModes, Motion!Nothing, FreshInv,
     MotionInv, MotionPlaceInv, RunFields
<1>11. CASE Motion!TakeMode
  BY <1>11, ModeFacts, ResetFacts
     DEF Motion!TakeMode, Motion!ModeStep, Motion!Pending, Motion!Selected, Motion!Enter,
     Motion!orderVars, Motion!Modes, Motion!Paused, Motion!ResetIn, Motion!Faulted,
     Motion!NotReady, Motion!EdgeModes, Motion!Nothing, FreshInv,
     MotionInv, MotionPlaceInv, RunFields
<1>12. CASE Motion!NoCommand
  BY <1>12, ModeFacts, ResetFacts
     DEF Motion!NoCommand, Motion!ModeStep, Motion!Pending, Motion!Selected, Motion!ResetIn,
     Motion!NotReady, Motion!axisVars, Motion!orderVars, Motion!Modes, Motion!Nothing,
     Motion!EdgeModes, FreshInv, MotionInv, MotionPlaceInv,
     RunFields
<1>13. CASE Motion!PpWait
  BY <1>13, ModeFacts, ResetFacts
     DEF Motion!PpWait, Motion!Commanded, Motion!Rising, Motion!PpSeen, Motion!Succeeds,
     Motion!NothingHanded, Motion!ModeStep, Motion!Operational, Motion!Selected, Motion!axisVars,
     Motion!Nothing, Motion!orderVars,
     Motion!Pending, Motion!Modes, Motion!EdgeModes, FreshInv, MotionInv, MotionPlaceInv, RunFields
<1>14. CASE Motion!PpUnreadable
  BY <1>14, ModeFacts, ResetFacts
     DEF Motion!PpUnreadable, Motion!Commanded, Motion!Rising, Motion!PpLost, Motion!Fails,
     Motion!NothingHanded, Motion!ModeStep, Motion!Operational, Motion!Selected, Motion!PpSeen,
     Motion!Faulted, Motion!Nothing,
     Motion!orderVars, Motion!Pending, Motion!Modes, Motion!EdgeModes, FreshInv, MotionInv,
     MotionPlaceInv, RunFields
<1>15. CASE Motion!PpCommand
  BY <1>15, ModeFacts, ResetFacts
     DEF Motion!PpCommand, Motion!Commanded, Motion!Rising, Motion!PpSeen, Motion!OwnParams,
     Motion!Succeeds, Motion!PpLost, Motion!Fails, Motion!Handing, Motion!ModeStep,
     Motion!Operational, Motion!Selected, Motion!axisVars,
     Motion!Faulted, Motion!orderVars, Motion!Pending, Motion!Modes, Motion!EdgeModes, FreshInv,
     MotionInv, MotionPlaceInv, RunFields
<1>16. CASE Motion!PvCommand
  BY <1>16, ModeFacts, ResetFacts
     DEF Motion!PvCommand, Motion!Commanded, Motion!Succeeds, Motion!Fails, Motion!Handing,
     Motion!NothingHanded, Motion!ModeStep, Motion!Operational, Motion!Selected, Motion!axisVars,
     Motion!Faulted, Motion!Nothing,
     Motion!orderVars, Motion!Pending, Motion!Modes, Motion!EdgeModes, FreshInv, MotionInv,
     MotionPlaceInv, RunFields
<1>17. CASE Motion!HmWait
  BY <1>17, ModeFacts, ResetFacts
     DEF Motion!HmWait, Motion!Commanded, Motion!Rising, Motion!Succeeds,
     Motion!NothingHanded, Motion!ModeStep, Motion!Operational, Motion!Selected, Motion!axisVars,
     Motion!Nothing, Motion!orderVars,
     Motion!Pending, Motion!Modes, Motion!EdgeModes, FreshInv, MotionInv, MotionPlaceInv, RunFields
<1>18. CASE Motion!HmUnreadable
  BY <1>18, ModeFacts, ResetFacts
     DEF Motion!HmUnreadable, Motion!Commanded, Motion!HmAccepts, Motion!HmLost, Motion!Fails,
     Motion!NothingHanded, Motion!ModeStep, Motion!Operational, Motion!Selected, Motion!Rising,
     Motion!Faulted, Motion!Nothing,
     Motion!orderVars, Motion!Pending, Motion!Modes, Motion!EdgeModes, FreshInv, MotionInv,
     MotionPlaceInv, RunFields
<1>19. CASE Motion!HmCommand
  BY <1>19, ModeFacts, ResetFacts
     DEF Motion!HmCommand, Motion!Commanded, Motion!HmAccepts, Motion!Aborting, Motion!Rising,
     Motion!Succeeds, Motion!HmLost, Motion!Fails, Motion!Handing, Motion!ModeStep,
     Motion!Operational, Motion!Selected, Motion!axisVars,
     Motion!Faulted, Motion!orderVars, Motion!Pending, Motion!Modes, Motion!EdgeModes, FreshInv,
     MotionInv, MotionPlaceInv, RunFields
<1>q. QED
  BY <1>0, <1>1, <1>2, <1>3, <1>4, <1>5, <1>6, <1>7, <1>8, <1>9, <1>10, <1>11, <1>12,
     <1>13, <1>14, <1>15, <1>16, <1>17, <1>18, <1>19 DEF Motion!Next, Motion!Supervise

LEMMA MotionStarts == Motion!Init => MotionInv
BY ModeFacts DEF Motion!Init, MotionInv, MotionPlaceInv, StartInv, HomingInv, AbortInv, OwnedInv,
   FreshInv, Motion!Blank,
   RunFields, Motion!EdgeModes, Motion!Modes

LEMMA MotionInvariant == Spec => []MotionInv
<1>1. MotionInv /\ [Motion!Next]_(Motion!vars) => MotionInv'
  BY MotionPlaceStep, StartStep, HomingStep, AbortStep, OwnedStep, FreshStep DEF MotionInv
<1>q. QED
  BY <1>1, MotionStarts, Starts, Steps, PTL DEF Spec

(* A start that was acknowledged reaches the product as an edge, a homing  *)
(* that is said to be attained ran with its bit held, and a command keeps  *)
(* the parameters it began with (CO_402_device_RTT_msh.c:586).             *)
THEOREM MotionSafe == Spec => []Motion!MotionIsSafe
<1>1. MotionInv => Motion!MotionIsSafe
  BY DEF MotionInv, StartInv, HomingInv, OwnedInv, Motion!MotionIsSafe, Motion!StartIsKept,
     Motion!HomingIsHonest,
     Motion!HomingAttained, Motion!CommandIsOwned, Motion!EdgeModes
<1>q. QED
  BY <1>1, MotionInvariant, PTL

(* A bit left high starts no motion when a mode is entered or the          *)
(* operation enabled.                                                      *)
THEOREM EdgesAreFresh == Spec => Motion!EdgeIsFresh
<1>1. MotionInv /\ [Motion!Next]_(Motion!vars) => [handed'.kind = "edge" /\ passPhase =
    "mode" => risen]_(Motion!vars)
  <2> SUFFICES ASSUME MotionInv, Motion!Next, handed'.kind = "edge", passPhase = "mode"
               PROVE  risen
    OBVIOUS
  <2>1. Motion!Supervise
    BY DEF Motion!Next, Motion!WriteControlword, Motion!WriteMode, Motion!WriteParameters,
       Motion!StartAccepted, Motion!Written, Motion!PdsStep,
       Motion!ReadFailed
  <2>2. CASE Motion!PpCommand
    BY <2>2 DEF Motion!PpCommand, Motion!Handing, Motion!Commanded, Motion!Operational,
       Motion!Rising, MotionInv, FreshInv, Motion!EdgeModes
  <2>3. CASE Motion!HmCommand
    BY <2>3 DEF Motion!HmCommand, Motion!Handing, Motion!Commanded, Motion!Operational,
       Motion!Rising, MotionInv, FreshInv, Motion!EdgeModes
  <2>4. CASE Motion!PvCommand
    BY <2>4 DEF Motion!PvCommand, Motion!Handing, Motion!NothingHanded, Motion!Nothing
  <2>5. CASE Motion!PdsOwns \/ Motion!ContinueExit \/ Motion!ContinueEnter \/
      Motion!LeaveMode \/ Motion!TakeMode \/ Motion!NoCommand
    BY <2>5 DEF Motion!PdsOwns, Motion!ContinueExit, Motion!ContinueEnter, Motion!LeaveMode,
       Motion!TakeMode, Motion!NoCommand, Motion!Exit, Motion!Enter,
       Motion!NotReady, Motion!Nothing
  <2>6. CASE Motion!PpWait \/ Motion!PpUnreadable \/ Motion!HmWait \/ Motion!HmUnreadable
    BY <2>6 DEF Motion!PpWait, Motion!PpUnreadable, Motion!HmWait, Motion!HmUnreadable,
       Motion!NothingHanded, Motion!Nothing
  <2>q. QED
    BY <2>1, <2>2, <2>3, <2>4, <2>5, <2>6 DEF Motion!Supervise
<1>q. QED
  BY <1>1, MotionInvariant, Starts, Steps, PTL DEF Spec, Motion!EdgeIsFresh

-----------------------------------------------------------------------------
(***************************************************************************)
(* Proofs about DeviceShell.  Where each thread stands says which of the   *)
(* three mutexes it holds, and whoever holds the OD mutex or the binding   *)
(* mutex waits for nothing.                                                *)
(***************************************************************************)

ConsolePlaces ==
    {"idle", "snapshot", "lifecycle", "again", "revalidate", "od", "work", "request", "unlock"}
WithLifecycle == {"again", "revalidate", "od", "work", "request", "unlock"}

PlaceTypes ==
    /\ pc \in [Consoles -> ConsolePlaces]
    /\ begun \in [Consoles -> BOOLEAN]
    /\ DOMAIN left = Consoles
    /\ workerPc \in {"wait", "lifecycle", "od", "pass"}
    /\ binding \in Consoles \cup {Nobody}
    /\ lifecycle \in Consoles \cup {"life", "worker", Nobody}
    /\ od \in Consoles \cup {"worker", Nobody}

(* Who holds which mutex                                                   *)
BindingInv == \A c \in Consoles : pc[c] \in {"snapshot", "revalidate"} <=> binding = c
LifecycleInv ==
    /\ \A c \in Consoles : pc[c] \in WithLifecycle <=> lifecycle = c
    /\ workerPc \in {"od", "pass"} <=> lifecycle = "worker"
    /\ stage \in {"reset", "teardown"} <=> lifecycle = "life"
OdInv ==
    /\ \A c \in Consoles : pc[c] = "work" <=> od = c
    /\ workerPc = "pass" <=> od = "worker"

(* Only a command at work has written something.                           *)
WrittenInv == \A c \in Consoles : begun[c] => pc[c] = "work"

(* A command that has returned success was given to a runtime that runs.   *)
RequestInv ==
    unseen => alive /\ ready /\ stack /\ stage \notin {"reset", "teardown"}

LockInv == PlaceTypes /\ BindingInv /\ LifecycleInv /\ OdInv

ShellInv ==
    /\ LockInv /\ WrittenInv /\ RequestInv
    /\ Shell!CommandsArePinned /\ Shell!CommandsAreWhole /\ Shell!CommandsAreProcessed

(* The holders are told apart.                                             *)
LEMMA HolderFacts ==
    /\ Nobody \notin Consoles /\ Nobody # "life" /\ Nobody # "worker"
    /\ "life" \notin Consoles /\ "worker" \notin Consoles
BY ProfilesAssumption DEF Shell!DeviceShellAssumption

(* Every step keeps threads at their places.                               *)
LEMMA PlaceTypesStep ==
    ASSUME ShellInv, [Shell!Next]_(Shell!vars)
    PROVE  PlaceTypes'
<1>0. CASE UNCHANGED Shell!vars
  BY <1>0 DEF Shell!vars, Shell!mutexes, Shell!runtime, Shell!console, Shell!worker, PlaceTypes,
     ConsolePlaces, ShellInv,
     LockInv
<1>1. ASSUME NEW c \in Consoles, Shell!Snapshot(c) PROVE PlaceTypes'
  BY <1>1, HolderFacts DEF Shell!Snapshot, Shell!At, Shell!To, Shell!runtime, Shell!worker,
     PlaceTypes, ConsolePlaces,
     ShellInv, LockInv
<1>2. ASSUME NEW c \in Consoles, Shell!ReadApp(c) PROVE PlaceTypes'
  BY <1>2, HolderFacts DEF Shell!ReadApp, Shell!At, Shell!GiveBack, Shell!To, Shell!runtime,
     Shell!worker, PlaceTypes,
     ConsolePlaces, ShellInv, LockInv
<1>3. ASSUME NEW c \in Consoles, Shell!TakeLifecycle(c) PROVE PlaceTypes'
  BY <1>3, HolderFacts DEF Shell!TakeLifecycle, Shell!At, Shell!To, Shell!runtime, Shell!worker,
     PlaceTypes,
     ConsolePlaces, ShellInv, LockInv
<1>4. ASSUME NEW c \in Consoles, Shell!SnapshotAgain(c) PROVE PlaceTypes'
  BY <1>4, HolderFacts DEF Shell!SnapshotAgain, Shell!At, Shell!To, Shell!runtime, Shell!worker,
     PlaceTypes,
     ConsolePlaces, ShellInv, LockInv
<1>5. ASSUME NEW c \in Consoles, Shell!Revalidate(c) PROVE PlaceTypes'
  BY <1>5, HolderFacts DEF Shell!Revalidate, Shell!At, Shell!Valid, Shell!To, Shell!runtime,
     Shell!worker, PlaceTypes,
     ConsolePlaces, ShellInv, LockInv
<1>6. ASSUME NEW c \in Consoles, Shell!TakeOd(c) PROVE PlaceTypes'
  BY <1>6, HolderFacts DEF Shell!TakeOd, Shell!At, Shell!OdLock, Shell!runtime, Shell!worker,
     PlaceTypes,
     ConsolePlaces, ShellInv, LockInv
<1>7. ASSUME NEW c \in Consoles, Shell!Write(c) PROVE PlaceTypes'
  BY <1>7, HolderFacts DEF Shell!Write, Shell!At, Shell!mutexes, Shell!runtime, Shell!worker,
     PlaceTypes,
     ConsolePlaces, ShellInv, LockInv
<1>8. ASSUME NEW c \in Consoles, Shell!Refuse(c) PROVE PlaceTypes'
  BY <1>8, HolderFacts DEF Shell!Refuse, Shell!At, Shell!Finish, Shell!runtime, Shell!worker,
     PlaceTypes,
     ConsolePlaces, ShellInv, LockInv
<1>9. ASSUME NEW c \in Consoles, Shell!Publish(c) PROVE PlaceTypes'
  BY <1>9, HolderFacts DEF Shell!Publish, Shell!At, Shell!Finish, Shell!runtime, Shell!worker,
     PlaceTypes,
     ConsolePlaces, ShellInv, LockInv
<1>10. ASSUME NEW c \in Consoles, Shell!RequestProcess(c) PROVE PlaceTypes'
  BY <1>10, HolderFacts DEF Shell!RequestProcess, Shell!At, Shell!To, Shell!mutexes,
     Shell!runtime, PlaceTypes,
     ConsolePlaces, Shell!worker, ShellInv, LockInv
<1>11. ASSUME NEW c \in Consoles, Shell!Unlock(c) PROVE PlaceTypes'
  BY <1>11, HolderFacts DEF Shell!Unlock, Shell!At, Shell!To, Shell!runtime, Shell!worker,
     PlaceTypes, ConsolePlaces,
     ShellInv, LockInv
<1>12. CASE Shell!Tick
  BY <1>12, HolderFacts DEF Shell!Tick, Shell!mutexes, Shell!runtime, Shell!console, PlaceTypes,
     ConsolePlaces,
     Shell!worker, ShellInv, LockInv
<1>13. CASE Shell!WorkerWakes
  BY <1>13, HolderFacts DEF Shell!WorkerWakes, Shell!mutexes, Shell!runtime, Shell!console,
     PlaceTypes,
     ConsolePlaces, Shell!worker, ShellInv, LockInv
<1>14. CASE Shell!WorkerLocks
  BY <1>14, HolderFacts DEF Shell!WorkerLocks, Shell!worker, Shell!runtime, Shell!console,
     PlaceTypes,
     ConsolePlaces, ShellInv, LockInv
<1>15. CASE Shell!WorkerTakesOd
  BY <1>15, HolderFacts DEF Shell!WorkerTakesOd, Shell!worker, Shell!runtime, Shell!console,
     PlaceTypes,
     ConsolePlaces, ShellInv, LockInv
<1>16. CASE Shell!Pass
  BY <1>16, HolderFacts DEF Shell!Pass, Shell!HalfWritten, Shell!runtime, Shell!console, PlaceTypes,
     ConsolePlaces, Shell!worker, ShellInv, LockInv
<1>17. CASE Shell!NetworkAccess
  BY <1>17, HolderFacts DEF Shell!NetworkAccess, Shell!HalfWritten, Shell!mutexes, Shell!runtime,
     Shell!console,
     Shell!worker, PlaceTypes, ConsolePlaces, ShellInv, LockInv
<1>18. CASE Shell!BringUp
  BY <1>18, HolderFacts DEF Shell!BringUp, Shell!mutexes, Shell!console, Shell!worker, PlaceTypes,
     ConsolePlaces, ShellInv, LockInv
<1>19. CASE Shell!RuntimeStart
  BY <1>19, HolderFacts DEF Shell!RuntimeStart, Shell!mutexes, Shell!console, Shell!worker,
     PlaceTypes,
     ConsolePlaces, ShellInv, LockInv
<1>20. CASE Shell!Reset
  BY <1>20, HolderFacts DEF Shell!Reset, Shell!LifeTakes, Shell!console, PlaceTypes, ConsolePlaces,
     Shell!worker, ShellInv, LockInv
<1>21. CASE Shell!Teardown
  BY <1>21, HolderFacts DEF Shell!Teardown, Shell!LifeTakes, Shell!console, PlaceTypes,
     ConsolePlaces,
     Shell!worker, ShellInv, LockInv
<1>22. CASE Shell!Stop
  BY <1>22, HolderFacts DEF Shell!Stop, Shell!mutexes, Shell!console, Shell!worker, PlaceTypes,
     ConsolePlaces,
     ShellInv, LockInv
<1>23. CASE Shell!Restart
  BY <1>23, HolderFacts DEF Shell!Restart, Shell!console, Shell!worker, PlaceTypes,
     ConsolePlaces, ShellInv,
     LockInv
<1>24. CASE Shell!RuntimeDeinit
  BY <1>24, HolderFacts DEF Shell!RuntimeDeinit, Shell!mutexes, Shell!console, Shell!worker,
     PlaceTypes,
     ConsolePlaces, ShellInv, LockInv
<1>25. CASE Shell!Detach
  BY <1>25, HolderFacts DEF Shell!Detach, Shell!console, PlaceTypes, ConsolePlaces, Shell!worker,
     ShellInv,
     LockInv
<1>q. QED
  BY <1>0, <1>1, <1>2, <1>3, <1>4, <1>5, <1>6, <1>7, <1>8, <1>9, <1>10, <1>11, <1>12,
     <1>13, <1>14, <1>15, <1>16, <1>17, <1>18, <1>19, <1>20, <1>21, <1>22, <1>23, <1>24,
     <1>25 DEF Shell!Next, Shell!Console, Shell!Worker, Shell!Application, Shell!StopOrRestart

(* Every step keeps track of the binding mutex.                            *)
LEMMA BindingStep ==
    ASSUME ShellInv, [Shell!Next]_(Shell!vars)
    PROVE  BindingInv'
<1>0. CASE UNCHANGED Shell!vars
  BY <1>0 DEF Shell!vars, Shell!mutexes, Shell!runtime, Shell!console, Shell!worker, BindingInv,
     ShellInv, LockInv,
     PlaceTypes
<1>1. ASSUME NEW c \in Consoles, Shell!Snapshot(c) PROVE BindingInv'
  BY <1>1, HolderFacts DEF Shell!Snapshot, Shell!At, Shell!To, Shell!runtime, Shell!worker,
     BindingInv, ShellInv, LockInv,
     PlaceTypes
<1>2. ASSUME NEW c \in Consoles, Shell!ReadApp(c) PROVE BindingInv'
  BY <1>2, HolderFacts DEF Shell!ReadApp, Shell!At, Shell!GiveBack, Shell!To, Shell!runtime,
     Shell!worker, BindingInv, ShellInv,
     LockInv, PlaceTypes
<1>3. ASSUME NEW c \in Consoles, Shell!TakeLifecycle(c) PROVE BindingInv'
  BY <1>3, HolderFacts DEF Shell!TakeLifecycle, Shell!At, Shell!To, Shell!runtime, Shell!worker,
     BindingInv, ShellInv,
     LockInv, PlaceTypes
<1>4. ASSUME NEW c \in Consoles, Shell!SnapshotAgain(c) PROVE BindingInv'
  BY <1>4, HolderFacts DEF Shell!SnapshotAgain, Shell!At, Shell!To, Shell!runtime, Shell!worker,
     BindingInv, ShellInv,
     LockInv, PlaceTypes
<1>5. ASSUME NEW c \in Consoles, Shell!Revalidate(c) PROVE BindingInv'
  BY <1>5, HolderFacts DEF Shell!Revalidate, Shell!At, Shell!Valid, Shell!To, Shell!runtime,
     Shell!worker, BindingInv, ShellInv,
     LockInv, PlaceTypes
<1>6. ASSUME NEW c \in Consoles, Shell!TakeOd(c) PROVE BindingInv'
  BY <1>6, HolderFacts DEF Shell!TakeOd, Shell!At, Shell!OdLock, Shell!runtime, Shell!worker,
     BindingInv, ShellInv,
     LockInv, PlaceTypes
<1>7. ASSUME NEW c \in Consoles, Shell!Write(c) PROVE BindingInv'
  BY <1>7, HolderFacts DEF Shell!Write, Shell!At, Shell!mutexes, Shell!runtime, Shell!worker,
     BindingInv, ShellInv,
     LockInv, PlaceTypes
<1>8. ASSUME NEW c \in Consoles, Shell!Refuse(c) PROVE BindingInv'
  BY <1>8, HolderFacts DEF Shell!Refuse, Shell!At, Shell!Finish, Shell!runtime, Shell!worker,
     BindingInv, ShellInv,
     LockInv, PlaceTypes
<1>9. ASSUME NEW c \in Consoles, Shell!Publish(c) PROVE BindingInv'
  BY <1>9, HolderFacts DEF Shell!Publish, Shell!At, Shell!Finish, Shell!runtime, Shell!worker,
     BindingInv, ShellInv,
     LockInv, PlaceTypes
<1>10. ASSUME NEW c \in Consoles, Shell!RequestProcess(c) PROVE BindingInv'
  BY <1>10, HolderFacts DEF Shell!RequestProcess, Shell!At, Shell!To, Shell!mutexes,
     Shell!runtime, BindingInv, ShellInv,
     LockInv, PlaceTypes
<1>11. ASSUME NEW c \in Consoles, Shell!Unlock(c) PROVE BindingInv'
  BY <1>11, HolderFacts DEF Shell!Unlock, Shell!At, Shell!To, Shell!runtime, Shell!worker,
     BindingInv, ShellInv, LockInv,
     PlaceTypes
<1>12. CASE Shell!Tick
  BY <1>12, HolderFacts DEF Shell!Tick, Shell!mutexes, Shell!runtime, Shell!console, BindingInv,
     ShellInv, LockInv,
     PlaceTypes
<1>13. CASE Shell!WorkerWakes
  BY <1>13, HolderFacts DEF Shell!WorkerWakes, Shell!mutexes, Shell!runtime, Shell!console,
     BindingInv, ShellInv,
     LockInv, PlaceTypes
<1>14. CASE Shell!WorkerLocks
  BY <1>14, HolderFacts DEF Shell!WorkerLocks, Shell!worker, Shell!runtime, Shell!console,
     BindingInv, ShellInv,
     LockInv, PlaceTypes
<1>15. CASE Shell!WorkerTakesOd
  BY <1>15, HolderFacts DEF Shell!WorkerTakesOd, Shell!worker, Shell!runtime, Shell!console,
     BindingInv, ShellInv,
     LockInv, PlaceTypes
<1>16. CASE Shell!Pass
  BY <1>16, HolderFacts DEF Shell!Pass, Shell!HalfWritten, Shell!runtime, Shell!console,
     BindingInv, ShellInv,
     LockInv, PlaceTypes
<1>17. CASE Shell!NetworkAccess
  BY <1>17, HolderFacts DEF Shell!NetworkAccess, Shell!HalfWritten, Shell!mutexes, Shell!runtime,
     Shell!console,
     Shell!worker, BindingInv, ShellInv, LockInv, PlaceTypes
<1>18. CASE Shell!BringUp
  BY <1>18, HolderFacts DEF Shell!BringUp, Shell!mutexes, Shell!console, Shell!worker,
     BindingInv, ShellInv,
     LockInv, PlaceTypes
<1>19. CASE Shell!RuntimeStart
  BY <1>19, HolderFacts DEF Shell!RuntimeStart, Shell!mutexes, Shell!console, Shell!worker,
     BindingInv, ShellInv,
     LockInv, PlaceTypes
<1>20. CASE Shell!Reset
  BY <1>20, HolderFacts DEF Shell!Reset, Shell!LifeTakes, Shell!console, BindingInv, ShellInv,
     LockInv,
     PlaceTypes
<1>21. CASE Shell!Teardown
  BY <1>21, HolderFacts DEF Shell!Teardown, Shell!LifeTakes, Shell!console, BindingInv, ShellInv,
     LockInv,
     PlaceTypes
<1>22. CASE Shell!Stop
  BY <1>22, HolderFacts DEF Shell!Stop, Shell!mutexes, Shell!console, Shell!worker, BindingInv,
     ShellInv, LockInv,
     PlaceTypes
<1>23. CASE Shell!Restart
  BY <1>23, HolderFacts DEF Shell!Restart, Shell!console, Shell!worker, BindingInv, ShellInv,
     LockInv,
     PlaceTypes
<1>24. CASE Shell!RuntimeDeinit
  BY <1>24, HolderFacts DEF Shell!RuntimeDeinit, Shell!mutexes, Shell!console, Shell!worker,
     BindingInv, ShellInv,
     LockInv, PlaceTypes
<1>25. CASE Shell!Detach
  BY <1>25, HolderFacts DEF Shell!Detach, Shell!console, BindingInv, ShellInv, LockInv, PlaceTypes
<1>q. QED
  BY <1>0, <1>1, <1>2, <1>3, <1>4, <1>5, <1>6, <1>7, <1>8, <1>9, <1>10, <1>11, <1>12,
     <1>13, <1>14, <1>15, <1>16, <1>17, <1>18, <1>19, <1>20, <1>21, <1>22, <1>23, <1>24,
     <1>25 DEF Shell!Next, Shell!Console, Shell!Worker, Shell!Application, Shell!StopOrRestart

(* Every step keeps track of lifecycleMutex.                               *)
LEMMA LifecycleStep ==
    ASSUME ShellInv, [Shell!Next]_(Shell!vars)
    PROVE  LifecycleInv'
<1>0. CASE UNCHANGED Shell!vars
  BY <1>0 DEF Shell!vars, Shell!mutexes, Shell!runtime, Shell!console, Shell!worker,
     LifecycleInv, WithLifecycle,
     ShellInv, LockInv, PlaceTypes, OdInv
<1>1. ASSUME NEW c \in Consoles, Shell!Snapshot(c) PROVE LifecycleInv'
  BY <1>1, HolderFacts DEF Shell!Snapshot, Shell!At, Shell!To, Shell!runtime, Shell!worker,
     LifecycleInv,
     WithLifecycle, ShellInv, LockInv, PlaceTypes, OdInv
<1>2. ASSUME NEW c \in Consoles, Shell!ReadApp(c) PROVE LifecycleInv'
  BY <1>2, HolderFacts DEF Shell!ReadApp, Shell!At, Shell!GiveBack, Shell!To, Shell!runtime,
     Shell!worker, LifecycleInv,
     WithLifecycle, ShellInv, LockInv, PlaceTypes, OdInv
<1>3. ASSUME NEW c \in Consoles, Shell!TakeLifecycle(c) PROVE LifecycleInv'
  BY <1>3, HolderFacts DEF Shell!TakeLifecycle, Shell!At, Shell!To, Shell!runtime, Shell!worker,
     LifecycleInv,
     WithLifecycle, ShellInv, LockInv, PlaceTypes, OdInv
<1>4. ASSUME NEW c \in Consoles, Shell!SnapshotAgain(c) PROVE LifecycleInv'
  BY <1>4, HolderFacts DEF Shell!SnapshotAgain, Shell!At, Shell!To, Shell!runtime, Shell!worker,
     LifecycleInv,
     WithLifecycle, ShellInv, LockInv, PlaceTypes, OdInv
<1>5. ASSUME NEW c \in Consoles, Shell!Revalidate(c) PROVE LifecycleInv'
  BY <1>5, HolderFacts DEF Shell!Revalidate, Shell!At, Shell!Valid, Shell!To, Shell!runtime,
     Shell!worker, LifecycleInv,
     WithLifecycle, ShellInv, LockInv, PlaceTypes, OdInv
<1>6. ASSUME NEW c \in Consoles, Shell!TakeOd(c) PROVE LifecycleInv'
  BY <1>6, HolderFacts DEF Shell!TakeOd, Shell!At, Shell!OdLock, Shell!runtime, Shell!worker,
     LifecycleInv,
     WithLifecycle, ShellInv, LockInv, PlaceTypes, OdInv
<1>7. ASSUME NEW c \in Consoles, Shell!Write(c) PROVE LifecycleInv'
  BY <1>7, HolderFacts DEF Shell!Write, Shell!At, Shell!mutexes, Shell!runtime, Shell!worker,
     LifecycleInv,
     WithLifecycle, ShellInv, LockInv, PlaceTypes, OdInv
<1>8. ASSUME NEW c \in Consoles, Shell!Refuse(c) PROVE LifecycleInv'
  BY <1>8, HolderFacts DEF Shell!Refuse, Shell!At, Shell!Finish, Shell!runtime, Shell!worker,
     LifecycleInv,
     WithLifecycle, ShellInv, LockInv, PlaceTypes, OdInv
<1>9. ASSUME NEW c \in Consoles, Shell!Publish(c) PROVE LifecycleInv'
  BY <1>9, HolderFacts DEF Shell!Publish, Shell!At, Shell!Finish, Shell!runtime, Shell!worker,
     LifecycleInv,
     WithLifecycle, ShellInv, LockInv, PlaceTypes, OdInv
<1>10. ASSUME NEW c \in Consoles, Shell!RequestProcess(c) PROVE LifecycleInv'
  BY <1>10, HolderFacts DEF Shell!RequestProcess, Shell!At, Shell!To, Shell!mutexes,
     Shell!runtime, LifecycleInv,
     WithLifecycle, Shell!worker, ShellInv, LockInv, PlaceTypes, OdInv
<1>11. ASSUME NEW c \in Consoles, Shell!Unlock(c) PROVE LifecycleInv'
  BY <1>11, HolderFacts DEF Shell!Unlock, Shell!At, Shell!To, Shell!runtime, Shell!worker,
     LifecycleInv,
     WithLifecycle, ShellInv, LockInv, PlaceTypes, OdInv
<1>12. CASE Shell!Tick
  BY <1>12, HolderFacts DEF Shell!Tick, Shell!mutexes, Shell!runtime, Shell!console, LifecycleInv,
     WithLifecycle, Shell!worker, ShellInv, LockInv, PlaceTypes, OdInv
<1>13. CASE Shell!WorkerWakes
  BY <1>13, HolderFacts DEF Shell!WorkerWakes, Shell!mutexes, Shell!runtime, Shell!console,
     LifecycleInv,
     WithLifecycle, Shell!worker, ShellInv, LockInv, PlaceTypes, OdInv
<1>14. CASE Shell!WorkerLocks
  BY <1>14, HolderFacts DEF Shell!WorkerLocks, Shell!worker, Shell!runtime, Shell!console,
     LifecycleInv,
     WithLifecycle, ShellInv, LockInv, PlaceTypes, OdInv
<1>15. CASE Shell!WorkerTakesOd
  BY <1>15, HolderFacts DEF Shell!WorkerTakesOd, Shell!worker, Shell!runtime, Shell!console,
     LifecycleInv,
     WithLifecycle, ShellInv, LockInv, PlaceTypes, OdInv
<1>16. CASE Shell!Pass
  BY <1>16, HolderFacts DEF Shell!Pass, Shell!HalfWritten, Shell!runtime, Shell!console,
     LifecycleInv,
     WithLifecycle, Shell!worker, ShellInv, LockInv, PlaceTypes, OdInv
<1>17. CASE Shell!NetworkAccess
  BY <1>17, HolderFacts DEF Shell!NetworkAccess, Shell!HalfWritten, Shell!mutexes, Shell!runtime,
     Shell!console,
     Shell!worker, LifecycleInv, WithLifecycle, ShellInv, LockInv, PlaceTypes, OdInv
<1>18. CASE Shell!BringUp
  BY <1>18, HolderFacts DEF Shell!BringUp, Shell!mutexes, Shell!console, Shell!worker, LifecycleInv,
     WithLifecycle, ShellInv, LockInv, PlaceTypes, OdInv
<1>19. CASE Shell!RuntimeStart
  BY <1>19, HolderFacts DEF Shell!RuntimeStart, Shell!mutexes, Shell!console, Shell!worker,
     LifecycleInv,
     WithLifecycle, ShellInv, LockInv, PlaceTypes, OdInv
<1>20. CASE Shell!Reset
  BY <1>20, HolderFacts DEF Shell!Reset, Shell!LifeTakes, Shell!console, LifecycleInv,
     WithLifecycle,
     Shell!worker, ShellInv, LockInv, PlaceTypes, OdInv
<1>21. CASE Shell!Teardown
  BY <1>21, HolderFacts DEF Shell!Teardown, Shell!LifeTakes, Shell!console, LifecycleInv,
     WithLifecycle,
     Shell!worker, ShellInv, LockInv, PlaceTypes, OdInv
<1>22. CASE Shell!Stop
  BY <1>22, HolderFacts DEF Shell!Stop, Shell!mutexes, Shell!console, Shell!worker, LifecycleInv,
     WithLifecycle,
     ShellInv, LockInv, PlaceTypes, OdInv
<1>23. CASE Shell!Restart
  BY <1>23, HolderFacts DEF Shell!Restart, Shell!console, Shell!worker, LifecycleInv,
     WithLifecycle, ShellInv,
     LockInv, PlaceTypes, OdInv
<1>24. CASE Shell!RuntimeDeinit
  BY <1>24, HolderFacts DEF Shell!RuntimeDeinit, Shell!mutexes, Shell!console, Shell!worker,
     LifecycleInv,
     WithLifecycle, ShellInv, LockInv, PlaceTypes, OdInv
<1>25. CASE Shell!Detach
  BY <1>25, HolderFacts DEF Shell!Detach, Shell!console, LifecycleInv, WithLifecycle,
     Shell!worker, ShellInv,
     LockInv, PlaceTypes, OdInv
<1>q. QED
  BY <1>0, <1>1, <1>2, <1>3, <1>4, <1>5, <1>6, <1>7, <1>8, <1>9, <1>10, <1>11, <1>12,
     <1>13, <1>14, <1>15, <1>16, <1>17, <1>18, <1>19, <1>20, <1>21, <1>22, <1>23, <1>24,
     <1>25 DEF Shell!Next, Shell!Console, Shell!Worker, Shell!Application, Shell!StopOrRestart

(* Every step keeps track of the OD mutex.                                 *)
LEMMA OdStep ==
    ASSUME ShellInv, [Shell!Next]_(Shell!vars)
    PROVE  OdInv'
<1>0. CASE UNCHANGED Shell!vars
  BY <1>0 DEF Shell!vars, Shell!mutexes, Shell!runtime, Shell!console, Shell!worker, OdInv,
     ShellInv, LockInv, PlaceTypes,
     LifecycleInv
<1>1. ASSUME NEW c \in Consoles, Shell!Snapshot(c) PROVE OdInv'
  BY <1>1, HolderFacts DEF Shell!Snapshot, Shell!At, Shell!To, Shell!runtime, Shell!worker,
     OdInv, ShellInv, LockInv,
     PlaceTypes, LifecycleInv
<1>2. ASSUME NEW c \in Consoles, Shell!ReadApp(c) PROVE OdInv'
  BY <1>2, HolderFacts DEF Shell!ReadApp, Shell!At, Shell!GiveBack, Shell!To, Shell!runtime,
     Shell!worker, OdInv, ShellInv,
     LockInv, PlaceTypes, LifecycleInv
<1>3. ASSUME NEW c \in Consoles, Shell!TakeLifecycle(c) PROVE OdInv'
  BY <1>3, HolderFacts DEF Shell!TakeLifecycle, Shell!At, Shell!To, Shell!runtime, Shell!worker,
     OdInv, ShellInv, LockInv,
     PlaceTypes, LifecycleInv
<1>4. ASSUME NEW c \in Consoles, Shell!SnapshotAgain(c) PROVE OdInv'
  BY <1>4, HolderFacts DEF Shell!SnapshotAgain, Shell!At, Shell!To, Shell!runtime, Shell!worker,
     OdInv, ShellInv, LockInv,
     PlaceTypes, LifecycleInv
<1>5. ASSUME NEW c \in Consoles, Shell!Revalidate(c) PROVE OdInv'
  BY <1>5, HolderFacts DEF Shell!Revalidate, Shell!At, Shell!Valid, Shell!To, Shell!runtime,
     Shell!worker, OdInv, ShellInv,
     LockInv, PlaceTypes, LifecycleInv
<1>6. ASSUME NEW c \in Consoles, Shell!TakeOd(c) PROVE OdInv'
  BY <1>6, HolderFacts DEF Shell!TakeOd, Shell!At, Shell!OdLock, Shell!runtime, Shell!worker,
     OdInv, ShellInv, LockInv,
     PlaceTypes, LifecycleInv
<1>7. ASSUME NEW c \in Consoles, Shell!Write(c) PROVE OdInv'
  BY <1>7, HolderFacts DEF Shell!Write, Shell!At, Shell!mutexes, Shell!runtime, Shell!worker,
     OdInv, ShellInv, LockInv,
     PlaceTypes, LifecycleInv
<1>8. ASSUME NEW c \in Consoles, Shell!Refuse(c) PROVE OdInv'
  BY <1>8, HolderFacts DEF Shell!Refuse, Shell!At, Shell!Finish, Shell!runtime, Shell!worker,
     OdInv, ShellInv, LockInv,
     PlaceTypes, LifecycleInv
<1>9. ASSUME NEW c \in Consoles, Shell!Publish(c) PROVE OdInv'
  BY <1>9, HolderFacts DEF Shell!Publish, Shell!At, Shell!Finish, Shell!runtime, Shell!worker,
     OdInv, ShellInv, LockInv,
     PlaceTypes, LifecycleInv
<1>10. ASSUME NEW c \in Consoles, Shell!RequestProcess(c) PROVE OdInv'
  BY <1>10, HolderFacts DEF Shell!RequestProcess, Shell!At, Shell!To, Shell!mutexes,
     Shell!runtime, OdInv, Shell!worker,
     ShellInv, LockInv, PlaceTypes, LifecycleInv
<1>11. ASSUME NEW c \in Consoles, Shell!Unlock(c) PROVE OdInv'
  BY <1>11, HolderFacts DEF Shell!Unlock, Shell!At, Shell!To, Shell!runtime, Shell!worker, OdInv,
     ShellInv, LockInv,
     PlaceTypes, LifecycleInv
<1>12. CASE Shell!Tick
  BY <1>12, HolderFacts DEF Shell!Tick, Shell!mutexes, Shell!runtime, Shell!console, OdInv,
     Shell!worker, ShellInv,
     LockInv, PlaceTypes, LifecycleInv
<1>13. CASE Shell!WorkerWakes
  BY <1>13, HolderFacts DEF Shell!WorkerWakes, Shell!mutexes, Shell!runtime, Shell!console,
     OdInv, Shell!worker, ShellInv,
     LockInv, PlaceTypes, LifecycleInv
<1>14. CASE Shell!WorkerLocks
  BY <1>14, HolderFacts DEF Shell!WorkerLocks, Shell!worker, Shell!runtime, Shell!console, OdInv,
     ShellInv, LockInv,
     PlaceTypes, LifecycleInv
<1>15. CASE Shell!WorkerTakesOd
  BY <1>15, HolderFacts DEF Shell!WorkerTakesOd, Shell!worker, Shell!runtime, Shell!console,
     OdInv, ShellInv,
     LockInv, PlaceTypes, LifecycleInv
<1>16. CASE Shell!Pass
  BY <1>16, HolderFacts DEF Shell!Pass, Shell!HalfWritten, Shell!runtime, Shell!console, OdInv,
     Shell!worker, ShellInv,
     LockInv, PlaceTypes, LifecycleInv
<1>17. CASE Shell!NetworkAccess
  BY <1>17, HolderFacts DEF Shell!NetworkAccess, Shell!HalfWritten, Shell!mutexes, Shell!runtime,
     Shell!console,
     Shell!worker, OdInv, ShellInv, LockInv, PlaceTypes, LifecycleInv
<1>18. CASE Shell!BringUp
  BY <1>18, HolderFacts DEF Shell!BringUp, Shell!mutexes, Shell!console, Shell!worker, OdInv,
     ShellInv, LockInv,
     PlaceTypes, LifecycleInv
<1>19. CASE Shell!RuntimeStart
  BY <1>19, HolderFacts DEF Shell!RuntimeStart, Shell!mutexes, Shell!console, Shell!worker,
     OdInv, ShellInv,
     LockInv, PlaceTypes, LifecycleInv
<1>20. CASE Shell!Reset
  BY <1>20, HolderFacts DEF Shell!Reset, Shell!LifeTakes, Shell!console, OdInv, Shell!worker,
     ShellInv, LockInv,
     PlaceTypes, LifecycleInv
<1>21. CASE Shell!Teardown
  BY <1>21, HolderFacts DEF Shell!Teardown, Shell!LifeTakes, Shell!console, OdInv, Shell!worker,
     ShellInv, LockInv,
     PlaceTypes, LifecycleInv
<1>22. CASE Shell!Stop
  BY <1>22, HolderFacts DEF Shell!Stop, Shell!mutexes, Shell!console, Shell!worker, OdInv,
     ShellInv, LockInv,
     PlaceTypes, LifecycleInv
<1>23. CASE Shell!Restart
  BY <1>23, HolderFacts DEF Shell!Restart, Shell!console, Shell!worker, OdInv, ShellInv, LockInv,
     PlaceTypes,
     LifecycleInv
<1>24. CASE Shell!RuntimeDeinit
  BY <1>24, HolderFacts DEF Shell!RuntimeDeinit, Shell!mutexes, Shell!console, Shell!worker,
     OdInv, ShellInv,
     LockInv, PlaceTypes, LifecycleInv
<1>25. CASE Shell!Detach
  BY <1>25, HolderFacts DEF Shell!Detach, Shell!console, OdInv, Shell!worker, ShellInv, LockInv,
     PlaceTypes,
     LifecycleInv
<1>q. QED
  BY <1>0, <1>1, <1>2, <1>3, <1>4, <1>5, <1>6, <1>7, <1>8, <1>9, <1>10, <1>11, <1>12,
     <1>13, <1>14, <1>15, <1>16, <1>17, <1>18, <1>19, <1>20, <1>21, <1>22, <1>23, <1>24,
     <1>25 DEF Shell!Next, Shell!Console, Shell!Worker, Shell!Application, Shell!StopOrRestart

(* Only a command at work has written.                                     *)
LEMMA WrittenStep ==
    ASSUME ShellInv, [Shell!Next]_(Shell!vars)
    PROVE  WrittenInv'
<1>0. CASE UNCHANGED Shell!vars
  BY <1>0 DEF Shell!vars, Shell!mutexes, Shell!runtime, Shell!console, Shell!worker, WrittenInv,
     ShellInv, LockInv,
     PlaceTypes
<1>1. ASSUME NEW c \in Consoles, Shell!Snapshot(c) PROVE WrittenInv'
  BY <1>1, HolderFacts DEF Shell!Snapshot, Shell!At, Shell!To, Shell!runtime, Shell!worker,
     WrittenInv, ShellInv, LockInv,
     PlaceTypes
<1>2. ASSUME NEW c \in Consoles, Shell!ReadApp(c) PROVE WrittenInv'
  BY <1>2, HolderFacts DEF Shell!ReadApp, Shell!At, Shell!GiveBack, Shell!To, Shell!runtime,
     Shell!worker, WrittenInv, ShellInv,
     LockInv, PlaceTypes
<1>3. ASSUME NEW c \in Consoles, Shell!TakeLifecycle(c) PROVE WrittenInv'
  BY <1>3, HolderFacts DEF Shell!TakeLifecycle, Shell!At, Shell!To, Shell!runtime, Shell!worker,
     WrittenInv, ShellInv,
     LockInv, PlaceTypes
<1>4. ASSUME NEW c \in Consoles, Shell!SnapshotAgain(c) PROVE WrittenInv'
  BY <1>4, HolderFacts DEF Shell!SnapshotAgain, Shell!At, Shell!To, Shell!runtime, Shell!worker,
     WrittenInv, ShellInv,
     LockInv, PlaceTypes
<1>5. ASSUME NEW c \in Consoles, Shell!Revalidate(c) PROVE WrittenInv'
  BY <1>5, HolderFacts DEF Shell!Revalidate, Shell!At, Shell!Valid, Shell!To, Shell!runtime,
     Shell!worker, WrittenInv, ShellInv,
     LockInv, PlaceTypes
<1>6. ASSUME NEW c \in Consoles, Shell!TakeOd(c) PROVE WrittenInv'
  BY <1>6, HolderFacts DEF Shell!TakeOd, Shell!At, Shell!OdLock, Shell!runtime, Shell!worker,
     WrittenInv, ShellInv,
     LockInv, PlaceTypes
<1>7. ASSUME NEW c \in Consoles, Shell!Write(c) PROVE WrittenInv'
  BY <1>7, HolderFacts DEF Shell!Write, Shell!At, Shell!mutexes, Shell!runtime, Shell!worker,
     WrittenInv, ShellInv,
     LockInv, PlaceTypes
<1>8. ASSUME NEW c \in Consoles, Shell!Refuse(c) PROVE WrittenInv'
  BY <1>8, HolderFacts DEF Shell!Refuse, Shell!At, Shell!Finish, Shell!runtime, Shell!worker,
     WrittenInv, ShellInv,
     LockInv, PlaceTypes
<1>9. ASSUME NEW c \in Consoles, Shell!Publish(c) PROVE WrittenInv'
  BY <1>9, HolderFacts DEF Shell!Publish, Shell!At, Shell!Finish, Shell!runtime, Shell!worker,
     WrittenInv, ShellInv,
     LockInv, PlaceTypes
<1>10. ASSUME NEW c \in Consoles, Shell!RequestProcess(c) PROVE WrittenInv'
  BY <1>10, HolderFacts DEF Shell!RequestProcess, Shell!At, Shell!To, Shell!mutexes,
     Shell!runtime, WrittenInv, ShellInv,
     LockInv, PlaceTypes
<1>11. ASSUME NEW c \in Consoles, Shell!Unlock(c) PROVE WrittenInv'
  BY <1>11, HolderFacts DEF Shell!Unlock, Shell!At, Shell!To, Shell!runtime, Shell!worker,
     WrittenInv, ShellInv, LockInv,
     PlaceTypes
<1>12. CASE Shell!Tick
  BY <1>12, HolderFacts DEF Shell!Tick, Shell!mutexes, Shell!runtime, Shell!console, WrittenInv,
     ShellInv, LockInv,
     PlaceTypes
<1>13. CASE Shell!WorkerWakes
  BY <1>13, HolderFacts DEF Shell!WorkerWakes, Shell!mutexes, Shell!runtime, Shell!console,
     WrittenInv, ShellInv,
     LockInv, PlaceTypes
<1>14. CASE Shell!WorkerLocks
  BY <1>14, HolderFacts DEF Shell!WorkerLocks, Shell!worker, Shell!runtime, Shell!console,
     WrittenInv, ShellInv,
     LockInv, PlaceTypes
<1>15. CASE Shell!WorkerTakesOd
  BY <1>15, HolderFacts DEF Shell!WorkerTakesOd, Shell!worker, Shell!runtime, Shell!console,
     WrittenInv, ShellInv,
     LockInv, PlaceTypes
<1>16. CASE Shell!Pass
  BY <1>16, HolderFacts DEF Shell!Pass, Shell!HalfWritten, Shell!runtime, Shell!console,
     WrittenInv, ShellInv,
     LockInv, PlaceTypes
<1>17. CASE Shell!NetworkAccess
  BY <1>17, HolderFacts DEF Shell!NetworkAccess, Shell!HalfWritten, Shell!mutexes, Shell!runtime,
     Shell!console,
     Shell!worker, WrittenInv, ShellInv, LockInv, PlaceTypes
<1>18. CASE Shell!BringUp
  BY <1>18, HolderFacts DEF Shell!BringUp, Shell!mutexes, Shell!console, Shell!worker,
     WrittenInv, ShellInv,
     LockInv, PlaceTypes
<1>19. CASE Shell!RuntimeStart
  BY <1>19, HolderFacts DEF Shell!RuntimeStart, Shell!mutexes, Shell!console, Shell!worker,
     WrittenInv, ShellInv,
     LockInv, PlaceTypes
<1>20. CASE Shell!Reset
  BY <1>20, HolderFacts DEF Shell!Reset, Shell!LifeTakes, Shell!console, WrittenInv, ShellInv,
     LockInv,
     PlaceTypes
<1>21. CASE Shell!Teardown
  BY <1>21, HolderFacts DEF Shell!Teardown, Shell!LifeTakes, Shell!console, WrittenInv, ShellInv,
     LockInv,
     PlaceTypes
<1>22. CASE Shell!Stop
  BY <1>22, HolderFacts DEF Shell!Stop, Shell!mutexes, Shell!console, Shell!worker, WrittenInv,
     ShellInv, LockInv,
     PlaceTypes
<1>23. CASE Shell!Restart
  BY <1>23, HolderFacts DEF Shell!Restart, Shell!console, Shell!worker, WrittenInv, ShellInv,
     LockInv,
     PlaceTypes
<1>24. CASE Shell!RuntimeDeinit
  BY <1>24, HolderFacts DEF Shell!RuntimeDeinit, Shell!mutexes, Shell!console, Shell!worker,
     WrittenInv, ShellInv,
     LockInv, PlaceTypes
<1>25. CASE Shell!Detach
  BY <1>25, HolderFacts DEF Shell!Detach, Shell!console, WrittenInv, ShellInv, LockInv, PlaceTypes
<1>q. QED
  BY <1>0, <1>1, <1>2, <1>3, <1>4, <1>5, <1>6, <1>7, <1>8, <1>9, <1>10, <1>11, <1>12,
     <1>13, <1>14, <1>15, <1>16, <1>17, <1>18, <1>19, <1>20, <1>21, <1>22, <1>23, <1>24,
     <1>25 DEF Shell!Next, Shell!Console, Shell!Worker, Shell!Application, Shell!StopOrRestart

(* What is requested is requested of a runtime that runs.                  *)
LEMMA RequestStep ==
    ASSUME ShellInv, [Shell!Next]_(Shell!vars)
    PROVE  RequestInv'
<1>0. CASE UNCHANGED Shell!vars
  BY <1>0 DEF Shell!vars, Shell!mutexes, Shell!runtime, Shell!console, Shell!worker, RequestInv,
     ShellInv, LockInv,
     PlaceTypes, LifecycleInv, Shell!CommandsArePinned
<1>1. ASSUME NEW c \in Consoles, Shell!Snapshot(c) PROVE RequestInv'
  BY <1>1, HolderFacts DEF Shell!Snapshot, Shell!At, Shell!To, Shell!runtime, Shell!worker,
     RequestInv, ShellInv, LockInv,
     PlaceTypes, LifecycleInv, Shell!CommandsArePinned
<1>2. ASSUME NEW c \in Consoles, Shell!ReadApp(c) PROVE RequestInv'
  BY <1>2, HolderFacts DEF Shell!ReadApp, Shell!At, Shell!GiveBack, Shell!To, Shell!runtime,
     Shell!worker, RequestInv, ShellInv,
     LockInv, PlaceTypes, LifecycleInv, Shell!CommandsArePinned
<1>3. ASSUME NEW c \in Consoles, Shell!TakeLifecycle(c) PROVE RequestInv'
  BY <1>3, HolderFacts DEF Shell!TakeLifecycle, Shell!At, Shell!To, Shell!runtime, Shell!worker,
     RequestInv, ShellInv,
     LockInv, PlaceTypes, LifecycleInv, Shell!CommandsArePinned
<1>4. ASSUME NEW c \in Consoles, Shell!SnapshotAgain(c) PROVE RequestInv'
  BY <1>4, HolderFacts DEF Shell!SnapshotAgain, Shell!At, Shell!To, Shell!runtime, Shell!worker,
     RequestInv, ShellInv,
     LockInv, PlaceTypes, LifecycleInv, Shell!CommandsArePinned
<1>5. ASSUME NEW c \in Consoles, Shell!Revalidate(c) PROVE RequestInv'
  BY <1>5, HolderFacts DEF Shell!Revalidate, Shell!At, Shell!Valid, Shell!To, Shell!runtime,
     Shell!worker, RequestInv, ShellInv,
     LockInv, PlaceTypes, LifecycleInv, Shell!CommandsArePinned
<1>6. ASSUME NEW c \in Consoles, Shell!TakeOd(c) PROVE RequestInv'
  BY <1>6, HolderFacts DEF Shell!TakeOd, Shell!At, Shell!OdLock, Shell!runtime, Shell!worker,
     RequestInv, ShellInv,
     LockInv, PlaceTypes, LifecycleInv, Shell!CommandsArePinned
<1>7. ASSUME NEW c \in Consoles, Shell!Write(c) PROVE RequestInv'
  BY <1>7, HolderFacts DEF Shell!Write, Shell!At, Shell!mutexes, Shell!runtime, Shell!worker,
     RequestInv, ShellInv,
     LockInv, PlaceTypes, LifecycleInv, Shell!CommandsArePinned
<1>8. ASSUME NEW c \in Consoles, Shell!Refuse(c) PROVE RequestInv'
  BY <1>8, HolderFacts DEF Shell!Refuse, Shell!At, Shell!Finish, Shell!runtime, Shell!worker,
     RequestInv, ShellInv,
     LockInv, PlaceTypes, LifecycleInv, Shell!CommandsArePinned
<1>9. ASSUME NEW c \in Consoles, Shell!Publish(c) PROVE RequestInv'
  BY <1>9, HolderFacts DEF Shell!Publish, Shell!At, Shell!Finish, Shell!runtime, Shell!worker,
     RequestInv, ShellInv,
     LockInv, PlaceTypes, LifecycleInv, Shell!CommandsArePinned
<1>10. ASSUME NEW c \in Consoles, Shell!RequestProcess(c) PROVE RequestInv'
  BY <1>10, HolderFacts DEF Shell!RequestProcess, Shell!At, Shell!To, Shell!mutexes,
     Shell!runtime, RequestInv, ShellInv,
     LockInv, PlaceTypes, LifecycleInv, Shell!CommandsArePinned
<1>11. ASSUME NEW c \in Consoles, Shell!Unlock(c) PROVE RequestInv'
  BY <1>11, HolderFacts DEF Shell!Unlock, Shell!At, Shell!To, Shell!runtime, Shell!worker,
     RequestInv, ShellInv, LockInv,
     PlaceTypes, LifecycleInv, Shell!CommandsArePinned
<1>12. CASE Shell!Tick
  BY <1>12, HolderFacts DEF Shell!Tick, Shell!mutexes, Shell!runtime, Shell!console, RequestInv,
     ShellInv, LockInv,
     PlaceTypes, LifecycleInv, Shell!CommandsArePinned
<1>13. CASE Shell!WorkerWakes
  BY <1>13, HolderFacts DEF Shell!WorkerWakes, Shell!mutexes, Shell!runtime, Shell!console,
     RequestInv, ShellInv,
     LockInv, PlaceTypes, LifecycleInv, Shell!CommandsArePinned
<1>14. CASE Shell!WorkerLocks
  BY <1>14, HolderFacts DEF Shell!WorkerLocks, Shell!worker, Shell!runtime, Shell!console,
     RequestInv, ShellInv,
     LockInv, PlaceTypes, LifecycleInv, Shell!CommandsArePinned
<1>15. CASE Shell!WorkerTakesOd
  BY <1>15, HolderFacts DEF Shell!WorkerTakesOd, Shell!worker, Shell!runtime, Shell!console,
     RequestInv, ShellInv,
     LockInv, PlaceTypes, LifecycleInv, Shell!CommandsArePinned
<1>16. CASE Shell!Pass
  BY <1>16, HolderFacts DEF Shell!Pass, Shell!HalfWritten, Shell!runtime, Shell!console,
     RequestInv, ShellInv,
     LockInv, PlaceTypes, LifecycleInv, Shell!CommandsArePinned
<1>17. CASE Shell!NetworkAccess
  BY <1>17, HolderFacts DEF Shell!NetworkAccess, Shell!HalfWritten, Shell!mutexes, Shell!runtime,
     Shell!console,
     Shell!worker, RequestInv, ShellInv, LockInv, PlaceTypes, LifecycleInv, Shell!CommandsArePinned
<1>18. CASE Shell!BringUp
  BY <1>18, HolderFacts DEF Shell!BringUp, Shell!mutexes, Shell!console, Shell!worker,
     RequestInv, ShellInv,
     LockInv, PlaceTypes, LifecycleInv, Shell!CommandsArePinned
<1>19. CASE Shell!RuntimeStart
  BY <1>19, HolderFacts DEF Shell!RuntimeStart, Shell!mutexes, Shell!console, Shell!worker,
     RequestInv, ShellInv,
     LockInv, PlaceTypes, LifecycleInv, Shell!CommandsArePinned
<1>20. CASE Shell!Reset
  BY <1>20, HolderFacts DEF Shell!Reset, Shell!LifeTakes, Shell!console, RequestInv, ShellInv,
     LockInv,
     PlaceTypes, LifecycleInv, Shell!CommandsArePinned
<1>21. CASE Shell!Teardown
  BY <1>21, HolderFacts DEF Shell!Teardown, Shell!LifeTakes, Shell!console, RequestInv, ShellInv,
     LockInv,
     PlaceTypes, LifecycleInv, Shell!CommandsArePinned
<1>22. CASE Shell!Stop
  BY <1>22, HolderFacts DEF Shell!Stop, Shell!mutexes, Shell!console, Shell!worker, RequestInv,
     ShellInv, LockInv,
     PlaceTypes, LifecycleInv, Shell!CommandsArePinned
<1>23. CASE Shell!Restart
  BY <1>23, HolderFacts DEF Shell!Restart, Shell!console, Shell!worker, RequestInv, ShellInv,
     LockInv,
     PlaceTypes, LifecycleInv, Shell!CommandsArePinned
<1>24. CASE Shell!RuntimeDeinit
  BY <1>24, HolderFacts DEF Shell!RuntimeDeinit, Shell!mutexes, Shell!console, Shell!worker,
     RequestInv, ShellInv,
     LockInv, PlaceTypes, LifecycleInv, Shell!CommandsArePinned
<1>25. CASE Shell!Detach
  BY <1>25, HolderFacts DEF Shell!Detach, Shell!console, RequestInv, ShellInv, LockInv, PlaceTypes,
     LifecycleInv, Shell!CommandsArePinned
<1>q. QED
  BY <1>0, <1>1, <1>2, <1>3, <1>4, <1>5, <1>6, <1>7, <1>8, <1>9, <1>10, <1>11, <1>12,
     <1>13, <1>14, <1>15, <1>16, <1>17, <1>18, <1>19, <1>20, <1>21, <1>22, <1>23, <1>24,
     <1>25 DEF Shell!Next, Shell!Console, Shell!Worker, Shell!Application, Shell!StopOrRestart

(* Every step leaves a command its runtime.                                *)
LEMMA PinnedStep ==
    ASSUME ShellInv, [Shell!Next]_(Shell!vars)
    PROVE  Shell!CommandsArePinned'
<1>0. CASE UNCHANGED Shell!vars
  BY <1>0 DEF Shell!vars, Shell!mutexes, Shell!runtime, Shell!console, Shell!worker,
     Shell!CommandsArePinned, ShellInv, LockInv,
     PlaceTypes, LifecycleInv, WithLifecycle
<1>1. ASSUME NEW c \in Consoles, Shell!Snapshot(c) PROVE Shell!CommandsArePinned'
  BY <1>1, HolderFacts DEF Shell!Snapshot, Shell!At, Shell!To, Shell!runtime, Shell!worker,
     Shell!CommandsArePinned, ShellInv,
     LockInv, PlaceTypes, LifecycleInv, WithLifecycle
<1>2. ASSUME NEW c \in Consoles, Shell!ReadApp(c) PROVE Shell!CommandsArePinned'
  BY <1>2, HolderFacts DEF Shell!ReadApp, Shell!At, Shell!GiveBack, Shell!To, Shell!runtime,
     Shell!worker,
     Shell!CommandsArePinned, ShellInv, LockInv, PlaceTypes, LifecycleInv, WithLifecycle
<1>3. ASSUME NEW c \in Consoles, Shell!TakeLifecycle(c) PROVE Shell!CommandsArePinned'
  BY <1>3, HolderFacts DEF Shell!TakeLifecycle, Shell!At, Shell!To, Shell!runtime, Shell!worker,
     Shell!CommandsArePinned,
     ShellInv, LockInv, PlaceTypes, LifecycleInv, WithLifecycle
<1>4. ASSUME NEW c \in Consoles, Shell!SnapshotAgain(c) PROVE Shell!CommandsArePinned'
  BY <1>4, HolderFacts DEF Shell!SnapshotAgain, Shell!At, Shell!To, Shell!runtime, Shell!worker,
     Shell!CommandsArePinned,
     ShellInv, LockInv, PlaceTypes, LifecycleInv, WithLifecycle
<1>5. ASSUME NEW c \in Consoles, Shell!Revalidate(c) PROVE Shell!CommandsArePinned'
  BY <1>5, HolderFacts DEF Shell!Revalidate, Shell!At, Shell!Valid, Shell!To, Shell!runtime,
     Shell!worker,
     Shell!CommandsArePinned, ShellInv, LockInv, PlaceTypes, LifecycleInv, WithLifecycle
<1>6. ASSUME NEW c \in Consoles, Shell!TakeOd(c) PROVE Shell!CommandsArePinned'
  BY <1>6, HolderFacts DEF Shell!TakeOd, Shell!At, Shell!OdLock, Shell!runtime, Shell!worker,
     Shell!CommandsArePinned, ShellInv,
     LockInv, PlaceTypes, LifecycleInv, WithLifecycle
<1>7. ASSUME NEW c \in Consoles, Shell!Write(c) PROVE Shell!CommandsArePinned'
  BY <1>7, HolderFacts DEF Shell!Write, Shell!At, Shell!mutexes, Shell!runtime, Shell!worker,
     Shell!CommandsArePinned, ShellInv,
     LockInv, PlaceTypes, LifecycleInv, WithLifecycle
<1>8. ASSUME NEW c \in Consoles, Shell!Refuse(c) PROVE Shell!CommandsArePinned'
  BY <1>8, HolderFacts DEF Shell!Refuse, Shell!At, Shell!Finish, Shell!runtime, Shell!worker,
     Shell!CommandsArePinned, ShellInv,
     LockInv, PlaceTypes, LifecycleInv, WithLifecycle
<1>9. ASSUME NEW c \in Consoles, Shell!Publish(c) PROVE Shell!CommandsArePinned'
  BY <1>9, HolderFacts DEF Shell!Publish, Shell!At, Shell!Finish, Shell!runtime, Shell!worker,
     Shell!CommandsArePinned,
     ShellInv, LockInv, PlaceTypes, LifecycleInv, WithLifecycle
<1>10. ASSUME NEW c \in Consoles, Shell!RequestProcess(c) PROVE Shell!CommandsArePinned'
  BY <1>10, HolderFacts DEF Shell!RequestProcess, Shell!At, Shell!To, Shell!mutexes,
     Shell!runtime, Shell!CommandsArePinned,
     ShellInv, LockInv, PlaceTypes, LifecycleInv, WithLifecycle
<1>11. ASSUME NEW c \in Consoles, Shell!Unlock(c) PROVE Shell!CommandsArePinned'
  BY <1>11, HolderFacts DEF Shell!Unlock, Shell!At, Shell!To, Shell!runtime, Shell!worker,
     Shell!CommandsArePinned, ShellInv,
     LockInv, PlaceTypes, LifecycleInv, WithLifecycle
<1>12. CASE Shell!Tick
  BY <1>12, HolderFacts DEF Shell!Tick, Shell!mutexes, Shell!runtime, Shell!console,
     Shell!CommandsArePinned, ShellInv,
     LockInv, PlaceTypes, LifecycleInv, WithLifecycle
<1>13. CASE Shell!WorkerWakes
  BY <1>13, HolderFacts DEF Shell!WorkerWakes, Shell!mutexes, Shell!runtime, Shell!console,
     Shell!CommandsArePinned,
     ShellInv, LockInv, PlaceTypes, LifecycleInv, WithLifecycle
<1>14. CASE Shell!WorkerLocks
  BY <1>14, HolderFacts DEF Shell!WorkerLocks, Shell!worker, Shell!runtime, Shell!console,
     Shell!CommandsArePinned,
     ShellInv, LockInv, PlaceTypes, LifecycleInv, WithLifecycle
<1>15. CASE Shell!WorkerTakesOd
  BY <1>15, HolderFacts DEF Shell!WorkerTakesOd, Shell!worker, Shell!runtime, Shell!console,
     Shell!CommandsArePinned,
     ShellInv, LockInv, PlaceTypes, LifecycleInv, WithLifecycle
<1>16. CASE Shell!Pass
  BY <1>16, HolderFacts DEF Shell!Pass, Shell!HalfWritten, Shell!runtime, Shell!console,
     Shell!CommandsArePinned,
     ShellInv, LockInv, PlaceTypes, LifecycleInv, WithLifecycle
<1>17. CASE Shell!NetworkAccess
  BY <1>17, HolderFacts DEF Shell!NetworkAccess, Shell!HalfWritten, Shell!mutexes, Shell!runtime,
     Shell!console,
     Shell!worker, Shell!CommandsArePinned, ShellInv, LockInv, PlaceTypes, LifecycleInv,
     WithLifecycle
<1>18. CASE Shell!BringUp
  BY <1>18, HolderFacts DEF Shell!BringUp, Shell!mutexes, Shell!console, Shell!worker,
     Shell!CommandsArePinned, ShellInv,
     LockInv, PlaceTypes, LifecycleInv, WithLifecycle
<1>19. CASE Shell!RuntimeStart
  BY <1>19, HolderFacts DEF Shell!RuntimeStart, Shell!mutexes, Shell!console, Shell!worker,
     Shell!CommandsArePinned,
     ShellInv, LockInv, PlaceTypes, LifecycleInv, WithLifecycle
<1>20. CASE Shell!Reset
  BY <1>20, HolderFacts DEF Shell!Reset, Shell!LifeTakes, Shell!console, Shell!CommandsArePinned,
     ShellInv, LockInv,
     PlaceTypes, LifecycleInv, WithLifecycle
<1>21. CASE Shell!Teardown
  BY <1>21, HolderFacts DEF Shell!Teardown, Shell!LifeTakes, Shell!console,
     Shell!CommandsArePinned, ShellInv,
     LockInv, PlaceTypes, LifecycleInv, WithLifecycle
<1>22. CASE Shell!Stop
  BY <1>22, HolderFacts DEF Shell!Stop, Shell!mutexes, Shell!console, Shell!worker,
     Shell!CommandsArePinned, ShellInv,
     LockInv, PlaceTypes, LifecycleInv, WithLifecycle
<1>23. CASE Shell!Restart
  BY <1>23, HolderFacts DEF Shell!Restart, Shell!console, Shell!worker, Shell!CommandsArePinned,
     ShellInv, LockInv,
     PlaceTypes, LifecycleInv, WithLifecycle
<1>24. CASE Shell!RuntimeDeinit
  BY <1>24, HolderFacts DEF Shell!RuntimeDeinit, Shell!mutexes, Shell!console, Shell!worker,
     Shell!CommandsArePinned,
     ShellInv, LockInv, PlaceTypes, LifecycleInv, WithLifecycle
<1>25. CASE Shell!Detach
  BY <1>25, HolderFacts DEF Shell!Detach, Shell!console, Shell!CommandsArePinned, ShellInv, LockInv,
     PlaceTypes, LifecycleInv, WithLifecycle
<1>q. QED
  BY <1>0, <1>1, <1>2, <1>3, <1>4, <1>5, <1>6, <1>7, <1>8, <1>9, <1>10, <1>11, <1>12,
     <1>13, <1>14, <1>15, <1>16, <1>17, <1>18, <1>19, <1>20, <1>21, <1>22, <1>23, <1>24,
     <1>25 DEF Shell!Next, Shell!Console, Shell!Worker, Shell!Application, Shell!StopOrRestart

(* Nobody reads half a command.                                            *)
LEMMA WholeStep ==
    ASSUME ShellInv, [Shell!Next]_(Shell!vars)
    PROVE  Shell!CommandsAreWhole'
<1>0. CASE UNCHANGED Shell!vars
  BY <1>0 DEF Shell!vars, Shell!mutexes, Shell!runtime, Shell!console, Shell!worker,
     Shell!CommandsAreWhole, ShellInv, LockInv,
     PlaceTypes, OdInv, WrittenInv
<1>1. ASSUME NEW c \in Consoles, Shell!Snapshot(c) PROVE Shell!CommandsAreWhole'
  BY <1>1, HolderFacts DEF Shell!Snapshot, Shell!At, Shell!To, Shell!runtime, Shell!worker,
     Shell!CommandsAreWhole, ShellInv,
     LockInv, PlaceTypes, OdInv, WrittenInv
<1>2. ASSUME NEW c \in Consoles, Shell!ReadApp(c) PROVE Shell!CommandsAreWhole'
  BY <1>2, HolderFacts DEF Shell!ReadApp, Shell!At, Shell!GiveBack, Shell!To, Shell!runtime,
     Shell!worker, Shell!CommandsAreWhole,
     ShellInv, LockInv, PlaceTypes, OdInv, WrittenInv
<1>3. ASSUME NEW c \in Consoles, Shell!TakeLifecycle(c) PROVE Shell!CommandsAreWhole'
  BY <1>3, HolderFacts DEF Shell!TakeLifecycle, Shell!At, Shell!To, Shell!runtime, Shell!worker,
     Shell!CommandsAreWhole,
     ShellInv, LockInv, PlaceTypes, OdInv, WrittenInv
<1>4. ASSUME NEW c \in Consoles, Shell!SnapshotAgain(c) PROVE Shell!CommandsAreWhole'
  BY <1>4, HolderFacts DEF Shell!SnapshotAgain, Shell!At, Shell!To, Shell!runtime, Shell!worker,
     Shell!CommandsAreWhole,
     ShellInv, LockInv, PlaceTypes, OdInv, WrittenInv
<1>5. ASSUME NEW c \in Consoles, Shell!Revalidate(c) PROVE Shell!CommandsAreWhole'
  BY <1>5, HolderFacts DEF Shell!Revalidate, Shell!At, Shell!Valid, Shell!To, Shell!runtime,
     Shell!worker, Shell!CommandsAreWhole,
     ShellInv, LockInv, PlaceTypes, OdInv, WrittenInv
<1>6. ASSUME NEW c \in Consoles, Shell!TakeOd(c) PROVE Shell!CommandsAreWhole'
  BY <1>6, HolderFacts DEF Shell!TakeOd, Shell!At, Shell!OdLock, Shell!runtime, Shell!worker,
     Shell!CommandsAreWhole, ShellInv,
     LockInv, PlaceTypes, OdInv, WrittenInv
<1>7. ASSUME NEW c \in Consoles, Shell!Write(c) PROVE Shell!CommandsAreWhole'
  BY <1>7, HolderFacts DEF Shell!Write, Shell!At, Shell!mutexes, Shell!runtime, Shell!worker,
     Shell!CommandsAreWhole, ShellInv,
     LockInv, PlaceTypes, OdInv, WrittenInv
<1>8. ASSUME NEW c \in Consoles, Shell!Refuse(c) PROVE Shell!CommandsAreWhole'
  BY <1>8, HolderFacts DEF Shell!Refuse, Shell!At, Shell!Finish, Shell!runtime, Shell!worker,
     Shell!CommandsAreWhole, ShellInv,
     LockInv, PlaceTypes, OdInv, WrittenInv
<1>9. ASSUME NEW c \in Consoles, Shell!Publish(c) PROVE Shell!CommandsAreWhole'
  BY <1>9, HolderFacts DEF Shell!Publish, Shell!At, Shell!Finish, Shell!runtime, Shell!worker,
     Shell!CommandsAreWhole, ShellInv,
     LockInv, PlaceTypes, OdInv, WrittenInv
<1>10. ASSUME NEW c \in Consoles, Shell!RequestProcess(c) PROVE Shell!CommandsAreWhole'
  BY <1>10, HolderFacts DEF Shell!RequestProcess, Shell!At, Shell!To, Shell!mutexes,
     Shell!runtime, Shell!CommandsAreWhole,
     ShellInv, LockInv, PlaceTypes, OdInv, WrittenInv
<1>11. ASSUME NEW c \in Consoles, Shell!Unlock(c) PROVE Shell!CommandsAreWhole'
  BY <1>11, HolderFacts DEF Shell!Unlock, Shell!At, Shell!To, Shell!runtime, Shell!worker,
     Shell!CommandsAreWhole, ShellInv,
     LockInv, PlaceTypes, OdInv, WrittenInv
<1>12. CASE Shell!Tick
  BY <1>12, HolderFacts DEF Shell!Tick, Shell!mutexes, Shell!runtime, Shell!console,
     Shell!CommandsAreWhole, ShellInv,
     LockInv, PlaceTypes, OdInv, WrittenInv
<1>13. CASE Shell!WorkerWakes
  BY <1>13, HolderFacts DEF Shell!WorkerWakes, Shell!mutexes, Shell!runtime, Shell!console,
     Shell!CommandsAreWhole,
     ShellInv, LockInv, PlaceTypes, OdInv, WrittenInv
<1>14. CASE Shell!WorkerLocks
  BY <1>14, HolderFacts DEF Shell!WorkerLocks, Shell!worker, Shell!runtime, Shell!console,
     Shell!CommandsAreWhole,
     ShellInv, LockInv, PlaceTypes, OdInv, WrittenInv
<1>15. CASE Shell!WorkerTakesOd
  BY <1>15, HolderFacts DEF Shell!WorkerTakesOd, Shell!worker, Shell!runtime, Shell!console,
     Shell!CommandsAreWhole,
     ShellInv, LockInv, PlaceTypes, OdInv, WrittenInv
<1>16. CASE Shell!Pass
  BY <1>16, HolderFacts DEF Shell!Pass, Shell!HalfWritten, Shell!runtime, Shell!console,
     Shell!CommandsAreWhole, ShellInv,
     LockInv, PlaceTypes, OdInv, WrittenInv
<1>17. CASE Shell!NetworkAccess
  BY <1>17, HolderFacts DEF Shell!NetworkAccess, Shell!HalfWritten, Shell!mutexes, Shell!runtime,
     Shell!console,
     Shell!worker, Shell!CommandsAreWhole, ShellInv, LockInv, PlaceTypes, OdInv, WrittenInv
<1>18. CASE Shell!BringUp
  BY <1>18, HolderFacts DEF Shell!BringUp, Shell!mutexes, Shell!console, Shell!worker,
     Shell!CommandsAreWhole, ShellInv,
     LockInv, PlaceTypes, OdInv, WrittenInv
<1>19. CASE Shell!RuntimeStart
  BY <1>19, HolderFacts DEF Shell!RuntimeStart, Shell!mutexes, Shell!console, Shell!worker,
     Shell!CommandsAreWhole,
     ShellInv, LockInv, PlaceTypes, OdInv, WrittenInv
<1>20. CASE Shell!Reset
  BY <1>20, HolderFacts DEF Shell!Reset, Shell!LifeTakes, Shell!console, Shell!CommandsAreWhole,
     ShellInv, LockInv,
     PlaceTypes, OdInv, WrittenInv
<1>21. CASE Shell!Teardown
  BY <1>21, HolderFacts DEF Shell!Teardown, Shell!LifeTakes, Shell!console,
     Shell!CommandsAreWhole, ShellInv,
     LockInv, PlaceTypes, OdInv, WrittenInv
<1>22. CASE Shell!Stop
  BY <1>22, HolderFacts DEF Shell!Stop, Shell!mutexes, Shell!console, Shell!worker,
     Shell!CommandsAreWhole, ShellInv,
     LockInv, PlaceTypes, OdInv, WrittenInv
<1>23. CASE Shell!Restart
  BY <1>23, HolderFacts DEF Shell!Restart, Shell!console, Shell!worker, Shell!CommandsAreWhole,
     ShellInv, LockInv,
     PlaceTypes, OdInv, WrittenInv
<1>24. CASE Shell!RuntimeDeinit
  BY <1>24, HolderFacts DEF Shell!RuntimeDeinit, Shell!mutexes, Shell!console, Shell!worker,
     Shell!CommandsAreWhole,
     ShellInv, LockInv, PlaceTypes, OdInv, WrittenInv
<1>25. CASE Shell!Detach
  BY <1>25, HolderFacts DEF Shell!Detach, Shell!console, Shell!CommandsAreWhole, ShellInv, LockInv,
     PlaceTypes, OdInv, WrittenInv
<1>q. QED
  BY <1>0, <1>1, <1>2, <1>3, <1>4, <1>5, <1>6, <1>7, <1>8, <1>9, <1>10, <1>11, <1>12,
     <1>13, <1>14, <1>15, <1>16, <1>17, <1>18, <1>19, <1>20, <1>21, <1>22, <1>23, <1>24,
     <1>25 DEF Shell!Next, Shell!Console, Shell!Worker, Shell!Application, Shell!StopOrRestart

(* A request has a pass ahead of it.                                       *)
LEMMA ProcessedStep ==
    ASSUME ShellInv, [Shell!Next]_(Shell!vars)
    PROVE  Shell!CommandsAreProcessed'
<1>0. CASE UNCHANGED Shell!vars
  BY <1>0 DEF Shell!vars, Shell!mutexes, Shell!runtime, Shell!console, Shell!worker,
     Shell!CommandsAreProcessed, ShellInv,
     LockInv, PlaceTypes, RequestInv
<1>1. ASSUME NEW c \in Consoles, Shell!Snapshot(c) PROVE Shell!CommandsAreProcessed'
  BY <1>1, HolderFacts DEF Shell!Snapshot, Shell!At, Shell!To, Shell!runtime, Shell!worker,
     Shell!CommandsAreProcessed,
     ShellInv, LockInv, PlaceTypes, RequestInv
<1>2. ASSUME NEW c \in Consoles, Shell!ReadApp(c) PROVE Shell!CommandsAreProcessed'
  BY <1>2, HolderFacts DEF Shell!ReadApp, Shell!At, Shell!GiveBack, Shell!To, Shell!runtime,
     Shell!worker,
     Shell!CommandsAreProcessed, ShellInv, LockInv, PlaceTypes, RequestInv
<1>3. ASSUME NEW c \in Consoles, Shell!TakeLifecycle(c) PROVE Shell!CommandsAreProcessed'
  BY <1>3, HolderFacts DEF Shell!TakeLifecycle, Shell!At, Shell!To, Shell!runtime, Shell!worker,
     Shell!CommandsAreProcessed,
     ShellInv, LockInv, PlaceTypes, RequestInv
<1>4. ASSUME NEW c \in Consoles, Shell!SnapshotAgain(c) PROVE Shell!CommandsAreProcessed'
  BY <1>4, HolderFacts DEF Shell!SnapshotAgain, Shell!At, Shell!To, Shell!runtime, Shell!worker,
     Shell!CommandsAreProcessed,
     ShellInv, LockInv, PlaceTypes, RequestInv
<1>5. ASSUME NEW c \in Consoles, Shell!Revalidate(c) PROVE Shell!CommandsAreProcessed'
  BY <1>5, HolderFacts DEF Shell!Revalidate, Shell!At, Shell!Valid, Shell!To, Shell!runtime,
     Shell!worker,
     Shell!CommandsAreProcessed, ShellInv, LockInv, PlaceTypes, RequestInv
<1>6. ASSUME NEW c \in Consoles, Shell!TakeOd(c) PROVE Shell!CommandsAreProcessed'
  BY <1>6, HolderFacts DEF Shell!TakeOd, Shell!At, Shell!OdLock, Shell!runtime, Shell!worker,
     Shell!CommandsAreProcessed,
     ShellInv, LockInv, PlaceTypes, RequestInv
<1>7. ASSUME NEW c \in Consoles, Shell!Write(c) PROVE Shell!CommandsAreProcessed'
  BY <1>7, HolderFacts DEF Shell!Write, Shell!At, Shell!mutexes, Shell!runtime, Shell!worker,
     Shell!CommandsAreProcessed,
     ShellInv, LockInv, PlaceTypes, RequestInv
<1>8. ASSUME NEW c \in Consoles, Shell!Refuse(c) PROVE Shell!CommandsAreProcessed'
  BY <1>8, HolderFacts DEF Shell!Refuse, Shell!At, Shell!Finish, Shell!runtime, Shell!worker,
     Shell!CommandsAreProcessed,
     ShellInv, LockInv, PlaceTypes, RequestInv
<1>9. ASSUME NEW c \in Consoles, Shell!Publish(c) PROVE Shell!CommandsAreProcessed'
  BY <1>9, HolderFacts DEF Shell!Publish, Shell!At, Shell!Finish, Shell!runtime, Shell!worker,
     Shell!CommandsAreProcessed,
     ShellInv, LockInv, PlaceTypes, RequestInv
<1>10. ASSUME NEW c \in Consoles, Shell!RequestProcess(c) PROVE Shell!CommandsAreProcessed'
  BY <1>10, HolderFacts DEF Shell!RequestProcess, Shell!At, Shell!To, Shell!mutexes, Shell!runtime,
     Shell!CommandsAreProcessed, ShellInv, LockInv, PlaceTypes, RequestInv
<1>11. ASSUME NEW c \in Consoles, Shell!Unlock(c) PROVE Shell!CommandsAreProcessed'
  BY <1>11, HolderFacts DEF Shell!Unlock, Shell!At, Shell!To, Shell!runtime, Shell!worker,
     Shell!CommandsAreProcessed, ShellInv,
     LockInv, PlaceTypes, RequestInv
<1>12. CASE Shell!Tick
  BY <1>12, HolderFacts DEF Shell!Tick, Shell!mutexes, Shell!runtime, Shell!console,
     Shell!CommandsAreProcessed, ShellInv,
     LockInv, PlaceTypes, RequestInv
<1>13. CASE Shell!WorkerWakes
  BY <1>13, HolderFacts DEF Shell!WorkerWakes, Shell!mutexes, Shell!runtime, Shell!console,
     Shell!CommandsAreProcessed, ShellInv, LockInv, PlaceTypes, RequestInv
<1>14. CASE Shell!WorkerLocks
  BY <1>14, HolderFacts DEF Shell!WorkerLocks, Shell!worker, Shell!runtime, Shell!console,
     Shell!CommandsAreProcessed,
     ShellInv, LockInv, PlaceTypes, RequestInv
<1>15. CASE Shell!WorkerTakesOd
  BY <1>15, HolderFacts DEF Shell!WorkerTakesOd, Shell!worker, Shell!runtime, Shell!console,
     Shell!CommandsAreProcessed, ShellInv, LockInv, PlaceTypes, RequestInv
<1>16. CASE Shell!Pass
  BY <1>16, HolderFacts DEF Shell!Pass, Shell!HalfWritten, Shell!runtime, Shell!console,
     Shell!CommandsAreProcessed,
     ShellInv, LockInv, PlaceTypes, RequestInv
<1>17. CASE Shell!NetworkAccess
  BY <1>17, HolderFacts DEF Shell!NetworkAccess, Shell!HalfWritten, Shell!mutexes, Shell!runtime,
     Shell!console,
     Shell!worker, Shell!CommandsAreProcessed, ShellInv, LockInv, PlaceTypes, RequestInv
<1>18. CASE Shell!BringUp
  BY <1>18, HolderFacts DEF Shell!BringUp, Shell!mutexes, Shell!console, Shell!worker,
     Shell!CommandsAreProcessed,
     ShellInv, LockInv, PlaceTypes, RequestInv
<1>19. CASE Shell!RuntimeStart
  BY <1>19, HolderFacts DEF Shell!RuntimeStart, Shell!mutexes, Shell!console, Shell!worker,
     Shell!CommandsAreProcessed, ShellInv, LockInv, PlaceTypes, RequestInv
<1>20. CASE Shell!Reset
  BY <1>20, HolderFacts DEF Shell!Reset, Shell!LifeTakes, Shell!console,
     Shell!CommandsAreProcessed, ShellInv,
     LockInv, PlaceTypes, RequestInv
<1>21. CASE Shell!Teardown
  BY <1>21, HolderFacts DEF Shell!Teardown, Shell!LifeTakes, Shell!console,
     Shell!CommandsAreProcessed, ShellInv,
     LockInv, PlaceTypes, RequestInv
<1>22. CASE Shell!Stop
  BY <1>22, HolderFacts DEF Shell!Stop, Shell!mutexes, Shell!console, Shell!worker,
     Shell!CommandsAreProcessed, ShellInv,
     LockInv, PlaceTypes, RequestInv
<1>23. CASE Shell!Restart
  BY <1>23, HolderFacts DEF Shell!Restart, Shell!console, Shell!worker,
     Shell!CommandsAreProcessed, ShellInv,
     LockInv, PlaceTypes, RequestInv
<1>24. CASE Shell!RuntimeDeinit
  BY <1>24, HolderFacts DEF Shell!RuntimeDeinit, Shell!mutexes, Shell!console, Shell!worker,
     Shell!CommandsAreProcessed, ShellInv, LockInv, PlaceTypes, RequestInv
<1>25. CASE Shell!Detach
  BY <1>25, HolderFacts DEF Shell!Detach, Shell!console, Shell!CommandsAreProcessed, ShellInv,
     LockInv,
     PlaceTypes, RequestInv
<1>q. QED
  BY <1>0, <1>1, <1>2, <1>3, <1>4, <1>5, <1>6, <1>7, <1>8, <1>9, <1>10, <1>11, <1>12,
     <1>13, <1>14, <1>15, <1>16, <1>17, <1>18, <1>19, <1>20, <1>21, <1>22, <1>23, <1>24,
     <1>25 DEF Shell!Next, Shell!Console, Shell!Worker, Shell!Application, Shell!StopOrRestart

LEMMA ShellStarts == Shell!Init => ShellInv
<1> SUFFICES ASSUME Shell!Init PROVE ShellInv
  OBVIOUS
<1>1. PlaceTypes
  BY DEF Shell!Init, PlaceTypes, ConsolePlaces
<1>q. QED
  BY <1>1, HolderFacts DEF Shell!Init, ShellInv, LockInv, BindingInv, LifecycleInv, OdInv,
     WrittenInv, RequestInv,
     Shell!CommandsArePinned, Shell!CommandsAreWhole, Shell!CommandsAreProcessed, WithLifecycle

LEMMA ShellInvariant == Spec => []ShellInv
<1>1. ShellInv /\ [Shell!Next]_(Shell!vars) => ShellInv'
  BY PlaceTypesStep, BindingStep, LifecycleStep, OdStep, WrittenStep, RequestStep, PinnedStep,
     WholeStep, ProcessedStep DEF ShellInv, LockInv
<1>q. QED
  BY <1>1, ShellStarts, Starts, Steps, PTL DEF Spec

(* Whoever holds the OD mutex or the binding mutex waits for nothing, and  *)
(* whoever holds lifecycleMutex waits for one of those at most.            *)
LEMMA NoCircle == ShellInv => Shell!NoCircularWait
<1> SUFFICES ASSUME ShellInv, NEW S \in SUBSET Shell!Agents, S # {}, \A a \in S :
    Shell!Holder(a) \in S \ {a}
             PROVE  FALSE
  BY DEF Shell!NoCircularWait
<1>0. Nobody \notin S
  BY HolderFacts DEF Shell!Agents
<1>1. od \notin S
  <2>1. CASE od \in Consoles
    <3>1. pc[od] = "work"
      BY <2>1 DEF ShellInv, LockInv, OdInv
    <3>2. Shell!Holder(od) = Nobody
      BY <2>1, <3>1, HolderFacts DEF Shell!Holder
    <3>q. QED
      BY <1>0, <3>2
  <2>2. CASE od = "worker"
    <3>1. workerPc = "pass"
      BY <2>2 DEF ShellInv, LockInv, OdInv
    <3>2. Shell!Holder(od) = Nobody
      BY <2>2, <3>1 DEF Shell!Holder
    <3>q. QED
      BY <1>0, <3>2
  <2>q. QED
    BY <1>0, <2>1, <2>2 DEF ShellInv, LockInv, PlaceTypes
<1>2. binding \notin S
  <2>1. CASE binding \in Consoles
    <3>1. pc[binding] \in {"snapshot", "revalidate"}
      BY <2>1 DEF ShellInv, LockInv, BindingInv
    <3>2. Shell!Holder(binding) = Nobody
      BY <2>1, <3>1, HolderFacts DEF Shell!Holder
    <3>q. QED
      BY <1>0, <3>2
  <2>q. QED
    BY <1>0, <2>1 DEF ShellInv, LockInv, PlaceTypes
<1>3. lifecycle \notin S
  <2>1. CASE lifecycle \in Consoles
    <3>1. pc[lifecycle] \in WithLifecycle
      BY <2>1 DEF ShellInv, LockInv, LifecycleInv
    <3>2. Shell!Holder(lifecycle) \in {binding, od, Nobody}
      BY <2>1, <3>1, HolderFacts DEF Shell!Holder, WithLifecycle
    <3>q. QED
      BY <1>0, <1>1, <1>2, <3>2
  <2>2. CASE lifecycle = "worker"
    <3>1. workerPc \in {"od", "pass"}
      BY <2>2 DEF ShellInv, LockInv, LifecycleInv
    <3>2. Shell!Holder(lifecycle) \in {od, Nobody}
      BY <2>2, <3>1 DEF Shell!Holder
    <3>q. QED
      BY <1>0, <1>1, <3>2
  <2>3. CASE lifecycle = "life"
    <3>1. Shell!Holder(lifecycle) \in {od, binding, Nobody}
      BY <2>3 DEF Shell!Holder
    <3>q. QED
      BY <1>0, <1>1, <1>2, <3>1
  <2>q. QED
    BY <1>0, <2>1, <2>2, <2>3 DEF ShellInv, LockInv, PlaceTypes
<1>4. PICK a \in S : TRUE
  OBVIOUS
<1>5. Shell!Holder(a) \in {od, binding, lifecycle, Nobody}
  BY DEF Shell!Holder
<1>q. QED
  BY <1>0, <1>1, <1>2, <1>3, <1>4, <1>5

(* A command pins what it works on, is seen whole, is processed, and never *)
(* waits in a circle with the worker and the teardown                      *)
(* (CO_401_device_RTT_msh.c:194, CO_402_device_RTT_msh.c:221).             *)
THEOREM ShellSafe == Spec => []Shell!ShellIsSafe
<1>1. ShellInv => Shell!ShellIsSafe
  BY NoCircle DEF ShellInv, Shell!ShellIsSafe
<1>q. QED
  BY <1>1, ShellInvariant, PTL

-----------------------------------------------------------------------------
(***************************************************************************)
(* Proofs about ShellArguments.  As long as the text goes on, the register *)
(* holds the number it denotes.                                            *)
(***************************************************************************)

NumberTypes ==
    /\ range \in Ranges
    /\ base \in {Argument!Decimal, Argument!Hexadecimal}
    /\ parsed \in 0..MaxNumber
    /\ exact \in 0..(MaxNumber + 1)

(* The register is exact, and a minus sign was allowed, until the parser   *)
(* is done.                                                                *)
RegisterInv ==
    /\ at # "done" => parsed = exact /\ ~malformed
    /\ at # "done" /\ negative => range.signed

ArgumentInv == NumberTypes /\ RegisterInv /\ Argument!ArgumentsAreExact

(* The ranges of the callers fit the register.                             *)
LEMMA RangeFacts ==
    ASSUME NumberTypes
    PROVE  /\ MaxNumber \in Nat /\ Half \in Nat /\ MaxNumber > Half + 1
           /\ range.signed \in BOOLEAN /\ range.low \in Int /\ range.high \in Int
           /\ range.signed => range.low >= -Half - 1 /\ range.high <= Half
           /\ ~range.signed => range.low = 0 /\ range.high <= MaxNumber
BY ProfilesAssumption DEF NumberTypes, Argument!ShellArgumentsAssumption

(* Dividing tells exactly which digits still fit.                          *)
LEMMA TenFits ==
    ASSUME NEW m \in Nat, NEW p \in Nat, NEW d \in 0..15
    PROVE  p > (m - d) \div 10 <=> p * 10 + d > m
OBVIOUS

LEMMA SixteenFits ==
    ASSUME NEW m \in Nat, NEW p \in Nat, NEW d \in 0..15
    PROVE  p > (m - d) \div 16 <=> p * 16 + d > m
OBVIOUS

(* A number that fits the register is not wrapped.                         *)
LEMMA Unwrapped ==
    ASSUME NEW m \in Nat, NEW x \in 0..m
    PROVE  x % (m + 1) = x
OBVIOUS

LEMMA DigitStep ==
    ASSUME ArgumentInv, NEW digit \in 0 .. Argument!Hexadecimal - 1, Argument!Digit(digit)
    PROVE  ArgumentInv'
<1> DEFINE next == parsed * base + digit
<1>1. /\ digit \in 0..15 /\ digit \in Nat /\ parsed \in Nat /\ base \in {10, 16} /\
         MaxNumber \in Nat
      /\ exact = parsed /\ ~malformed /\ (negative => range.signed)
  BY RangeFacts DEF Argument!Digit, ArgumentInv, NumberTypes, RegisterInv, Argument!Decimal,
     Argument!Hexadecimal
<1>2. Argument!Overflows(digit) <=> next > MaxNumber
  <2>1. CASE base = 10
    BY <1>1, <2>1, TenFits DEF Argument!Overflows
  <2>2. CASE base = 16
    BY <1>1, <2>2, SixteenFits DEF Argument!Overflows
  <2>q. QED
    BY <1>1, <2>1, <2>2
<1>3. next \in Nat
  <2>1. CASE base = 10
    BY <1>1, <2>1
  <2>2. CASE base = 16
    BY <1>1, <2>2
  <2>q. QED
    BY <1>1, <2>1, <2>2
<1>4. exact' = IF next > MaxNumber THEN MaxNumber + 1 ELSE next
  BY <1>1 DEF Argument!Digit
<1>5. UNCHANGED <<range, negative, base, malformed>>
  BY DEF Argument!Digit
<1> HIDE DEF next
<1>6. CASE next > MaxNumber
  <2>1. at' = "done" /\ result' = Argument!Rejected /\ parsed' = parsed /\ exact' = MaxNumber + 1
    BY <1>2, <1>4, <1>6 DEF Argument!Digit, Argument!Reject
  <2>q. QED
    BY <1>1, <1>5, <2>1 DEF ArgumentInv, NumberTypes, RegisterInv, Argument!ArgumentsAreExact,
       Argument!InRange
<1>7. CASE ~(next > MaxNumber)
  <2>1. at' = "digits" /\ parsed' = next % (MaxNumber + 1) /\ exact' = next
    BY <1>2, <1>4, <1>7 DEF Argument!Digit, next
  <2>2. next \in 0..MaxNumber
    BY <1>1, <1>3, <1>7
  <2>3. parsed' = next
    BY <2>1, <2>2, <1>1, Unwrapped
  <2>q. QED
    BY <1>1, <1>5, <2>1, <2>2, <2>3
       DEF ArgumentInv, NumberTypes, RegisterInv, Argument!ArgumentsAreExact
<1>q. QED
  BY <1>6, <1>7

LEMMA EndStep == ASSUME ArgumentInv, Argument!End PROVE ArgumentInv'
<1>1. /\ at' = "done" /\ malformed' = ~hasDigit /\ UNCHANGED Argument!text
      /\ at # "done" /\ parsed = exact /\ (negative => range.signed)
  BY DEF Argument!End, ArgumentInv, RegisterInv
<1>2. /\ MaxNumber \in Nat /\ Half \in Nat /\ MaxNumber > Half + 1 /\ exact \in 0..MaxNumber
      /\ range.signed \in BOOLEAN /\ range.low \in Int /\ range.high \in Int
      /\ range.signed => range.low >= -Half - 1 /\ range.high <= Half
      /\ ~range.signed => range.low = 0 /\ range.high <= MaxNumber
  BY <1>1, RangeFacts DEF ArgumentInv, NumberTypes
<1>3. (IF range.signed THEN Argument!LongAccepted ELSE Argument!UnsignedAccepted) <=> Argument!InRange
  BY <1>1, <1>2 DEF Argument!LongAccepted, Argument!UnsignedAccepted, Argument!InRange,
     Argument!Signed
<1>4. result' = IF hasDigit /\ Argument!InRange THEN Argument!Signed(exact) ELSE Argument!Rejected
  BY <1>1, <1>3 DEF Argument!End
<1>5. Argument!InRange' = Argument!InRange /\ Argument!Signed(exact)' = Argument!Signed(exact)
  BY <1>1 DEF Argument!InRange, Argument!Signed, Argument!text
<1>6. Argument!ArgumentsAreExact'
  BY <1>1, <1>4, <1>5 DEF Argument!ArgumentsAreExact, Argument!text, Argument!Rejected
<1>q. QED
  BY <1>1, <1>6 DEF ArgumentInv, NumberTypes, RegisterInv, Argument!text

LEMMA ArgumentStep == ArgumentInv /\ [Argument!Next]_(Argument!vars) => ArgumentInv'
<1> SUFFICES ASSUME ArgumentInv, [Argument!Next]_(Argument!vars) PROVE ArgumentInv'
  OBVIOUS
<1>1. CASE UNCHANGED Argument!vars
  BY <1>1 DEF Argument!vars, ArgumentInv, NumberTypes, RegisterInv, Argument!ArgumentsAreExact,
     Argument!InRange, Argument!Signed, Argument!Rejected
<1>2. CASE Argument!Sign
  BY <1>2 DEF Argument!Sign, Argument!Reject, ArgumentInv, NumberTypes, RegisterInv,
     Argument!ArgumentsAreExact, Argument!Rejected
<1>3. CASE Argument!Prefix
  BY <1>3 DEF Argument!Prefix, ArgumentInv, NumberTypes, RegisterInv, Argument!ArgumentsAreExact,
     Argument!Decimal, Argument!Hexadecimal
<1>4. CASE Argument!Stray
  BY <1>4 DEF Argument!Stray, Argument!Reject, Argument!text, ArgumentInv, NumberTypes,
     RegisterInv, Argument!ArgumentsAreExact, Argument!Rejected
<1>q. QED
  BY <1>1, <1>2, <1>3, <1>4, EndStep, DigitStep DEF Argument!Next

LEMMA ArgumentStarts == Argument!Init => ArgumentInv
<1> SUFFICES ASSUME Argument!Init PROVE ArgumentInv
  OBVIOUS
<1>1. MaxNumber \in Nat
  BY ProfilesAssumption DEF Argument!ShellArgumentsAssumption
<1>q. QED
  BY <1>1 DEF Argument!Init, ArgumentInv, NumberTypes, RegisterInv, Argument!ArgumentsAreExact

LEMMA ArgumentInvariant == Spec => []ArgumentInv
BY ArgumentStep, ArgumentStarts, Starts, Steps, PTL DEF Spec

(* A command gets the number that was typed, or none: numbers too large    *)
(* for the register are refused, whatever their length                     *)
(* (CO_401_device_RTT_msh.c:82, CO_402_device_RTT_msh.c:108).              *)
THEOREM NumbersAreExact == Spec => []Argument!ArgumentsAreExact
<1>1. ArgumentInv => Argument!ArgumentsAreExact
  BY DEF ArgumentInv
<1>q. QED
  BY <1>1, ArgumentInvariant, PTL

-----------------------------------------------------------------------------
(***************************************************************************)
(* Proofs about DemoDrive.  A set-point in flight belongs to Profile       *)
(* Position and a SYNC command to a cyclic mode, so no other mode moves    *)
(* the drive under them.                                                   *)
(***************************************************************************)

ModeInv ==
    /\ ppActive => demoMode = "PP"
    /\ syncCommandValid => demoMode \in Demo!CyclicModes

DemoInv == Demo!TypeOK /\ Demo!AtRest /\ Demo!FeedbackIsCurrent /\ Demo!TowardsTarget /\ ModeInv

(* A position of the drive is a number, and where it is at first is one.   *)
LEMMA PositionFacts == Demo!Positions \subseteq Int /\ 0 \in Demo!Positions /\ 0 \in Demo!Speeds
BY ProfilesAssumption DEF Demo!Positions, Demo!Speeds, Demo!DemoDriveAssumption

LEMMA SignTypes == ASSUME NEW n \in Int PROVE Demo!Sign(n) \in Demo!Speeds
BY DEF Demo!Sign, Demo!Speeds

(* No mode is none of the modes.                                           *)
LEMMA NoModeFact == NoMode \notin Demo!Modes
BY ProfilesAssumption DEF Demo!Modes, Demo!CyclicModes, Demo!DemoDriveAssumption

(* A PDS action that leads out of motion is one that stops it.             *)
LEMMA ActionFacts ==
    ASSUME NEW step \in Demo!Actions
    PROVE  /\ step[3] \in Demo!ModeStates \cup {"quickStop", "fault"}
           /\ step[1] \in {"enabled", "reaction"} => step[2] \in Demo!StoppingActions
BY DEF Demo!Actions, Demo!ModeStates, Demo!StoppingActions, Demo!CoastingActions

(* Every step keeps the types.                                             *)
LEMMA DemoTypesStep ==
    ASSUME DemoInv, [Demo!Next]_(Demo!vars)
    PROVE  Demo!TypeOK'
<1>0. CASE UNCHANGED Demo!vars
  BY <1>0 DEF Demo!vars, Demo!TypeOK, Demo!ModeStates, Demo!Modes, Demo!Speeds, Demo!CyclicModes,
     DemoInv
<1>1. ASSUME NEW step \in Demo!Actions, Demo!PdsAction(step) PROVE Demo!TypeOK'
  <2>1. (demoPds \in Demo!ModeStates \cup {"quickStop", "reaction", "fault"})'
    BY <1>1, PositionFacts, SignTypes, ActionFacts DEF Demo!PdsAction, Demo!StopMotion, Demo!motion,
       Demo!TypeOK, Demo!ModeStates, Demo!Modes, Demo!Speeds, Demo!CyclicModes, DemoInv
  <2>2. (demoMode \in Demo!Modes \cup {NoMode})'
    BY <1>1, PositionFacts, SignTypes, ActionFacts DEF Demo!PdsAction, Demo!StopMotion, Demo!motion,
       Demo!TypeOK, Demo!ModeStates, Demo!Modes, Demo!Speeds, Demo!CyclicModes, DemoInv
  <2>3. (position \in Demo!Positions)'
    BY <1>1, PositionFacts, SignTypes, ActionFacts DEF Demo!PdsAction, Demo!StopMotion, Demo!motion,
       Demo!TypeOK, Demo!ModeStates, Demo!Modes, Demo!Speeds, Demo!CyclicModes, DemoInv
  <2>4. (velocity \in Demo!Speeds)'
    BY <1>1, PositionFacts, SignTypes, ActionFacts DEF Demo!PdsAction, Demo!StopMotion, Demo!motion,
       Demo!TypeOK, Demo!ModeStates, Demo!Modes, Demo!Speeds, Demo!CyclicModes, DemoInv
  <2>5. (torque \in Demo!Speeds)'
    BY <1>1, PositionFacts, SignTypes, ActionFacts DEF Demo!PdsAction, Demo!StopMotion, Demo!motion,
       Demo!TypeOK, Demo!ModeStates, Demo!Modes, Demo!Speeds, Demo!CyclicModes, DemoInv
  <2>6. (ppTarget \in Demo!Positions)'
    BY <1>1, PositionFacts, SignTypes, ActionFacts DEF Demo!PdsAction, Demo!StopMotion, Demo!motion,
       Demo!TypeOK, Demo!ModeStates, Demo!Modes, Demo!Speeds, Demo!CyclicModes, DemoInv
  <2>7. (ppActive \in BOOLEAN)'
    BY <1>1, PositionFacts, SignTypes, ActionFacts DEF Demo!PdsAction, Demo!StopMotion, Demo!motion,
       Demo!TypeOK, Demo!ModeStates, Demo!Modes, Demo!Speeds, Demo!CyclicModes, DemoInv
  <2>8. (ppHalted \in BOOLEAN)'
    BY <1>1, PositionFacts, SignTypes, ActionFacts DEF Demo!PdsAction, Demo!StopMotion, Demo!motion,
       Demo!TypeOK, Demo!ModeStates, Demo!Modes, Demo!Speeds, Demo!CyclicModes, DemoInv
  <2>9. (hmActive \in BOOLEAN)'
    BY <1>1, PositionFacts, SignTypes, ActionFacts DEF Demo!PdsAction, Demo!StopMotion, Demo!motion,
       Demo!TypeOK, Demo!ModeStates, Demo!Modes, Demo!Speeds, Demo!CyclicModes, DemoInv
  <2>10. (hmHalted \in BOOLEAN)'
    BY <1>1, PositionFacts, SignTypes, ActionFacts DEF Demo!PdsAction, Demo!StopMotion, Demo!motion,
       Demo!TypeOK, Demo!ModeStates, Demo!Modes, Demo!Speeds, Demo!CyclicModes, DemoInv
  <2>11. (syncCommandValid \in BOOLEAN)'
    BY <1>1, PositionFacts, SignTypes, ActionFacts DEF Demo!PdsAction, Demo!StopMotion, Demo!motion,
       Demo!TypeOK, Demo!ModeStates, Demo!Modes, Demo!Speeds, Demo!CyclicModes, DemoInv
  <2>12. (syncFeedback \in [mode : Demo!Modes \cup {NoMode}, position : Demo!Positions,
      velocity : Demo!Speeds, torque : Demo!Speeds])'
    BY <1>1, PositionFacts, SignTypes, ActionFacts DEF Demo!PdsAction, Demo!StopMotion, Demo!motion,
       Demo!TypeOK, Demo!ModeStates, Demo!Modes, Demo!Speeds, Demo!CyclicModes, DemoInv
  <2>q. QED
    BY <2>1, <2>2, <2>3, <2>4, <2>5, <2>6, <2>7, <2>8, <2>9, <2>10, <2>11, <2>12 DEF Demo!TypeOK
<1>2. CASE Demo!Fault
  BY <1>2, PositionFacts DEF Demo!Fault, Demo!motion, Demo!TypeOK, Demo!ModeStates, Demo!Modes,
     Demo!Speeds,
     Demo!CyclicModes, DemoInv
<1>3. CASE Demo!ModeExit
  BY <1>3, PositionFacts DEF Demo!ModeExit, Demo!ModeStates, Demo!StopMotion, Demo!TypeOK,
     Demo!Modes, Demo!Speeds,
     Demo!CyclicModes, DemoInv
<1>4. ASSUME NEW m \in Demo!Modes, Demo!ModeEnter(m) PROVE Demo!TypeOK'
  <2>1. (demoPds \in Demo!ModeStates \cup {"quickStop", "reaction", "fault"})'
    BY <1>4, PositionFacts, SignTypes, ActionFacts DEF Demo!ModeEnter, Demo!ModeStates, Demo!TypeOK,
       Demo!Modes, Demo!Speeds, Demo!CyclicModes, DemoInv
  <2>2. (demoMode \in Demo!Modes \cup {NoMode})'
    BY <1>4, PositionFacts, SignTypes, ActionFacts DEF Demo!ModeEnter, Demo!ModeStates, Demo!TypeOK,
       Demo!Modes, Demo!Speeds, Demo!CyclicModes, DemoInv
  <2>3. (position \in Demo!Positions)'
    BY <1>4, PositionFacts, SignTypes, ActionFacts DEF Demo!ModeEnter, Demo!ModeStates, Demo!TypeOK,
       Demo!Modes, Demo!Speeds, Demo!CyclicModes, DemoInv
  <2>4. (velocity \in Demo!Speeds)'
    BY <1>4, PositionFacts, SignTypes, ActionFacts DEF Demo!ModeEnter, Demo!ModeStates, Demo!TypeOK,
       Demo!Modes, Demo!Speeds, Demo!CyclicModes, DemoInv
  <2>5. (torque \in Demo!Speeds)'
    BY <1>4, PositionFacts, SignTypes, ActionFacts DEF Demo!ModeEnter, Demo!ModeStates, Demo!TypeOK,
       Demo!Modes, Demo!Speeds, Demo!CyclicModes, DemoInv
  <2>6. (ppTarget \in Demo!Positions)'
    BY <1>4, PositionFacts, SignTypes, ActionFacts DEF Demo!ModeEnter, Demo!ModeStates, Demo!TypeOK,
       Demo!Modes, Demo!Speeds, Demo!CyclicModes, DemoInv
  <2>7. (ppActive \in BOOLEAN)'
    BY <1>4, PositionFacts, SignTypes, ActionFacts DEF Demo!ModeEnter, Demo!ModeStates, Demo!TypeOK,
       Demo!Modes, Demo!Speeds, Demo!CyclicModes, DemoInv
  <2>8. (ppHalted \in BOOLEAN)'
    BY <1>4, PositionFacts, SignTypes, ActionFacts DEF Demo!ModeEnter, Demo!ModeStates, Demo!TypeOK,
       Demo!Modes, Demo!Speeds, Demo!CyclicModes, DemoInv
  <2>9. (hmActive \in BOOLEAN)'
    BY <1>4, PositionFacts, SignTypes, ActionFacts DEF Demo!ModeEnter, Demo!ModeStates, Demo!TypeOK,
       Demo!Modes, Demo!Speeds, Demo!CyclicModes, DemoInv
  <2>10. (hmHalted \in BOOLEAN)'
    BY <1>4, PositionFacts, SignTypes, ActionFacts DEF Demo!ModeEnter, Demo!ModeStates, Demo!TypeOK,
       Demo!Modes, Demo!Speeds, Demo!CyclicModes, DemoInv
  <2>11. (syncCommandValid \in BOOLEAN)'
    BY <1>4, PositionFacts, SignTypes, ActionFacts DEF Demo!ModeEnter, Demo!ModeStates, Demo!TypeOK,
       Demo!Modes, Demo!Speeds, Demo!CyclicModes, DemoInv
  <2>12. (syncFeedback \in [mode : Demo!Modes \cup {NoMode}, position : Demo!Positions,
      velocity : Demo!Speeds, torque : Demo!Speeds])'
    BY <1>4, PositionFacts, SignTypes, ActionFacts DEF Demo!ModeEnter, Demo!ModeStates, Demo!TypeOK,
       Demo!Modes, Demo!Speeds, Demo!CyclicModes, DemoInv
  <2>q. QED
    BY <2>1, <2>2, <2>3, <2>4, <2>5, <2>6, <2>7, <2>8, <2>9, <2>10, <2>11, <2>12 DEF Demo!TypeOK
<1>5. CASE Demo!ProfilePosition
  <2>1. (demoPds \in Demo!ModeStates \cup {"quickStop", "reaction", "fault"})'
    BY <1>5, PositionFacts, SignTypes, ActionFacts DEF Demo!ProfilePosition, Demo!NewSetPoint,
       Demo!SetPointOverflows, Demo!HoldSetPoint, Demo!Resolved, Demo!FeedbackVelocity,
       Demo!motion, Demo!TypeOK,
       Demo!ModeStates, Demo!Modes, Demo!Speeds, Demo!CyclicModes, DemoInv
  <2>2. (demoMode \in Demo!Modes \cup {NoMode})'
    BY <1>5, PositionFacts, SignTypes, ActionFacts DEF Demo!ProfilePosition, Demo!NewSetPoint,
       Demo!SetPointOverflows, Demo!HoldSetPoint, Demo!Resolved, Demo!FeedbackVelocity,
       Demo!motion, Demo!TypeOK,
       Demo!ModeStates, Demo!Modes, Demo!Speeds, Demo!CyclicModes, DemoInv
  <2>3. (position \in Demo!Positions)'
    BY <1>5, PositionFacts, SignTypes, ActionFacts DEF Demo!ProfilePosition, Demo!NewSetPoint,
       Demo!SetPointOverflows, Demo!HoldSetPoint, Demo!Resolved, Demo!FeedbackVelocity,
       Demo!motion, Demo!TypeOK,
       Demo!ModeStates, Demo!Modes, Demo!Speeds, Demo!CyclicModes, DemoInv
  <2>4. (velocity \in Demo!Speeds)'
    BY <1>5, PositionFacts, SignTypes, ActionFacts DEF Demo!ProfilePosition, Demo!NewSetPoint,
       Demo!SetPointOverflows, Demo!HoldSetPoint, Demo!Resolved, Demo!FeedbackVelocity,
       Demo!motion, Demo!TypeOK,
       Demo!ModeStates, Demo!Modes, Demo!Speeds, Demo!CyclicModes, DemoInv
  <2>5. (torque \in Demo!Speeds)'
    BY <1>5, PositionFacts, SignTypes, ActionFacts DEF Demo!ProfilePosition, Demo!NewSetPoint,
       Demo!SetPointOverflows, Demo!HoldSetPoint, Demo!Resolved, Demo!FeedbackVelocity,
       Demo!motion, Demo!TypeOK,
       Demo!ModeStates, Demo!Modes, Demo!Speeds, Demo!CyclicModes, DemoInv
  <2>6. (ppTarget \in Demo!Positions)'
    BY <1>5, PositionFacts, SignTypes, ActionFacts DEF Demo!ProfilePosition, Demo!NewSetPoint,
       Demo!SetPointOverflows, Demo!HoldSetPoint, Demo!Resolved, Demo!FeedbackVelocity,
       Demo!motion, Demo!TypeOK,
       Demo!ModeStates, Demo!Modes, Demo!Speeds, Demo!CyclicModes, DemoInv
  <2>7. (ppActive \in BOOLEAN)'
    BY <1>5, PositionFacts, SignTypes, ActionFacts DEF Demo!ProfilePosition, Demo!NewSetPoint,
       Demo!SetPointOverflows, Demo!HoldSetPoint, Demo!Resolved, Demo!FeedbackVelocity,
       Demo!motion, Demo!TypeOK,
       Demo!ModeStates, Demo!Modes, Demo!Speeds, Demo!CyclicModes, DemoInv
  <2>8. (ppHalted \in BOOLEAN)'
    BY <1>5, PositionFacts, SignTypes, ActionFacts DEF Demo!ProfilePosition, Demo!NewSetPoint,
       Demo!SetPointOverflows, Demo!HoldSetPoint, Demo!Resolved, Demo!FeedbackVelocity,
       Demo!motion, Demo!TypeOK,
       Demo!ModeStates, Demo!Modes, Demo!Speeds, Demo!CyclicModes, DemoInv
  <2>9. (hmActive \in BOOLEAN)'
    BY <1>5, PositionFacts, SignTypes, ActionFacts DEF Demo!ProfilePosition, Demo!NewSetPoint,
       Demo!SetPointOverflows, Demo!HoldSetPoint, Demo!Resolved, Demo!FeedbackVelocity,
       Demo!motion, Demo!TypeOK,
       Demo!ModeStates, Demo!Modes, Demo!Speeds, Demo!CyclicModes, DemoInv
  <2>10. (hmHalted \in BOOLEAN)'
    BY <1>5, PositionFacts, SignTypes, ActionFacts DEF Demo!ProfilePosition, Demo!NewSetPoint,
       Demo!SetPointOverflows, Demo!HoldSetPoint, Demo!Resolved, Demo!FeedbackVelocity,
       Demo!motion, Demo!TypeOK,
       Demo!ModeStates, Demo!Modes, Demo!Speeds, Demo!CyclicModes, DemoInv
  <2>11. (syncCommandValid \in BOOLEAN)'
    BY <1>5, PositionFacts, SignTypes, ActionFacts DEF Demo!ProfilePosition, Demo!NewSetPoint,
       Demo!SetPointOverflows, Demo!HoldSetPoint, Demo!Resolved, Demo!FeedbackVelocity,
       Demo!motion, Demo!TypeOK,
       Demo!ModeStates, Demo!Modes, Demo!Speeds, Demo!CyclicModes, DemoInv
  <2>12. (syncFeedback \in [mode : Demo!Modes \cup {NoMode}, position : Demo!Positions,
      velocity : Demo!Speeds, torque : Demo!Speeds])'
    BY <1>5, PositionFacts, SignTypes, ActionFacts DEF Demo!ProfilePosition, Demo!NewSetPoint,
       Demo!SetPointOverflows, Demo!HoldSetPoint, Demo!Resolved, Demo!FeedbackVelocity,
       Demo!motion, Demo!TypeOK,
       Demo!ModeStates, Demo!Modes, Demo!Speeds, Demo!CyclicModes, DemoInv
  <2>q. QED
    BY <2>1, <2>2, <2>3, <2>4, <2>5, <2>6, <2>7, <2>8, <2>9, <2>10, <2>11, <2>12 DEF Demo!TypeOK
<1>6. CASE Demo!ProfileVelocity
  BY <1>6, PositionFacts DEF Demo!ProfileVelocity, Demo!Speeds, Demo!TypeOK, Demo!ModeStates,
     Demo!Modes,
     Demo!CyclicModes, DemoInv
<1>7. CASE Demo!Homing
  <2>1. (demoPds \in Demo!ModeStates \cup {"quickStop", "reaction", "fault"})'
    BY <1>7, PositionFacts, SignTypes, ActionFacts DEF Demo!Homing, Demo!TypeOK, Demo!ModeStates,
       Demo!Modes, Demo!Speeds, Demo!CyclicModes, DemoInv
  <2>2. (demoMode \in Demo!Modes \cup {NoMode})'
    BY <1>7, PositionFacts, SignTypes, ActionFacts DEF Demo!Homing, Demo!TypeOK, Demo!ModeStates,
       Demo!Modes, Demo!Speeds, Demo!CyclicModes, DemoInv
  <2>3. (position \in Demo!Positions)'
    BY <1>7, PositionFacts, SignTypes, ActionFacts DEF Demo!Homing, Demo!TypeOK, Demo!ModeStates,
       Demo!Modes, Demo!Speeds, Demo!CyclicModes, DemoInv
  <2>4. (velocity \in Demo!Speeds)'
    BY <1>7, PositionFacts, SignTypes, ActionFacts DEF Demo!Homing, Demo!TypeOK, Demo!ModeStates,
       Demo!Modes, Demo!Speeds, Demo!CyclicModes, DemoInv
  <2>5. (torque \in Demo!Speeds)'
    BY <1>7, PositionFacts, SignTypes, ActionFacts DEF Demo!Homing, Demo!TypeOK, Demo!ModeStates,
       Demo!Modes, Demo!Speeds, Demo!CyclicModes, DemoInv
  <2>6. (ppTarget \in Demo!Positions)'
    BY <1>7, PositionFacts, SignTypes, ActionFacts DEF Demo!Homing, Demo!TypeOK, Demo!ModeStates,
       Demo!Modes, Demo!Speeds, Demo!CyclicModes, DemoInv
  <2>7. (ppActive \in BOOLEAN)'
    BY <1>7, PositionFacts, SignTypes, ActionFacts DEF Demo!Homing, Demo!TypeOK, Demo!ModeStates,
       Demo!Modes, Demo!Speeds, Demo!CyclicModes, DemoInv
  <2>8. (ppHalted \in BOOLEAN)'
    BY <1>7, PositionFacts, SignTypes, ActionFacts DEF Demo!Homing, Demo!TypeOK, Demo!ModeStates,
       Demo!Modes, Demo!Speeds, Demo!CyclicModes, DemoInv
  <2>9. (hmActive \in BOOLEAN)'
    BY <1>7, PositionFacts, SignTypes, ActionFacts DEF Demo!Homing, Demo!TypeOK, Demo!ModeStates,
       Demo!Modes, Demo!Speeds, Demo!CyclicModes, DemoInv
  <2>10. (hmHalted \in BOOLEAN)'
    BY <1>7, PositionFacts, SignTypes, ActionFacts DEF Demo!Homing, Demo!TypeOK, Demo!ModeStates,
       Demo!Modes, Demo!Speeds, Demo!CyclicModes, DemoInv
  <2>11. (syncCommandValid \in BOOLEAN)'
    BY <1>7, PositionFacts, SignTypes, ActionFacts DEF Demo!Homing, Demo!TypeOK, Demo!ModeStates,
       Demo!Modes, Demo!Speeds, Demo!CyclicModes, DemoInv
  <2>12. (syncFeedback \in [mode : Demo!Modes \cup {NoMode}, position : Demo!Positions,
      velocity : Demo!Speeds, torque : Demo!Speeds])'
    BY <1>7, PositionFacts, SignTypes, ActionFacts DEF Demo!Homing, Demo!TypeOK, Demo!ModeStates,
       Demo!Modes, Demo!Speeds, Demo!CyclicModes, DemoInv
  <2>q. QED
    BY <2>1, <2>2, <2>3, <2>4, <2>5, <2>6, <2>7, <2>8, <2>9, <2>10, <2>11, <2>12 DEF Demo!TypeOK
<1>8. CASE Demo!SyncPublishCommand
  <2>1. (demoPds \in Demo!ModeStates \cup {"quickStop", "reaction", "fault"})'
    BY <1>8, PositionFacts, SignTypes, ActionFacts DEF Demo!SyncPublishCommand, Demo!CyclicModes,
       Demo!Speeds, Demo!TypeOK, Demo!ModeStates, Demo!Modes, DemoInv
  <2>2. (demoMode \in Demo!Modes \cup {NoMode})'
    BY <1>8, PositionFacts, SignTypes, ActionFacts DEF Demo!SyncPublishCommand, Demo!CyclicModes,
       Demo!Speeds, Demo!TypeOK, Demo!ModeStates, Demo!Modes, DemoInv
  <2>3. (position \in Demo!Positions)'
    BY <1>8, PositionFacts, SignTypes, ActionFacts DEF Demo!SyncPublishCommand, Demo!CyclicModes,
       Demo!Speeds, Demo!TypeOK, Demo!ModeStates, Demo!Modes, DemoInv
  <2>4. (velocity \in Demo!Speeds)'
    BY <1>8, PositionFacts, SignTypes, ActionFacts DEF Demo!SyncPublishCommand, Demo!CyclicModes,
       Demo!Speeds, Demo!TypeOK, Demo!ModeStates, Demo!Modes, DemoInv
  <2>5. (torque \in Demo!Speeds)'
    BY <1>8, PositionFacts, SignTypes, ActionFacts DEF Demo!SyncPublishCommand, Demo!CyclicModes,
       Demo!Speeds, Demo!TypeOK, Demo!ModeStates, Demo!Modes, DemoInv
  <2>6. (ppTarget \in Demo!Positions)'
    BY <1>8, PositionFacts, SignTypes, ActionFacts DEF Demo!SyncPublishCommand, Demo!CyclicModes,
       Demo!Speeds, Demo!TypeOK, Demo!ModeStates, Demo!Modes, DemoInv
  <2>7. (ppActive \in BOOLEAN)'
    BY <1>8, PositionFacts, SignTypes, ActionFacts DEF Demo!SyncPublishCommand, Demo!CyclicModes,
       Demo!Speeds, Demo!TypeOK, Demo!ModeStates, Demo!Modes, DemoInv
  <2>8. (ppHalted \in BOOLEAN)'
    BY <1>8, PositionFacts, SignTypes, ActionFacts DEF Demo!SyncPublishCommand, Demo!CyclicModes,
       Demo!Speeds, Demo!TypeOK, Demo!ModeStates, Demo!Modes, DemoInv
  <2>9. (hmActive \in BOOLEAN)'
    BY <1>8, PositionFacts, SignTypes, ActionFacts DEF Demo!SyncPublishCommand, Demo!CyclicModes,
       Demo!Speeds, Demo!TypeOK, Demo!ModeStates, Demo!Modes, DemoInv
  <2>10. (hmHalted \in BOOLEAN)'
    BY <1>8, PositionFacts, SignTypes, ActionFacts DEF Demo!SyncPublishCommand, Demo!CyclicModes,
       Demo!Speeds, Demo!TypeOK, Demo!ModeStates, Demo!Modes, DemoInv
  <2>11. (syncCommandValid \in BOOLEAN)'
    BY <1>8, PositionFacts, SignTypes, ActionFacts DEF Demo!SyncPublishCommand, Demo!CyclicModes,
       Demo!Speeds, Demo!TypeOK, Demo!ModeStates, Demo!Modes, DemoInv
  <2>12. (syncFeedback \in [mode : Demo!Modes \cup {NoMode}, position : Demo!Positions,
      velocity : Demo!Speeds, torque : Demo!Speeds])'
    BY <1>8, PositionFacts, SignTypes, ActionFacts DEF Demo!SyncPublishCommand, Demo!CyclicModes,
       Demo!Speeds, Demo!TypeOK, Demo!ModeStates, Demo!Modes, DemoInv
  <2>q. QED
    BY <2>1, <2>2, <2>3, <2>4, <2>5, <2>6, <2>7, <2>8, <2>9, <2>10, <2>11, <2>12 DEF Demo!TypeOK
<1>q. QED
  BY <1>0, <1>1, <1>2, <1>3, <1>4, <1>5, <1>6, <1>7, <1>8 DEF Demo!Next

(* Every step leaves the drive at rest where it must be.                   *)
LEMMA RestStep ==
    ASSUME DemoInv, [Demo!Next]_(Demo!vars)
    PROVE  Demo!AtRest'
<1>0. CASE UNCHANGED Demo!vars
  BY <1>0 DEF Demo!vars, Demo!AtRest, DemoInv
<1>1. ASSUME NEW step \in Demo!Actions, Demo!PdsAction(step) PROVE Demo!AtRest'
  BY <1>1, ActionFacts DEF Demo!PdsAction, Demo!StopMotion, Demo!motion, Demo!AtRest, DemoInv
<1>2. CASE Demo!Fault
  BY <1>2, ActionFacts DEF Demo!Fault, Demo!motion, Demo!AtRest, DemoInv
<1>3. CASE Demo!ModeExit
  BY <1>3, ActionFacts DEF Demo!ModeExit, Demo!ModeStates, Demo!StopMotion, Demo!AtRest, DemoInv
<1>4. ASSUME NEW m \in Demo!Modes, Demo!ModeEnter(m) PROVE Demo!AtRest'
  BY <1>4, ActionFacts DEF Demo!ModeEnter, Demo!ModeStates, Demo!AtRest, DemoInv
<1>5. CASE Demo!ProfilePosition
  BY <1>5, ActionFacts DEF Demo!ProfilePosition, Demo!NewSetPoint, Demo!SetPointOverflows,
     Demo!HoldSetPoint, Demo!Resolved, Demo!FeedbackVelocity, Demo!motion, Demo!AtRest, DemoInv
<1>6. CASE Demo!ProfileVelocity
  BY <1>6, ActionFacts DEF Demo!ProfileVelocity, Demo!Speeds, Demo!AtRest, DemoInv
<1>7. CASE Demo!Homing
  BY <1>7, ActionFacts DEF Demo!Homing, Demo!AtRest, DemoInv
<1>8. CASE Demo!SyncPublishCommand
  BY <1>8, ActionFacts DEF Demo!SyncPublishCommand, Demo!CyclicModes, Demo!Speeds, Demo!AtRest,
     DemoInv
<1>q. QED
  BY <1>0, <1>1, <1>2, <1>3, <1>4, <1>5, <1>6, <1>7, <1>8 DEF Demo!Next

(* Every step keeps the feedback current.                                  *)
LEMMA FeedbackStep ==
    ASSUME DemoInv, [Demo!Next]_(Demo!vars)
    PROVE  Demo!FeedbackIsCurrent'
<1>0. CASE UNCHANGED Demo!vars
  BY <1>0 DEF Demo!vars, Demo!FeedbackIsCurrent, DemoInv, ModeInv, Demo!CyclicModes
<1>1. CASE Demo!Fault
  BY <1>1 DEF Demo!Fault, Demo!motion, Demo!FeedbackIsCurrent, DemoInv, ModeInv, Demo!CyclicModes
<1>2. ASSUME NEW step \in Demo!Actions, Demo!PdsAction(step) PROVE Demo!FeedbackIsCurrent'
  BY <1>2 DEF Demo!PdsAction, Demo!StopMotion, Demo!motion, Demo!FeedbackIsCurrent, DemoInv,
     ModeInv,
     Demo!CyclicModes
<1>3. CASE Demo!ModeExit
  BY <1>3 DEF Demo!ModeExit, Demo!ModeStates, Demo!StopMotion, Demo!FeedbackIsCurrent, DemoInv,
     ModeInv,
     Demo!CyclicModes
<1>4. ASSUME NEW m \in Demo!Modes, Demo!ModeEnter(m) PROVE Demo!FeedbackIsCurrent'
  BY <1>4 DEF Demo!ModeEnter, Demo!ModeStates, Demo!FeedbackIsCurrent, DemoInv, ModeInv,
     Demo!CyclicModes
<1>5. CASE Demo!ProfilePosition
  BY <1>5 DEF Demo!ProfilePosition, Demo!NewSetPoint, Demo!SetPointOverflows, Demo!HoldSetPoint,
     Demo!Resolved,
     Demo!FeedbackVelocity, Demo!motion, Demo!FeedbackIsCurrent, DemoInv, ModeInv, Demo!CyclicModes
<1>6. CASE Demo!ProfileVelocity
  BY <1>6 DEF Demo!ProfileVelocity, Demo!Speeds, Demo!FeedbackIsCurrent, DemoInv, ModeInv,
     Demo!CyclicModes
<1>7. CASE Demo!Homing
  BY <1>7 DEF Demo!Homing, Demo!FeedbackIsCurrent, DemoInv, ModeInv, Demo!CyclicModes
<1>8. CASE Demo!SyncPublishCommand
  BY <1>8 DEF Demo!SyncPublishCommand, Demo!CyclicModes, Demo!Speeds, Demo!FeedbackIsCurrent,
     DemoInv, ModeInv
<1>q. QED
  BY <1>0, <1>1, <1>2, <1>3, <1>4, <1>5, <1>6, <1>7, <1>8 DEF Demo!Next

(* No step moves the drive from its set-point.                             *)
LEMMA TowardsStep ==
    ASSUME DemoInv, [Demo!Next]_(Demo!vars)
    PROVE  Demo!TowardsTarget'
<1>0. CASE UNCHANGED Demo!vars
  BY <1>0 DEF Demo!vars, Demo!TowardsTarget, DemoInv, ModeInv
<1>1. CASE Demo!Fault
  BY <1>1 DEF Demo!Fault, Demo!motion, Demo!TowardsTarget, DemoInv, ModeInv
<1>2. ASSUME NEW m \in Demo!Modes,
             Demo!ModeEnter(m)
      PROVE  Demo!TowardsTarget'
  BY <1>2 DEF Demo!ModeEnter, Demo!TowardsTarget, DemoInv, ModeInv
<1>3. ASSUME NEW step \in Demo!Actions, Demo!PdsAction(step) PROVE Demo!TowardsTarget'
  BY <1>3 DEF Demo!PdsAction, Demo!StopMotion, Demo!motion, Demo!TowardsTarget, DemoInv, ModeInv
<1>4. CASE Demo!ModeExit
  BY <1>4 DEF Demo!ModeExit, Demo!ModeStates, Demo!StopMotion, Demo!TowardsTarget, DemoInv, ModeInv
<1>5. CASE Demo!ProfilePosition
  BY <1>5 DEF Demo!ProfilePosition, Demo!NewSetPoint, Demo!SetPointOverflows, Demo!HoldSetPoint,
     Demo!Resolved,
     Demo!FeedbackVelocity, Demo!motion, Demo!TowardsTarget, DemoInv, ModeInv
<1>6. CASE Demo!ProfileVelocity
  BY <1>6 DEF Demo!ProfileVelocity, Demo!Speeds, Demo!TowardsTarget, DemoInv, ModeInv
<1>7. CASE Demo!Homing
  BY <1>7 DEF Demo!Homing, Demo!TowardsTarget, DemoInv, ModeInv
<1>8. CASE Demo!SyncPublishCommand
  BY <1>8 DEF Demo!SyncPublishCommand, Demo!CyclicModes, Demo!Speeds, Demo!TowardsTarget,
     DemoInv, ModeInv
<1>q. QED
  BY <1>0, <1>1, <1>2, <1>3, <1>4, <1>5, <1>6, <1>7, <1>8 DEF Demo!Next

(* Every step keeps motion in its mode.                                    *)
LEMMA ModeStep ==
    ASSUME DemoInv, [Demo!Next]_(Demo!vars)
    PROVE  ModeInv'
<1>0. CASE UNCHANGED Demo!vars
  BY <1>0 DEF Demo!vars, ModeInv, Demo!CyclicModes, DemoInv, Demo!Modes
<1>1. CASE Demo!Fault \/ Demo!ProfileVelocity \/ Demo!Homing
  BY <1>1 DEF Demo!Fault, Demo!ProfileVelocity, Demo!Homing, Demo!motion, ModeInv,
     Demo!CyclicModes, DemoInv, Demo!Modes
<1>2. ASSUME NEW step \in Demo!Actions, Demo!PdsAction(step) PROVE ModeInv'
  BY <1>2, NoModeFact DEF Demo!PdsAction, Demo!StopMotion, Demo!motion, ModeInv,
     Demo!CyclicModes, DemoInv,
     Demo!Modes
<1>3. CASE Demo!ModeExit
  BY <1>3, NoModeFact DEF Demo!ModeExit, Demo!ModeStates, Demo!StopMotion, ModeInv,
     Demo!CyclicModes, DemoInv,
     Demo!Modes
<1>4. ASSUME NEW m \in Demo!Modes, Demo!ModeEnter(m) PROVE ModeInv'
  BY <1>4, NoModeFact DEF Demo!ModeEnter, Demo!ModeStates, ModeInv, Demo!CyclicModes, DemoInv,
     Demo!Modes
<1>5. CASE Demo!ProfilePosition
  BY <1>5, NoModeFact DEF Demo!ProfilePosition, Demo!NewSetPoint, Demo!SetPointOverflows,
     Demo!HoldSetPoint,
     Demo!Resolved, Demo!FeedbackVelocity, Demo!motion, ModeInv, Demo!CyclicModes, DemoInv,
     Demo!Modes
<1>6. CASE Demo!SyncPublishCommand
  BY <1>6, NoModeFact DEF Demo!SyncPublishCommand, Demo!CyclicModes, Demo!Speeds, ModeInv,
     DemoInv, Demo!Modes
<1>q. QED
  BY <1>0, <1>1, <1>2, <1>3, <1>4, <1>5, <1>6 DEF Demo!Next

LEMMA DemoStarts == Demo!Init => DemoInv
<1> SUFFICES ASSUME Demo!Init PROVE DemoInv
  OBVIOUS
<1>1. syncFeedback \in [mode : Demo!Modes \cup {NoMode}, position : Demo!Positions, velocity :
    Demo!Speeds,
                        torque : Demo!Speeds]
  BY PositionFacts DEF Demo!Init
<1>2. Demo!TypeOK
  BY <1>1, PositionFacts DEF Demo!Init, Demo!TypeOK, Demo!ModeStates
<1>q. QED
  BY <1>2 DEF Demo!Init, DemoInv, Demo!AtRest, Demo!FeedbackIsCurrent, Demo!TowardsTarget, ModeInv

LEMMA DemoInvariant == Spec => []DemoInv
<1>1. DemoInv /\ [Demo!Next]_(Demo!vars) => DemoInv'
  BY DemoTypesStep, RestStep, FeedbackStep, TowardsStep, ModeStep DEF DemoInv
<1>q. QED
  BY <1>1, DemoStarts, Starts, Steps, PTL DEF Spec

(* Whatever commands, stops, faults and mode changes come, the drive rests *)
(* where it must, gives out a feedback of the present mode, and moves      *)
(* towards its set-point (CO_402_device_RTT_demo.c:417).                   *)
THEOREM DemoDriveIsHonest == Spec => []Demo!DemoDriveIsTrue
<1>1. DemoInv => Demo!DemoDriveIsTrue
  BY DEF DemoInv, Demo!DemoDriveIsTrue
<1>q. QED
  BY <1>1, DemoInvariant, PTL

-----------------------------------------------------------------------------
(* The properties of Profiles *)

(* The device's record of its outputs is true, across resets, refused      *)
(* writes and lost peers (CO_401_device_RTT.c:372, CO_401_device_od.c:422).*)
THEOREM OutputsAreKnown == Spec => []OutputStateIsSafe
<1>1. Output!OutputStateIsSafe => OutputStateIsSafe
  BY DEF OutputStateIsSafe
<1> QED
  BY <1>1, OutputStateSafe, PTL

(* Filter constants and stops reach the product before anything else does  *)
(* (CO_401_digital.c:71, CO_401_device_RTT.c:441).                         *)
THEOREM ProductIsFirst == Spec => ProductComesFirst
BY FiltersComeFirst, StopFirst, PTL DEF ProductComesFirst

(* An input event outlasts failed readings and refused frames, digital and *)
(* analogue alike (CO_401_digital.c:46, CO_401_analog.c:147).              *)
THEOREM InputsAreRemembered == Spec => []InputEventsLast
<1>1. Digital!EventsAreRemembered /\ Analog!AnalogInputIsSafe => InputEventsLast
  BY DEF InputEventsLast
<1> QED
  BY <1>1, EventsLast, AnalogInputSafe, PTL

(* The controller counts the time and keeps the commands of repeated       *)
(* transfers (CO_402_controller_client.c:140).                             *)
THEOREM RetriesAreCounted == Spec => []RetriesAreAccounted
<1>1. Drive!RetriesAreAccounted => RetriesAreAccounted
  BY DEF RetriesAreAccounted
<1> QED
  BY <1>1, RetriesAccounted, PTL

(* Fault resets, set-points and homings start on a rising edge, and what   *)
(* stays on after it leads to the target and to no motion unasked for      *)
(* (CO_402_controller.c:295, CO_402_mode_pp.c, CO_402_mode_hm.c).          *)
THEOREM EdgesAreTrue == Spec => EdgesAreReal
BY ResetsAreEdges, EdgesAreFresh, TransitionsApproach, MotionIntended, PTL
   DEF EdgesAreReal, Link!LinkIsSound

(* Starts are kept, homings are honest, commands keep their parameters,    *)
(* the software drive tells the truth, and controller and device           *)
(* understand each other (CO_402_device_RTT_msh.c:586,                     *)
(* CO_402_device_RTT_demo.c:417).                                          *)
THEOREM MotionIsHonest == Spec => []MotionIsSafe
<1>1. Motion!MotionIsSafe /\ Demo!DemoDriveIsTrue /\ Link!WordsAreUnderstood => MotionIsSafe
  BY DEF MotionIsSafe
<1> QED
  BY <1>1, MotionSafe, DemoDriveIsHonest, WordsUnderstood, PTL

(* A console command works on a runtime that is there, is seen whole, and  *)
(* takes the number that was typed (CO_402_device_RTT_msh.c:108, :221).    *)
THEOREM ConsoleSafe == Spec => []ConsoleIsSafe
<1>1. Shell!ShellIsSafe /\ Argument!ArgumentsAreExact => ConsoleIsSafe
  BY DEF ConsoleIsSafe
<1> QED
  BY <1>1, ShellSafe, NumbersAreExact, PTL

=============================================================================
