------------------------ MODULE PdsSupervisor_proofs ------------------------
(***************************************************************************)
(* Proofs about PdsSupervisor: for any modes and faults, one owner at a    *)
(* time moves the drive and the drive does what that owner stands for,     *)
(* state, latched fault and error bit tell one story, and states change    *)
(* along the documented edges, out of Fault on a fresh edge only.          *)
(***************************************************************************)
EXTENDS PdsSupervisor, FiniteSetTheorems, TLAPS

Goals     == {"switchOnDisabled", "ready", "switchedOn", "enabled", "quickStop"}
Diagnoses == [fault : Faults \cup {NoFault}, contractFailed : BOOLEAN,
              event : {"none", "report", "reset"}]

-----------------------------------------------------------------------------
(* One owner, in a state whose handler polls it; a latched transition is   *)
(* on its way along an edge.                                               *)
OwnerInv ==
    /\ target # "none" =>
          /\ target \in Goals /\ state \in Goals
          /\ target = state \/ <<state, target>> \in Edges
          /\ ~ModePending /\ ~resetting
    /\ exiting # NoMode => entering = NoMode
    /\ ModePending => ~resetting /\ state \in ModeStates
    /\ resetting => state = "fault"

(* The drive does what the owner stands for, except from a fault until the *)
(* same pass reacts to it.                                                 *)
BusyMatches ==
    CASE target # "none"    -> busy = "pds"
      [] exiting # NoMode   -> busy = "exit"
      [] entering # NoMode  -> busy = "enter"
      [] resetting          -> busy = "reset"
      [] state = "reaction" -> busy \in {"none", "reaction"}
      [] OTHER              -> busy = "none"

BusyInv == phase = "react" \/ (phase = "fsa" /\ state = "reaction") \/ BusyMatches

PhaseInv ==
    /\ phase = "react" => state = "reaction"
    /\ ~link => phase = "idle"
    /\ phase = "idle" => diag.event = "none"
    /\ phase \in {"idle", "flush"} => status.state = state /\ status.mode = mode

(* The event slot leads the error bit to the latched fault.                *)
EventTrue(d, e) ==
    /\ d.event = "report" => d.fault # NoFault
    /\ d.event = "reset"  => d.fault = NoFault
    /\ d.event = "none"   => (e # NoFault <=> d.fault # NoFault)

EmcyInv == link => EventTrue(diag, emcy)

(* An edge that no snapshot has seen was written since the last one.       *)
EdgeInv == od.bit /\ ~previousBit => raised

Sound == /\ OwnerInv /\ BusyInv /\ PhaseInv /\ DiagnosisCoherent /\ EmcyInv
         /\ EdgeInv /\ FollowsOnlyWhenEnabled

IInv == TypeOK /\ Sound

-----------------------------------------------------------------------------
(* The diagnostic latch always holds a fault or a broken contract, and its *)
(* event still leads the error bit there.                                  *)
LEMMA LatchedSound ==
    ASSUME PdsAssumption, NEW d \in Diagnoses, NEW f \in Faults \cup {NoFault}, NEW e
    PROVE  /\ Latched(d, f) \in Diagnoses
           /\ Latched(d, f).fault # NoFault \/ Latched(d, f).contractFailed
           /\ EventTrue(d, e) => EventTrue(Latched(d, f), e)
BY DEF Latched, LatchedAgain, Diagnoses, EventTrue

(* A fault reaction takes the drive from every owner.                      *)
Reacted ==
    /\ state' = "reaction" /\ target' = "none"
    /\ exiting' = NoMode /\ entering' = NoMode /\ resetting' = FALSE
    /\ diag' \in Diagnoses
    /\ diag'.fault # NoFault \/ diag'.contractFailed
    /\ EventTrue(diag, emcy) => EventTrue(diag', emcy)

(* Entering the reaction ends every action and latches what happened. *)
LEMMA ReactionSound == IInv /\ EnterFaultReaction => Reacted
<1> SUFFICES ASSUME IInv, EnterFaultReaction PROVE Reacted
  OBVIOUS
<1>1. PICK f \in Faults \cup {NoFault} : diag' = Latched(diag, f)
  BY DEF EnterFaultReaction
<1>2. diag \in Diagnoses
  BY DEF IInv, TypeOK, Diagnoses
<1> QED
  BY <1>1, <1>2, LatchedSound, PdsAssumption DEF EnterFaultReaction, RetireTokens, Reacted

(* The owner is handed over whole: taken, moved on, finished or retired.   *)
LEMMA OwnerStep == IInv /\ [Next]_vars => OwnerInv'
<1> SUFFICES ASSUME IInv, [Next]_vars PROVE OwnerInv'
  OBVIOUS
<1>0. EnterFaultReaction => Reacted
  BY ReactionSound
<1> USE PdsAssumption DEF IInv, Sound, OwnerInv, ModePending, Goals,
            ModeStates, Edges, States, Faulted, tokenVars, ownerVars,
            outVars, masterVars, inputVars, modePhaseVars, Snapshot,
            Unowned, ModePhase, Reacted
<1>1. CASE PassBegin
  BY <1>0, <1>1 DEF PassBegin, Polled
<1>2. CASE ReadFailed
  BY <1>0, <1>2 DEF ReadFailed
<1>3. CASE ReactNow
  BY <1>3 DEF ReactNow, React, PhaseInv
<1>4. CASE Preempt
  BY <1>0, <1>4 DEF Preempt, Preempted, SafetyTarget, Priority, RetireTokens, Error
<1>5. CASE ModeOwnsDrive
  BY <1>5 DEF ModeOwnsDrive
<1>6. CASE ContinuePds
  BY <1>0, <1>6 DEF ContinuePds, PdsTransition, Busy, Done, Error
<1>7. CASE StartPds
  BY <1>0, <1>7 DEF StartPds, Accepted, PdsTransition, Busy, Done, Error
<1>8. CASE NoCommand
  BY <1>8 DEF NoCommand
<1>9. CASE BecomeReady
  BY <1>9 DEF BecomeReady
<1>10. CASE FaultReaction
  BY <1>10 DEF FaultReaction, React
<1>11. CASE StayInFault
  BY <1>11 DEF StayInFault
<1>12. CASE ResetBusy
  BY <1>12 DEF ResetBusy, ResetAllowed
<1>13. CASE ResetDone
  BY <1>13 DEF ResetDone, ResetAllowed, Clearable
<1>14. CASE ResetFailed
  BY <1>14 DEF ResetFailed, ResetAllowed, RetireTokens
<1>15. CASE PdsOwnsDrive
  BY <1>15 DEF PdsOwnsDrive
<1>16. CASE ContinueMode
  BY <1>0, <1>16 DEF ContinueMode, Exit, Enter, ModeFailed, Error
<1>17. CASE SelectMode
  BY <1>0, <1>17 DEF SelectMode, Selected, Exit, Enter, ModeFailed, Error
<1>18. CASE RunMode
  BY <1>0, <1>18 DEF RunMode, ModeFailed, Error
<1>19. CASE Publish
  BY <1>19 DEF Publish
<1>20. CASE Flush
  BY <1>20 DEF Flush, Flushed
<1>21. CASE MasterWrites
  BY <1>21 DEF MasterWrites
<1>22. CASE Sync
  BY <1>22 DEF Sync
<1>23. CASE CommunicationStop
  BY <1>23 DEF CommunicationStop
<1>24. CASE CommunicationReady
  BY <1>24 DEF CommunicationReady
<1>25. CASE UNCHANGED vars
  BY <1>25 DEF vars
<1> QED
  BY <1>1, <1>2, <1>3, <1>4, <1>5, <1>6, <1>7, <1>8, <1>9, <1>10, <1>11, <1>12,
     <1>13, <1>14, <1>15, <1>16, <1>17, <1>18, <1>19, <1>20, <1>21, <1>22, <1>23,
     <1>24, <1>25
     DEF Next, Pass

(* No action of the drive goes on without its owner, nor ends with it.     *)
LEMMA BusyStep == IInv /\ [Next]_vars => BusyInv'
<1> SUFFICES ASSUME IInv, [Next]_vars PROVE BusyInv'
  OBVIOUS
<1>0. EnterFaultReaction => Reacted
  BY ReactionSound
<1> USE PdsAssumption DEF IInv, Sound, OwnerInv, BusyInv, BusyMatches,
            ModePending, PhaseInv, ModeStates, Faulted, Goals, TypeOK,
            tokenVars, ownerVars, outVars, masterVars, inputVars,
            modePhaseVars, Snapshot, Unowned, ModePhase, Reacted
<1>1. CASE PassBegin
  BY <1>0, <1>1 DEF PassBegin, Polled
<1>2. CASE ReadFailed
  BY <1>0, <1>2 DEF ReadFailed
<1>3. CASE ReactNow
  BY <1>3 DEF ReactNow, React
<1>4. CASE Preempt
  BY <1>0, <1>4 DEF Preempt, Preempted, SafetyTarget, Priority, RetireTokens, Error
<1>5. CASE ModeOwnsDrive
  BY <1>5 DEF ModeOwnsDrive
<1>6. CASE ContinuePds
  BY <1>0, <1>6 DEF ContinuePds, PdsTransition, Busy, Done, Error
<1>7. CASE StartPds
  BY <1>0, <1>7 DEF StartPds, Accepted, PdsTransition, Busy, Done, Error
<1>8. CASE NoCommand
  BY <1>8 DEF NoCommand
<1>9. CASE BecomeReady
  BY <1>9 DEF BecomeReady
<1>10. CASE FaultReaction
  BY <1>10 DEF FaultReaction, React
<1>11. CASE StayInFault
  BY <1>11 DEF StayInFault
<1>12. CASE ResetBusy
  BY <1>12 DEF ResetBusy, ResetAllowed
<1>13. CASE ResetDone
  BY <1>13 DEF ResetDone, ResetAllowed, Clearable
<1>14. CASE ResetFailed
  BY <1>14 DEF ResetFailed, ResetAllowed, RetireTokens
<1>15. CASE PdsOwnsDrive
  BY <1>15 DEF PdsOwnsDrive
<1>16. CASE ContinueMode
  BY <1>0, <1>16 DEF ContinueMode, Exit, Enter, ModeFailed, Error
<1>17. CASE SelectMode
  BY <1>0, <1>17 DEF SelectMode, Selected, Exit, Enter, ModeFailed, Error
<1>18. CASE RunMode
  BY <1>0, <1>18 DEF RunMode, ModeFailed, Error
<1>19. CASE Publish
  BY <1>19 DEF Publish
<1>20. CASE Flush
  BY <1>20 DEF Flush, Flushed
<1>21. CASE MasterWrites
  BY <1>21 DEF MasterWrites
<1>22. CASE Sync
  BY <1>22 DEF Sync
<1>23. CASE CommunicationStop
  BY <1>23 DEF CommunicationStop
<1>24. CASE CommunicationReady
  BY <1>24 DEF CommunicationReady
<1>25. CASE UNCHANGED vars
  BY <1>25 DEF vars
<1> QED
  BY <1>1, <1>2, <1>3, <1>4, <1>5, <1>6, <1>7, <1>8, <1>9, <1>10, <1>11, <1>12,
     <1>13, <1>14, <1>15, <1>16, <1>17, <1>18, <1>19, <1>20, <1>21, <1>22, <1>23,
     <1>24, <1>25
     DEF Next, Pass

(* So does a reset that fails, whatever it has broken.                     *)
LEMMA ResetFailedSound ==
    IInv /\ ResetFailed => /\ state' = "reaction" /\ diag' \in Diagnoses
                           /\ diag'.fault # NoFault \/ diag'.contractFailed
                           /\ EventTrue(diag, emcy) => EventTrue(diag', emcy)
<1> SUFFICES ASSUME IInv, ResetFailed
             PROVE  /\ state' = "reaction" /\ diag' \in Diagnoses
                    /\ diag'.fault # NoFault \/ diag'.contractFailed
                    /\ EventTrue(diag, emcy) => EventTrue(diag', emcy)
  OBVIOUS
<1>1. PICK f \in Faults \cup {NoFault}, notCleared \in BOOLEAN :
        diag' = Latched([diag EXCEPT !.contractFailed = @ \/ notCleared], f)
  BY DEF ResetFailed
<1> DEFINE d == [diag EXCEPT !.contractFailed = @ \/ notCleared]
<1>2. d \in Diagnoses /\ (EventTrue(diag, emcy) => EventTrue(d, emcy))
  BY DEF IInv, TypeOK, Diagnoses, EventTrue
<1>3. diag' = Latched(d, f) /\ state' = "reaction"
  BY <1>1 DEF ResetFailed
<1> HIDE DEF d
<1> QED
  BY <1>2, <1>3, LatchedSound, PdsAssumption

(* Fault state, latched fault and error bit keep telling one story.        *)
LEMMA RecordStep == IInv /\ [Next]_vars => (DiagnosisCoherent /\ EmcyInv)'
<1> SUFFICES ASSUME IInv, [Next]_vars PROVE (DiagnosisCoherent /\ EmcyInv)'
  OBVIOUS
<1>0. EnterFaultReaction => Reacted
  BY ReactionSound
<1>r. ResetFailed => /\ state' = "reaction" /\ diag' \in Diagnoses
                     /\ diag'.fault # NoFault \/ diag'.contractFailed
                     /\ EventTrue(diag, emcy) => EventTrue(diag', emcy)
  BY ResetFailedSound
<1> USE PdsAssumption DEF IInv, Sound, OwnerInv, PhaseInv,
            DiagnosisCoherent, EmcyInv, EventTrue, ModePending, Faulted,
            ModeStates, Goals, TypeOK, tokenVars, ownerVars, outVars,
            masterVars, inputVars, modePhaseVars, Snapshot, Unowned,
            ModePhase, Reacted
<1>1. CASE PassBegin
  BY <1>0, <1>1 DEF PassBegin, Polled
<1>2. CASE ReadFailed
  BY <1>0, <1>2 DEF ReadFailed
<1>3. CASE ReactNow
  BY <1>3 DEF ReactNow, React
<1>4. CASE Preempt
  BY <1>0, <1>4 DEF Preempt, Preempted, SafetyTarget, Priority, RetireTokens, Error
<1>5. CASE ModeOwnsDrive
  BY <1>5 DEF ModeOwnsDrive
<1>6. CASE ContinuePds
  BY <1>0, <1>6 DEF ContinuePds, PdsTransition, Busy, Done, Error
<1>7. CASE StartPds
  BY <1>0, <1>7 DEF StartPds, Accepted, PdsTransition, Busy, Done, Error
<1>8. CASE NoCommand
  BY <1>8 DEF NoCommand
<1>9. CASE BecomeReady
  BY <1>9 DEF BecomeReady
<1>10. CASE FaultReaction
  BY <1>10 DEF FaultReaction, React
<1>11. CASE StayInFault
  BY <1>11 DEF StayInFault
<1>12. CASE ResetBusy
  BY <1>12 DEF ResetBusy, ResetAllowed
<1>13. CASE ResetDone
  BY <1>13 DEF ResetDone, ResetAllowed, Clearable
<1>14. CASE ResetFailed
  BY <1>r, <1>14 DEF ResetFailed, ResetAllowed
<1>15. CASE PdsOwnsDrive
  BY <1>15 DEF PdsOwnsDrive
<1>16. CASE ContinueMode
  BY <1>0, <1>16 DEF ContinueMode, Exit, Enter, ModeFailed, Error
<1>17. CASE SelectMode
  BY <1>0, <1>17 DEF SelectMode, Selected, Exit, Enter, ModeFailed, Error
<1>18. CASE RunMode
  BY <1>0, <1>18 DEF RunMode, ModeFailed, Error
<1>19. CASE Publish
  BY <1>19 DEF Publish
<1>20. CASE Flush
  BY <1>20 DEF Flush, Flushed
<1>21. CASE MasterWrites
  BY <1>21 DEF MasterWrites
<1>22. CASE Sync
  BY <1>22 DEF Sync
<1>23. CASE CommunicationStop
  BY <1>23 DEF CommunicationStop
<1>24. CASE CommunicationReady
  BY <1>24 DEF CommunicationReady, Replayed
<1>25. CASE UNCHANGED vars
  BY <1>25 DEF vars
<1> QED
  BY <1>1, <1>2, <1>3, <1>4, <1>5, <1>6, <1>7, <1>8, <1>9, <1>10, <1>11, <1>12,
     <1>13, <1>14, <1>15, <1>16, <1>17, <1>18, <1>19, <1>20, <1>21, <1>22, <1>23,
     <1>24, <1>25
     DEF Next, Pass

(* What a pass publishes, and the edges of bit 7 it has seen.              *)
LEMMA StatusStep == IInv /\ [Next]_vars => (PhaseInv /\ EdgeInv /\ FollowsOnlyWhenEnabled)'
<1> SUFFICES ASSUME IInv, [Next]_vars PROVE (PhaseInv /\ EdgeInv /\ FollowsOnlyWhenEnabled)'
  OBVIOUS
<1>0. EnterFaultReaction => Reacted
  BY ReactionSound
<1> USE PdsAssumption DEF IInv, Sound, OwnerInv, PhaseInv, EdgeInv,
            FollowsOnlyWhenEnabled, TypeOK, tokenVars, ownerVars, outVars,
            masterVars, inputVars, modePhaseVars, EdgeTracked, Snapshot,
            Unowned, ModePhase, Reacted
<1>1. CASE PassBegin
  BY <1>0, <1>1 DEF PassBegin, Polled
<1>2. CASE ReadFailed
  BY <1>0, <1>2 DEF ReadFailed
<1>3. CASE ReactNow
  BY <1>3 DEF ReactNow, React
<1>4. CASE Preempt
  BY <1>0, <1>4 DEF Preempt, Preempted, SafetyTarget, Priority, RetireTokens, Error
<1>5. CASE ModeOwnsDrive
  BY <1>5 DEF ModeOwnsDrive
<1>6. CASE ContinuePds
  BY <1>0, <1>6 DEF ContinuePds, PdsTransition, Busy, Done, Error
<1>7. CASE StartPds
  BY <1>0, <1>7 DEF StartPds, Accepted, PdsTransition, Busy, Done, Error
<1>8. CASE NoCommand
  BY <1>8 DEF NoCommand
<1>9. CASE BecomeReady
  BY <1>9 DEF BecomeReady
<1>10. CASE FaultReaction
  BY <1>10 DEF FaultReaction, React
<1>11. CASE StayInFault
  BY <1>11 DEF StayInFault
<1>12. CASE ResetBusy
  BY <1>12 DEF ResetBusy, ResetAllowed
<1>13. CASE ResetDone
  BY <1>13 DEF ResetDone, ResetAllowed, Clearable
<1>14. CASE ResetFailed
  BY <1>14 DEF ResetFailed, ResetAllowed, RetireTokens
<1>15. CASE PdsOwnsDrive
  BY <1>15 DEF PdsOwnsDrive
<1>16. CASE ContinueMode
  BY <1>0, <1>16 DEF ContinueMode, Exit, Enter, ModeFailed, Error
<1>17. CASE SelectMode
  BY <1>0, <1>17 DEF SelectMode, Selected, Exit, Enter, ModeFailed, Error
<1>18. CASE RunMode
  BY <1>0, <1>18 DEF RunMode, ModeFailed, Error
<1>19. CASE Publish
  BY <1>19 DEF Publish, Eligible
<1>20. CASE Flush
  BY <1>20 DEF Flush, Flushed
<1>21. CASE MasterWrites
  BY <1>21 DEF MasterWrites
<1>22. CASE Sync
  BY <1>22 DEF Sync, Eligible
<1>23. CASE CommunicationStop
  BY <1>23 DEF CommunicationStop
<1>24. CASE CommunicationReady
  BY <1>24 DEF CommunicationReady, Replayed
<1>25. CASE UNCHANGED vars
  BY <1>25 DEF vars
<1> QED
  BY <1>1, <1>2, <1>3, <1>4, <1>5, <1>6, <1>7, <1>8, <1>9, <1>10, <1>11, <1>12,
     <1>13, <1>14, <1>15, <1>16, <1>17, <1>18, <1>19, <1>20, <1>21, <1>22, <1>23,
     <1>24, <1>25
     DEF Next, Pass

(* The parts of the type invariant.                                        *)
ControlType ==
    /\ state \in States /\ mode \in Modes \cup {NoMode}
    /\ target \in States \cup {"none"}
    /\ exiting \in Modes \cup {NoMode} /\ entering \in Modes \cup {NoMode}
    /\ phase \in {"idle", "fsa", "react", "mode", "publish", "flush"}
    /\ request \in Requests
    /\ busy \in {"none", "pds", "exit", "enter", "reset", "reaction"}

FlagType == {resetting, previousBit, follows, link, raised} \subseteq BOOLEAN

RecordType ==
    /\ diag \in Diagnoses
    /\ od \in [command : Commands, bit : BOOLEAN, mode : Requests]
    /\ status \in [state : States, mode : Modes \cup {NoMode}, follows : BOOLEAN]
    /\ emcy \in Faults \cup {NoFault}

(* Control state and control points keep their types.                      *)
LEMMA ControlTypeStep == IInv /\ [Next]_vars => ControlType'
<1> SUFFICES ASSUME IInv, [Next]_vars PROVE ControlType'
  OBVIOUS
<1>0. EnterFaultReaction => Reacted
  BY ReactionSound
<1> USE PdsAssumption DEF IInv, Sound, TypeOK, ControlType, OwnerInv,
            PhaseInv, Goals, States, Modes, Requests, tokenVars, ownerVars,
            outVars, masterVars, inputVars, modePhaseVars, Snapshot,
            Unowned, ModePhase, Reacted
<1>1. CASE PassBegin
  BY <1>0, <1>1 DEF PassBegin, Polled
<1>2. CASE ReadFailed
  BY <1>0, <1>2 DEF ReadFailed
<1>3. CASE ReactNow
  BY <1>3 DEF ReactNow, React
<1>4. CASE Preempt
  BY <1>0, <1>4 DEF Preempt, Preempted, SafetyTarget, Priority, RetireTokens, Error
<1>5. CASE ModeOwnsDrive
  BY <1>5 DEF ModeOwnsDrive
<1>6. CASE ContinuePds
  BY <1>0, <1>6 DEF ContinuePds, PdsTransition, Busy, Done, Error
<1>7. CASE StartPds
  BY <1>0, <1>7 DEF StartPds, Accepted, PdsTransition, Busy, Done, Error
<1>8. CASE NoCommand
  BY <1>8 DEF NoCommand
<1>9. CASE BecomeReady
  BY <1>9 DEF BecomeReady
<1>10. CASE FaultReaction
  BY <1>10 DEF FaultReaction, React
<1>11. CASE StayInFault
  BY <1>11 DEF StayInFault
<1>12. CASE ResetBusy
  BY <1>12 DEF ResetBusy, ResetAllowed
<1>13. CASE ResetDone
  BY <1>13 DEF ResetDone, ResetAllowed, Clearable
<1>14. CASE ResetFailed
  BY <1>14 DEF ResetFailed, ResetAllowed, RetireTokens
<1>15. CASE PdsOwnsDrive
  BY <1>15 DEF PdsOwnsDrive
<1>16. CASE ContinueMode
  BY <1>0, <1>16 DEF ContinueMode, Exit, Enter, ModeFailed, Error
<1>17. CASE SelectMode
  BY <1>0, <1>17 DEF SelectMode, Selected, Exit, Enter, ModeFailed, Error
<1>18. CASE RunMode
  BY <1>0, <1>18 DEF RunMode, ModeFailed, Error
<1>19. CASE Publish
  BY <1>19 DEF Publish
<1>20. CASE Flush
  BY <1>20 DEF Flush, Flushed
<1>21. CASE MasterWrites
  BY <1>21 DEF MasterWrites
<1>22. CASE Sync
  BY <1>22 DEF Sync
<1>23. CASE CommunicationStop
  BY <1>23 DEF CommunicationStop
<1>24. CASE CommunicationReady
  BY <1>24 DEF CommunicationReady
<1>25. CASE UNCHANGED vars
  BY <1>25 DEF vars
<1> QED
  BY <1>1, <1>2, <1>3, <1>4, <1>5, <1>6, <1>7, <1>8, <1>9, <1>10, <1>11, <1>12,
     <1>13, <1>14, <1>15, <1>16, <1>17, <1>18, <1>19, <1>20, <1>21, <1>22, <1>23,
     <1>24, <1>25
     DEF Next, Pass

(* The flags stay Boolean.                                                 *)
LEMMA FlagTypeStep == IInv /\ [Next]_vars => FlagType'
<1> SUFFICES ASSUME IInv, [Next]_vars PROVE FlagType'
  OBVIOUS
<1>0. EnterFaultReaction => Reacted
  BY ReactionSound
<1> USE PdsAssumption DEF IInv, Sound, TypeOK, FlagType, tokenVars,
            ownerVars, outVars, masterVars, inputVars, modePhaseVars,
            EdgeTracked, Snapshot, Unowned, ModePhase, Reacted
<1>1. CASE PassBegin
  BY <1>0, <1>1 DEF PassBegin, Polled
<1>2. CASE ReadFailed
  BY <1>0, <1>2 DEF ReadFailed
<1>3. CASE ReactNow
  BY <1>3 DEF ReactNow, React
<1>4. CASE Preempt
  BY <1>0, <1>4 DEF Preempt, Preempted, SafetyTarget, Priority, RetireTokens, Error
<1>5. CASE ModeOwnsDrive
  BY <1>5 DEF ModeOwnsDrive
<1>6. CASE ContinuePds
  BY <1>0, <1>6 DEF ContinuePds, PdsTransition, Busy, Done, Error
<1>7. CASE StartPds
  BY <1>0, <1>7 DEF StartPds, Accepted, PdsTransition, Busy, Done, Error
<1>8. CASE NoCommand
  BY <1>8 DEF NoCommand
<1>9. CASE BecomeReady
  BY <1>9 DEF BecomeReady
<1>10. CASE FaultReaction
  BY <1>10 DEF FaultReaction, React
<1>11. CASE StayInFault
  BY <1>11 DEF StayInFault
<1>12. CASE ResetBusy
  BY <1>12 DEF ResetBusy, ResetAllowed
<1>13. CASE ResetDone
  BY <1>13 DEF ResetDone, ResetAllowed, Clearable
<1>14. CASE ResetFailed
  BY <1>14 DEF ResetFailed, ResetAllowed, RetireTokens
<1>15. CASE PdsOwnsDrive
  BY <1>15 DEF PdsOwnsDrive
<1>16. CASE ContinueMode
  BY <1>0, <1>16 DEF ContinueMode, Exit, Enter, ModeFailed, Error
<1>17. CASE SelectMode
  BY <1>0, <1>17 DEF SelectMode, Selected, Exit, Enter, ModeFailed, Error
<1>18. CASE RunMode
  BY <1>0, <1>18 DEF RunMode, ModeFailed, Error
<1>19. CASE Publish
  BY <1>19 DEF Publish, Eligible
<1>20. CASE Flush
  BY <1>20 DEF Flush, Flushed
<1>21. CASE MasterWrites
  BY <1>21 DEF MasterWrites
<1>22. CASE Sync
  BY <1>22 DEF Sync, Eligible
<1>23. CASE CommunicationStop
  BY <1>23 DEF CommunicationStop
<1>24. CASE CommunicationReady
  BY <1>24 DEF CommunicationReady
<1>25. CASE UNCHANGED vars
  BY <1>25 DEF vars
<1> QED
  BY <1>1, <1>2, <1>3, <1>4, <1>5, <1>6, <1>7, <1>8, <1>9, <1>10, <1>11, <1>12,
     <1>13, <1>14, <1>15, <1>16, <1>17, <1>18, <1>19, <1>20, <1>21, <1>22, <1>23,
     <1>24, <1>25
     DEF Next, Pass

(* Latch, objects and error bit keep their types.                          *)
LEMMA RecordTypeStep == IInv /\ [Next]_vars => RecordType'
<1> SUFFICES ASSUME IInv, [Next]_vars PROVE RecordType'
  OBVIOUS
<1>0. EnterFaultReaction => Reacted
  BY ReactionSound
<1>r. ResetFailed => /\ state' = "reaction" /\ diag' \in Diagnoses
                     /\ diag'.fault # NoFault \/ diag'.contractFailed
                     /\ EventTrue(diag, emcy) => EventTrue(diag', emcy)
  BY ResetFailedSound
<1> USE PdsAssumption DEF IInv, Sound, TypeOK, RecordType, Diagnoses,
            tokenVars, ownerVars, outVars, masterVars, inputVars,
            modePhaseVars, Snapshot, Unowned, ModePhase, Reacted
<1>1. CASE PassBegin
  BY <1>0, <1>1 DEF PassBegin, Polled
<1>2. CASE ReadFailed
  BY <1>0, <1>2 DEF ReadFailed
<1>3. CASE ReactNow
  BY <1>3 DEF ReactNow, React
<1>4. CASE Preempt
  BY <1>0, <1>4 DEF Preempt, Preempted, SafetyTarget, Priority, RetireTokens, Error
<1>5. CASE ModeOwnsDrive
  BY <1>5 DEF ModeOwnsDrive
<1>6. CASE ContinuePds
  BY <1>0, <1>6 DEF ContinuePds, PdsTransition, Busy, Done, Error
<1>7. CASE StartPds
  BY <1>0, <1>7 DEF StartPds, Accepted, PdsTransition, Busy, Done, Error
<1>8. CASE NoCommand
  BY <1>8 DEF NoCommand
<1>9. CASE BecomeReady
  BY <1>9 DEF BecomeReady
<1>10. CASE FaultReaction
  BY <1>10 DEF FaultReaction, React
<1>11. CASE StayInFault
  BY <1>11 DEF StayInFault
<1>12. CASE ResetBusy
  BY <1>12 DEF ResetBusy, ResetAllowed
<1>13. CASE ResetDone
  BY <1>13 DEF ResetDone, ResetAllowed, Clearable
<1>14. CASE ResetFailed
  BY <1>r, <1>14 DEF ResetFailed, ResetAllowed
<1>15. CASE PdsOwnsDrive
  BY <1>15 DEF PdsOwnsDrive
<1>16. CASE ContinueMode
  BY <1>0, <1>16 DEF ContinueMode, Exit, Enter, ModeFailed, Error
<1>17. CASE SelectMode
  BY <1>0, <1>17 DEF SelectMode, Selected, Exit, Enter, ModeFailed, Error
<1>18. CASE RunMode
  BY <1>0, <1>18 DEF RunMode, ModeFailed, Error
<1>19. CASE Publish
  BY <1>19 DEF Publish, Eligible
<1>20. CASE Flush
  BY <1>20 DEF Flush, Flushed
<1>21. CASE MasterWrites
  BY <1>21 DEF MasterWrites
<1>22. CASE Sync
  BY <1>22 DEF Sync, Eligible
<1>23. CASE CommunicationStop
  BY <1>23 DEF CommunicationStop
<1>24. CASE CommunicationReady
  BY <1>24 DEF CommunicationReady
<1>25. CASE UNCHANGED vars
  BY <1>25 DEF vars
<1> QED
  BY <1>1, <1>2, <1>3, <1>4, <1>5, <1>6, <1>7, <1>8, <1>9, <1>10, <1>11, <1>12,
     <1>13, <1>14, <1>15, <1>16, <1>17, <1>18, <1>19, <1>20, <1>21, <1>22, <1>23,
     <1>24, <1>25
     DEF Next, Pass

(* Every change of state is along an edge: a latched transition was on     *)
(* its way there, a preempted one has an edge to its safety state.         *)
LEMMA EdgesStep == IInv /\ [Next]_vars => (state' # state => <<state, state'>> \in Edges)
<1> SUFFICES ASSUME IInv, [Next]_vars PROVE (state' # state => <<state, state'>> \in Edges)
  OBVIOUS
<1>0. EnterFaultReaction => Reacted
  BY ReactionSound
<1> USE PdsAssumption DEF IInv, Sound, OwnerInv, PhaseInv, TypeOK, Edges,
            ModePending, ModeStates, Goals, States, Faulted, tokenVars,
            ownerVars, outVars, masterVars, inputVars, modePhaseVars,
            Snapshot, Unowned, ModePhase, Reacted
<1>1. CASE PassBegin
  BY <1>0, <1>1 DEF PassBegin, Polled
<1>2. CASE ReadFailed
  BY <1>0, <1>2 DEF ReadFailed
<1>3. CASE ReactNow
  BY <1>3 DEF ReactNow, React
<1>4. CASE Preempt
  BY <1>0, <1>4 DEF Preempt, Preempted, SafetyTarget, Priority, RetireTokens, Error
<1>5. CASE ModeOwnsDrive
  BY <1>5 DEF ModeOwnsDrive
<1>6. CASE ContinuePds
  BY <1>0, <1>6 DEF ContinuePds, PdsTransition, Busy, Done, Error
<1>7. CASE StartPds
  BY <1>0, <1>7 DEF StartPds, Accepted, PdsTransition, Busy, Done, Error
<1>8. CASE NoCommand
  BY <1>8 DEF NoCommand
<1>9. CASE BecomeReady
  BY <1>9 DEF BecomeReady
<1>10. CASE FaultReaction
  BY <1>10 DEF FaultReaction, React
<1>11. CASE StayInFault
  BY <1>11 DEF StayInFault
<1>12. CASE ResetBusy
  BY <1>12 DEF ResetBusy, ResetAllowed
<1>13. CASE ResetDone
  BY <1>13 DEF ResetDone, ResetAllowed, Clearable
<1>14. CASE ResetFailed
  BY <1>14 DEF ResetFailed, ResetAllowed, RetireTokens
<1>15. CASE PdsOwnsDrive
  BY <1>15 DEF PdsOwnsDrive
<1>16. CASE ContinueMode
  BY <1>0, <1>16 DEF ContinueMode, Exit, Enter, ModeFailed, Error
<1>17. CASE SelectMode
  BY <1>0, <1>17 DEF SelectMode, Selected, Exit, Enter, ModeFailed, Error
<1>18. CASE RunMode
  BY <1>0, <1>18 DEF RunMode, ModeFailed, Error
<1>19. CASE Publish
  BY <1>19 DEF Publish
<1>20. CASE Flush
  BY <1>20 DEF Flush, Flushed
<1>21. CASE MasterWrites
  BY <1>21 DEF MasterWrites
<1>22. CASE Sync
  BY <1>22 DEF Sync
<1>23. CASE CommunicationStop
  BY <1>23 DEF CommunicationStop
<1>24. CASE CommunicationReady
  BY <1>24 DEF CommunicationReady
<1>25. CASE UNCHANGED vars
  BY <1>25 DEF vars
<1> QED
  BY <1>1, <1>2, <1>3, <1>4, <1>5, <1>6, <1>7, <1>8, <1>9, <1>10, <1>11, <1>12,
     <1>13, <1>14, <1>15, <1>16, <1>17, <1>18, <1>19, <1>20, <1>21, <1>22, <1>23,
     <1>24, <1>25
     DEF Next, Pass

(* A fault is left only on an edge that no snapshot has seen.              *)
LEMMA HeldStep == IInv /\ [Next]_vars => 
        (~resetting /\ state = "fault" /\ (resetting' \/ state' # "fault") => raised)
<1> SUFFICES ASSUME IInv, [Next]_vars PROVE 
        (~resetting /\ state = "fault" /\ (resetting' \/ state' # "fault") => raised)
  OBVIOUS
<1>0. EnterFaultReaction => Reacted
  BY ReactionSound
<1> USE PdsAssumption DEF IInv, Sound, OwnerInv, PhaseInv,
            DiagnosisCoherent, EdgeInv, TypeOK, ModePending, ModeStates,
            Goals, Faulted, tokenVars, ownerVars, outVars, masterVars,
            inputVars, modePhaseVars, Snapshot, Unowned, ModePhase, Reacted
<1>1. CASE PassBegin
  BY <1>0, <1>1 DEF PassBegin, Polled
<1>2. CASE ReadFailed
  BY <1>0, <1>2 DEF ReadFailed
<1>3. CASE ReactNow
  BY <1>3 DEF ReactNow, React
<1>4. CASE Preempt
  BY <1>0, <1>4 DEF Preempt, Preempted, SafetyTarget, Priority, RetireTokens, Error
<1>5. CASE ModeOwnsDrive
  BY <1>5 DEF ModeOwnsDrive
<1>6. CASE ContinuePds
  BY <1>0, <1>6 DEF ContinuePds, PdsTransition, Busy, Done, Error
<1>7. CASE StartPds
  BY <1>0, <1>7 DEF StartPds, Accepted, PdsTransition, Busy, Done, Error
<1>8. CASE NoCommand
  BY <1>8 DEF NoCommand
<1>9. CASE BecomeReady
  BY <1>9 DEF BecomeReady
<1>10. CASE FaultReaction
  BY <1>10 DEF FaultReaction, React
<1>11. CASE StayInFault
  BY <1>11 DEF StayInFault
<1>12. CASE ResetBusy
  BY <1>12 DEF ResetBusy, ResetAllowed, RisingEdge
<1>13. CASE ResetDone
  BY <1>13 DEF ResetDone, ResetAllowed, Clearable, RisingEdge
<1>14. CASE ResetFailed
  BY <1>14 DEF ResetFailed, ResetAllowed, RetireTokens, RisingEdge
<1>15. CASE PdsOwnsDrive
  BY <1>15 DEF PdsOwnsDrive
<1>16. CASE ContinueMode
  BY <1>0, <1>16 DEF ContinueMode, Exit, Enter, ModeFailed, Error
<1>17. CASE SelectMode
  BY <1>0, <1>17 DEF SelectMode, Selected, Exit, Enter, ModeFailed, Error
<1>18. CASE RunMode
  BY <1>0, <1>18 DEF RunMode, ModeFailed, Error
<1>19. CASE Publish
  BY <1>19 DEF Publish
<1>20. CASE Flush
  BY <1>20 DEF Flush, Flushed
<1>21. CASE MasterWrites
  BY <1>21 DEF MasterWrites
<1>22. CASE Sync
  BY <1>22 DEF Sync
<1>23. CASE CommunicationStop
  BY <1>23 DEF CommunicationStop
<1>24. CASE CommunicationReady
  BY <1>24 DEF CommunicationReady
<1>25. CASE UNCHANGED vars
  BY <1>25 DEF vars
<1> QED
  BY <1>1, <1>2, <1>3, <1>4, <1>5, <1>6, <1>7, <1>8, <1>9, <1>10, <1>11, <1>12,
     <1>13, <1>14, <1>15, <1>16, <1>17, <1>18, <1>19, <1>20, <1>21, <1>22, <1>23,
     <1>24, <1>25
     DEF Next, Pass

(* The invariant holds throughout. *)
LEMMA Invariance == Spec => []IInv
<1>1. Init => IInv
  <2> SUFFICES ASSUME Init PROVE IInv
    OBVIOUS
  <2> USE DEF Init
  <2>1. TypeOK
    BY PdsAssumption DEF TypeOK, States, Modes, Requests, Commands
  <2>2. Sound
    BY DEF Sound, OwnerInv, BusyInv, BusyMatches, PhaseInv, DiagnosisCoherent, EmcyInv,
           EdgeInv, FollowsOnlyWhenEnabled, ModePending, Faulted
  <2> QED
    BY <2>1, <2>2 DEF IInv
<1>2. IInv /\ [Next]_vars => IInv'
  <2>1. IInv /\ [Next]_vars => TypeOK'
    BY ControlTypeStep, FlagTypeStep, RecordTypeStep
       DEF TypeOK, ControlType, FlagType, RecordType, Diagnoses
  <2>2. IInv /\ [Next]_vars => Sound'
    BY OwnerStep, BusyStep, RecordStep, StatusStep DEF Sound
  <2> QED
    BY <2>1, <2>2 DEF IInv
<1> QED
  BY <1>1, <1>2, PTL DEF Spec

-----------------------------------------------------------------------------
(* At most one token exists, in a state whose handler polls it.            *)
LEMMA OneOwnerHolds == IInv => OneOwner
<1> SUFFICES ASSUME IInv PROVE OneOwner
  OBVIOUS
<1> DEFINE owners == {t \in {"pds", "exit", "enter", "reset"} :
                        CASE t = "pds"   -> target # "none"
                          [] t = "exit"  -> exiting # NoMode
                          [] t = "enter" -> entering # NoMode
                          [] t = "reset" -> resetting}
<1>1. \A t, u \in owners : t = u
  BY DEF IInv, Sound, OwnerInv, ModePending
<1> HIDE DEF owners
<1>2. owners = {} \/ \E t : owners = {t}
  <2>1. CASE \E t \in owners : TRUE
    <3>1. PICK t \in owners : TRUE
      BY <2>1
    <3>2. owners = {t}
      BY <1>1, <3>1
    <3> QED
      BY <3>2
  <2>2. CASE owners = {}
    BY <2>2
  <2> QED
    BY <2>1, <2>2
<1>3. Cardinality(owners) <= 1
  <2>1. CASE owners = {}
    <3>1. Cardinality(owners) = 0
      BY <2>1, FS_EmptySet, Zenon
    <3> QED
      BY <3>1
  <2>2. ASSUME NEW t, owners = {t} PROVE Cardinality(owners) <= 1
    <3>1. Cardinality(owners) = 1
      BY <2>2, FS_Singleton, Zenon
    <3> QED
      BY <3>1
  <2> QED
    BY <1>2, <2>1, <2>2
<1>4. /\ ModePending => state \in ModeStates
      /\ resetting => state = "fault"
      /\ target # "none" => state \notin Faulted \cup {"notReady"}
  BY DEF IInv, Sound, OwnerInv, Goals, Faulted
<1> QED
  BY <1>3, <1>4 DEF OneOwner, owners

(* The drive has one owner, whose action it is at between passes, and is   *)
(* said to follow only when that owner commands it                         *)
(* (CO_402_device_fsa.c:35).                                               *)
THEOREM OwnershipClear == Spec => []OwnershipIsClear
<1>1. IInv => DriveMatchesOwner
  BY DEF IInv, Sound, BusyInv, BusyMatches, DriveMatchesOwner
<1>2. IInv => OwnershipIsClear
  BY <1>1, OneOwnerHolds DEF OwnershipIsClear, IInv, Sound
<1> QED
  BY <1>2, Invariance, PTL

(* A fault state, a latched fault and the error bit in CO_EM_t come and go *)
(* together, also across communication resets (CO_402_device_diag.c:94).   *)
THEOREM FaultsCoherent == Spec => []FaultsAreCoherent
<1>1. IInv => FaultsAreCoherent
  BY DEF IInv, Sound, PhaseInv, EmcyInv, EventTrue, FaultsAreCoherent, EmcyMatchesDiagnosis
<1> QED
  BY <1>1, Invariance, PTL

(* States change along the documented edges, and out of Fault only on a    *)
(* fresh edge of bit 7, whatever is preempted or fails.                    *)
THEOREM EdgesEarned == Spec => EdgesAreEarned
<1>1. IInv /\ [Next]_vars => [state' # state => <<state, state'>> \in Edges]_vars
  BY EdgesStep
<1>2. IInv /\ [Next]_vars =>
        [~resetting /\ state = "fault" /\ (resetting' \/ state' # "fault") => raised]_vars
  BY HeldStep
<1> QED
  BY <1>1, <1>2, Invariance, PTL DEF Spec, EdgesAreEarned, HeldBitNeverResets, LegalEdges
=============================================================================
