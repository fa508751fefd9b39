------------------------ MODULE ProfileMaster_proofs ------------------------
(***************************************************************************)
(* Proofs about ProfileMaster: for any finite set of callers that undo a   *)
(* refused admission promptly, no caller touches detached IPC, no request  *)
(* reaches the SDO client of a deleted stack, no request times out early,  *)
(* and the transport implements RemoteCall.                                *)
(***************************************************************************)
EXTENDS ProfileMaster, FiniteSetTheorems, TLAPS

Signals == {"signalRun", "signalStop", "signalQuiesced", "signalDrain"}
Closing == {"unpublish", "cancelDeinit", "signalDrain", "drain"}

(* Who holds which mutex. *)
LockInv ==
    \A c \in Callers :
        /\ callMutex = c <=> pc[c] \in {"reqLock", "submit", "wait", "collect", "copy"}
        /\ reqMutex = c <=> pc[c] \in {"submit", "copy"}

(* A request stands for a caller that waits for it, while a mainline       *)
(* serves the stack or is just being stopped.                              *)
RequestInv ==
    /\ phase = "IDLE" => req = NoRequest
    /\ phase # "IDLE" =>
         /\ req.by \in Callers /\ pc[req.by] = "wait" /\ req.kind \in Kinds
         /\ bound # 0 /\ doneSem = 0
         /\ mpc \in {"run", "stop", "cancel"}
    /\ InSdo => sdo = bound

(* The one token of completionSem is on its way to a caller or there. *)
DoneInv ==
    /\ doneSem \in {0, 1}
    /\ mpc \in Signals => doneSem = 0
    /\ mpc \in Signals \/ doneSem > 0 =>
         phase = "IDLE" /\ \E c \in Callers : pc[c] = "wait"

(* What the runtime refers to is the stack that exists. *)
StackInv ==
    /\ mpc \in {"down", "rebuild"} => stack = 0
    /\ mpc \notin {"down", "rebuild", "halt"} => stack # 0
    /\ bound # 0 => bound = stack
    /\ mpc \in {"ready", "readyInit"} => bound # 0
    /\ mpc \in Closing \cup {"close", "delete", "down", "rebuild", "bind", "bindInit"} => bound = 0
    /\ mainReady => commReady /\ mpc \in {"run", "signalRun", "stop"}
    /\ commReady => bound # 0 /\ mpc \in {"run", "signalRun", "signalStop", "stop", "init",
                                           "inited", "halt"}

(* A transaction is charged no more than the time that has passed. *)
ClientInv ==
    /\ sdo = 0 => charged = 0
    /\ mpc \notin Closing \cup {"signalQuiesced", "quiesced", "close", "delete"} =>
         (sdo # 0 => InSdo)
    /\ InSdo => charged + gap <= age \/ age >= Timeout

ControlInv == LockInv /\ RequestInv /\ DoneInv /\ StackInv /\ ClientInv

(* Callers behind admission, and those that admissionState counts. *)
Insiders == {c \in Callers : Inside(c)}
Counted  == {c \in Callers : pc[c] = "undo" \/ (Inside(c) /\ pc[c] # "post")}

IpcInv ==
    /\ mpc \in {"down", "bindInit", "readyInit", "init"} => ~ipc
    /\ mpc = "delete" /\ leaving = "down" => ~ipc
    /\ mpc \in Closing => ipc

CountInv ==
    /\ ipc /\ mpc \notin Closing =>
         /\ admission = Cardinality(Counted) /\ drainSem = 0
         /\ \A c \in Callers : pc[c] \notin {"undo", "post"}
    /\ ipc /\ mpc \in Closing =>
         /\ admission = Cardinality(Counted) - Bias
         /\ admitted = Cardinality(Insiders) + drainSem
    /\ ~ipc =>
         /\ Insiders = {}
         /\ \/ admission = Cardinality(Counted) - Bias
            \/ admission = 0 /\ \A c \in Callers : pc[c] = "idle"

IInv == TypeOK /\ ControlInv /\ IpcInv /\ CountInv

(* The bias as a symbol: its value is large for a prover that counts.      *)
LEMMA BiasIsLarge == /\ Bias \in Nat /\ Bias \div 2 \in Nat
                     /\ Bias \div 2 < Bias /\ Bias \div 2 <= Bias - Bias \div 2
  BY SMT DEF Bias

-----------------------------------------------------------------------------
(* Each part of the invariant, action by action.                           *)

(* Every step keeps the types.                                             *)
LEMMA TypeOKStep ==
    ASSUME TypeOK, LockInv, [Next]_vars
    PROVE  TypeOK'
<1>0. CASE UNCHANGED vars
  BY <1>0 DEF vars, ipcVars, callVars, reqVars, genVars, stackVars, timeVars, mainVars,
     TypeOK, Kinds, SdoKinds, Statuses, NoRequest
<1>1. ASSUME NEW c \in Callers, Call(c) PROVE TypeOK'
  BY <1>1, MasterAssumption DEF Call, To, ipcVars, reqVars, genVars, stackVars,
     timeVars, mainVars, TypeOK, Kinds, SdoKinds, Statuses, NoRequest
<1>2. ASSUME NEW c \in Callers, AdmissionEnter(c) PROVE TypeOK'
  BY <1>2, MasterAssumption DEF AdmissionEnter, To, Open, reqVars, genVars, stackVars,
     timeVars, mainVars, TypeOK, Kinds, SdoKinds, Statuses, NoRequest
<1>3. ASSUME NEW c \in Callers, AdmissionUndo(c) PROVE TypeOK'
  BY <1>3, MasterAssumption DEF AdmissionUndo, To, reqVars, genVars, stackVars,
     timeVars, mainVars, TypeOK, Kinds, SdoKinds, Statuses, NoRequest
<1>4. ASSUME NEW c \in Callers, TakeCallMutex(c) PROVE TypeOK'
  BY <1>4, MasterAssumption DEF TakeCallMutex, To, ipcVars, reqVars, genVars, stackVars,
     timeVars, mainVars, TypeOK, Kinds, SdoKinds, Statuses, NoRequest
<1>5. ASSUME NEW c \in Callers, TakeReqMutex(c) PROVE TypeOK'
  BY <1>5, MasterAssumption DEF TakeReqMutex, To, ipcVars, reqVars, genVars, stackVars,
     timeVars, mainVars, TypeOK, Kinds, SdoKinds, Statuses, NoRequest
<1>6. ASSUME NEW c \in Callers, Busy(c) PROVE TypeOK'
  BY <1>6, MasterAssumption DEF Busy, Serviceable, To, ipcVars, reqVars, genVars,
     stackVars, timeVars, mainVars, TypeOK, Kinds, SdoKinds, Statuses, NoRequest
<1>7. ASSUME NEW c \in Callers, NEW k \in Kinds, Submit(c, k) PROVE TypeOK'
  BY <1>7, MasterAssumption DEF Submit, Serviceable, To, ipcVars, genVars, stackVars,
     timeVars, mainVars, TypeOK, Kinds, SdoKinds, Statuses, NoRequest
<1>8. ASSUME NEW c \in Callers, Completed(c) PROVE TypeOK'
  BY <1>8, MasterAssumption DEF Completed, To, ipcVars, reqVars, genVars, stackVars,
     timeVars, mainVars, TypeOK, Kinds, SdoKinds, Statuses, NoRequest
<1>9. ASSUME NEW c \in Callers, Collect(c) PROVE TypeOK'
  BY <1>9, MasterAssumption DEF Collect, To, ipcVars, reqVars, genVars, stackVars,
     timeVars, mainVars, TypeOK, Kinds, SdoKinds, Statuses, NoRequest
<1>10. ASSUME NEW c \in Callers, AdmissionLeave(c) PROVE TypeOK'
  BY <1>10, MasterAssumption DEF AdmissionLeave, To, Open, reqVars, genVars, stackVars,
     timeVars, mainVars, TypeOK, Kinds, SdoKinds, Statuses, NoRequest
<1>11. ASSUME NEW c \in Callers, PostDrain(c) PROVE TypeOK'
  BY <1>11, MasterAssumption DEF PostDrain, To, reqVars, genVars, stackVars, timeVars,
     mainVars, TypeOK, Kinds, SdoKinds, Statuses, NoRequest
<1>12. CASE PassRefused
  BY <1>12, MasterAssumption DEF PassRefused, ipcVars, callVars, reqVars, genVars,
     stackVars, mainVars, TypeOK, Kinds, SdoKinds, Statuses, NoRequest
<1>13. CASE PassIdle
  BY <1>13, MasterAssumption DEF PassIdle, ipcVars, callVars, reqVars, stackVars,
     mainVars, TypeOK, Kinds, SdoKinds, Statuses, NoRequest
<1>14. CASE PassEndsAtStart
  BY <1>14, MasterAssumption DEF PassEndsAtStart, Finish, SignalThen, ipcVars, callVars,
     stackVars, AfterFinish, NoRequest, TypeOK, Kinds, SdoKinds, Statuses
<1>15. CASE PassStartsSdo
  BY <1>15, MasterAssumption DEF PassStartsSdo, SdoKinds, SdoGoesOn, FreshStart,
     SdoEnds, ipcVars, callVars, stackVars, Finish, CloseClient, SignalThen,
     AfterFinish, NoRequest, TypeOK, Kinds, Statuses
<1>16. CASE PassContinuesSdo
  BY <1>16, MasterAssumption DEF PassContinuesSdo, InSdo, SdoGoesOn, SdoEnds, ipcVars,
     callVars, stackVars, Finish, CloseClient, SignalThen, AfterFinish, NoRequest,
     TypeOK, Kinds, SdoKinds, Statuses
<1>17. CASE Signal
  BY <1>17, MasterAssumption DEF Signal, MainTo, ipcVars, callVars, reqVars, genVars,
     stackVars, timeVars, TypeOK, Kinds, SdoKinds, Statuses, NoRequest
<1>18. CASE PassBeforeReset
  <2>1. (ipc \in BOOLEAN /\ commReady \in BOOLEAN /\ mainReady \in BOOLEAN)'
    BY <1>18, Zenon DEF PassBeforeReset, reqVars, ipcVars, callVars, stackVars, TypeOK
  <2>q. QED
    BY <1>18, <2>1, MasterAssumption, BiasIsLarge DEF PassBeforeReset, reqVars, InSdo,
       CloseClient, Finish, SignalThen, ipcVars, callVars, stackVars, AfterFinish,
       NoRequest, TypeOK, Kinds, SdoKinds, Statuses
<1>19. CASE Tick
  BY <1>19, MasterAssumption DEF Tick, ipcVars, callVars, reqVars, genVars, stackVars,
     mainVars, TypeOK, Kinds, SdoKinds, Statuses, NoRequest
<1>20. CASE CommunicationStop
  <2>1. (ipc \in BOOLEAN /\ commReady \in BOOLEAN /\ mainReady \in BOOLEAN)'
    BY <1>20, Zenon DEF CommunicationStop, ipcVars, callVars, reqVars, stackVars,
       timeVars, TypeOK
  <2>q. QED
    BY <1>20, <2>1, MasterAssumption, BiasIsLarge DEF CommunicationStop, CanPublish,
       MainTo, ipcVars, callVars, reqVars, stackVars, timeVars, TypeOK, Kinds, SdoKinds,
       Statuses, NoRequest
<1>21. CASE CancelActive
  BY <1>21, MasterAssumption DEF CancelActive, CanPublish, Inactive, MainTo, reqVars,
     Finish, ipcVars, callVars, genVars, stackVars, timeVars, AfterFinish, NoRequest,
     TypeOK, Kinds, SdoKinds, Statuses
<1>22. CASE CommunicationQuiesced
  <2>1. (ipc \in BOOLEAN /\ commReady \in BOOLEAN /\ mainReady \in BOOLEAN)'
    BY <1>22, Zenon DEF CommunicationQuiesced, ipcVars, callVars, reqVars, stackVars,
       timeVars, TypeOK
  <2>q. QED
    BY <1>22, <2>1, MasterAssumption, BiasIsLarge DEF CommunicationQuiesced, CanPublish,
       MainTo, ipcVars, callVars, reqVars, stackVars, timeVars, TypeOK, Kinds, SdoKinds,
       Statuses, NoRequest
<1>23. CASE DeleteStack
  BY <1>23, MasterAssumption DEF DeleteStack, CloseClient, ipcVars, callVars, reqVars,
     genVars, TypeOK, Kinds, SdoKinds, Statuses, NoRequest
<1>24. CASE NewStack
  BY <1>24, MasterAssumption DEF NewStack, ipcVars, callVars, reqVars, genVars,
     timeVars, TypeOK, Kinds, SdoKinds, Statuses, NoRequest
<1>25. CASE CommunicationBind
  <2>1. (ipc \in BOOLEAN /\ commReady \in BOOLEAN /\ mainReady \in BOOLEAN)'
    BY <1>25, Zenon DEF CommunicationBind, genVars, ipcVars, callVars, reqVars,
       stackVars, timeVars, TypeOK
  <2>q. QED
    BY <1>25, <2>1, MasterAssumption, BiasIsLarge DEF CommunicationBind, CanPublish,
       MainTo, genVars, ipcVars, callVars, reqVars, stackVars, timeVars, TypeOK, Kinds,
       SdoKinds, Statuses, NoRequest
<1>26. CASE CommunicationReady
  BY <1>26, MasterAssumption DEF CommunicationReady, CanPublish, MainTo, ipcVars,
     callVars, reqVars, stackVars, TypeOK, Kinds, SdoKinds, Statuses, NoRequest
<1>27. CASE RuntimeInit
  <2>1. (ipc \in BOOLEAN /\ commReady \in BOOLEAN /\ mainReady \in BOOLEAN)'
    BY <1>27, Zenon DEF RuntimeInit, callVars, reqVars, genVars, stackVars, timeVars,
       TypeOK
  <2>q. QED
    BY <1>27, <2>1, MasterAssumption, BiasIsLarge DEF RuntimeInit, MainTo, callVars,
       reqVars, genVars, stackVars, timeVars, TypeOK, Kinds, SdoKinds, Statuses,
       NoRequest
<1>28. CASE StartMain
  BY <1>28, MasterAssumption DEF StartMain, MainTo, ipcVars, callVars, reqVars, genVars,
     stackVars, timeVars, TypeOK, Kinds, SdoKinds, Statuses, NoRequest
<1>29. CASE AdmissionClose
  <2>1. (ipc \in BOOLEAN /\ commReady \in BOOLEAN /\ mainReady \in BOOLEAN)'
    BY <1>29, Zenon DEF AdmissionClose, callVars, reqVars, genVars, stackVars, timeVars,
       TypeOK
  <2>q. QED
    BY <1>29, <2>1, MasterAssumption, BiasIsLarge DEF AdmissionClose, MainTo, callVars,
       reqVars, genVars, stackVars, timeVars, TypeOK, Kinds, SdoKinds, Statuses,
       NoRequest
<1>30. CASE Unpublish
  <2>1. (ipc \in BOOLEAN /\ commReady \in BOOLEAN /\ mainReady \in BOOLEAN)'
    BY <1>30, Zenon DEF Unpublish, ipcVars, callVars, reqVars, stackVars, timeVars,
       TypeOK
  <2>q. QED
    BY <1>30, <2>1, MasterAssumption, BiasIsLarge DEF Unpublish, CanPublish, MainTo,
       ipcVars, callVars, reqVars, stackVars, timeVars, TypeOK, Kinds, SdoKinds,
       Statuses, NoRequest
<1>31. CASE AdmissionDrain
  BY <1>31, MasterAssumption DEF AdmissionDrain, callVars, reqVars, genVars, stackVars,
     timeVars, mainVars, TypeOK, Kinds, SdoKinds, Statuses, NoRequest
<1>32. CASE Detach
  <2>1. (ipc \in BOOLEAN /\ commReady \in BOOLEAN /\ mainReady \in BOOLEAN)'
    BY <1>32, Zenon DEF Detach, callVars, reqVars, stackVars, timeVars, TypeOK
  <2>q. QED
    BY <1>32, <2>1, MasterAssumption, BiasIsLarge DEF Detach, Drained, MainTo, callVars,
       reqVars, stackVars, timeVars, TypeOK, Kinds, SdoKinds, Statuses, NoRequest
<1>q. QED
  BY <1>0, <1>1, <1>2, <1>3, <1>4, <1>5, <1>6, <1>7, <1>8, <1>9, <1>10, <1>11, <1>12,
     <1>13, <1>14, <1>15, <1>16, <1>17, <1>18, <1>19, <1>20, <1>21, <1>22, <1>23, <1>24,
     <1>25, <1>26, <1>27, <1>28, <1>29, <1>30, <1>31, <1>32 DEF Next, CallerStep,
     MainStep, Pass, Hook

(* A mutex is taken free and given back by its owner.                      *)
LEMMA LockInvStep ==
    ASSUME TypeOK, LockInv, RequestInv, [Next]_vars
    PROVE  LockInv'
<1>0. CASE UNCHANGED vars
  BY <1>0 DEF vars, ipcVars, callVars, reqVars, genVars, stackVars, timeVars, mainVars,
     TypeOK, LockInv
<1>1. ASSUME NEW c \in Callers, Call(c) PROVE LockInv'
  BY <1>1, MasterAssumption DEF Call, To, ipcVars, reqVars, genVars, stackVars,
     timeVars, mainVars, TypeOK, LockInv
<1>2. ASSUME NEW c \in Callers, AdmissionEnter(c) PROVE LockInv'
  BY <1>2, MasterAssumption DEF AdmissionEnter, To, Open, reqVars, genVars, stackVars,
     timeVars, mainVars, TypeOK, LockInv
<1>3. ASSUME NEW c \in Callers, AdmissionUndo(c) PROVE LockInv'
  BY <1>3, MasterAssumption DEF AdmissionUndo, To, reqVars, genVars, stackVars,
     timeVars, mainVars, TypeOK, LockInv
<1>4. ASSUME NEW c \in Callers, TakeCallMutex(c) PROVE LockInv'
  BY <1>4, MasterAssumption DEF TakeCallMutex, To, ipcVars, reqVars, genVars, stackVars,
     timeVars, mainVars, TypeOK, LockInv
<1>5. ASSUME NEW c \in Callers, TakeReqMutex(c) PROVE LockInv'
  BY <1>5, MasterAssumption DEF TakeReqMutex, To, ipcVars, reqVars, genVars, stackVars,
     timeVars, mainVars, TypeOK, LockInv
<1>6. ASSUME NEW c \in Callers, Busy(c) PROVE LockInv'
  BY <1>6, MasterAssumption DEF Busy, Serviceable, To, ipcVars, reqVars, genVars,
     stackVars, timeVars, mainVars, TypeOK, LockInv
<1>7. ASSUME NEW c \in Callers, NEW k \in Kinds, Submit(c, k) PROVE LockInv'
  BY <1>7, MasterAssumption DEF Submit, Serviceable, To, ipcVars, genVars, stackVars,
     timeVars, mainVars, TypeOK, LockInv
<1>8. ASSUME NEW c \in Callers, Completed(c) PROVE LockInv'
  BY <1>8, MasterAssumption DEF Completed, To, ipcVars, reqVars, genVars, stackVars,
     timeVars, mainVars, TypeOK, LockInv
<1>9. ASSUME NEW c \in Callers, Collect(c) PROVE LockInv'
  BY <1>9, MasterAssumption DEF Collect, To, ipcVars, reqVars, genVars, stackVars,
     timeVars, mainVars, TypeOK, LockInv
<1>10. ASSUME NEW c \in Callers, AdmissionLeave(c) PROVE LockInv'
  BY <1>10, MasterAssumption DEF AdmissionLeave, To, Open, reqVars, genVars, stackVars,
     timeVars, mainVars, TypeOK, LockInv
<1>11. ASSUME NEW c \in Callers, PostDrain(c) PROVE LockInv'
  BY <1>11, MasterAssumption DEF PostDrain, To, reqVars, genVars, stackVars, timeVars,
     mainVars, TypeOK, LockInv
<1>12. CASE PassRefused \/ PassIdle \/ PassEndsAtStart \/ PassStartsSdo \/
   PassContinuesSdo \/ Signal \/ PassBeforeReset \/ Tick \/ CommunicationStop \/
   CancelActive \/ CommunicationQuiesced \/ DeleteStack \/ NewStack \/ CommunicationBind
   \/ CommunicationReady \/ RuntimeInit \/ StartMain \/ AdmissionClose \/ Unpublish \/
   AdmissionDrain \/ Detach
  BY <1>12 DEF PassRefused, PassIdle, PassEndsAtStart, PassStartsSdo, PassContinuesSdo,
     Signal, PassBeforeReset, Tick, CommunicationStop, CancelActive,
     CommunicationQuiesced, DeleteStack, NewStack, CommunicationBind,
     CommunicationReady, RuntimeInit, StartMain, AdmissionClose, Unpublish,
     AdmissionDrain, Detach, ipcVars, callVars, reqVars, genVars, stackVars, mainVars,
     timeVars, TypeOK, LockInv
<1>q. QED
  BY <1>0, <1>1, <1>2, <1>3, <1>4, <1>5, <1>6, <1>7, <1>8, <1>9, <1>10, <1>11, <1>12 DEF
     Next, CallerStep, MainStep, Pass, Hook

(* A request is published by a caller that waits, and withdrawn by         *)
(* finishLocked() before the stack it was published for is unbound.        *)
LEMMA RequestInvStep ==
    ASSUME IInv, [Next]_vars
    PROVE  RequestInv'
<1>0. CASE UNCHANGED vars
  BY <1>0 DEF vars, ipcVars, callVars, reqVars, genVars, stackVars, timeVars, mainVars,
     InSdo, IInv, ControlInv, TypeOK, LockInv, RequestInv, DoneInv, StackInv, ClientInv,
     CountInv, Insiders, Inside, Signals, Kinds, SdoKinds, NoRequest
<1>1. ASSUME NEW c \in Callers, Call(c) PROVE RequestInv'
  BY <1>1, MasterAssumption DEF Call, To, ipcVars, reqVars, genVars, stackVars,
     timeVars, mainVars, IInv, ControlInv, TypeOK, LockInv, RequestInv, DoneInv,
     StackInv, ClientInv, CountInv, Insiders, Inside, Signals, InSdo, Kinds, SdoKinds,
     NoRequest
<1>2. ASSUME NEW c \in Callers, AdmissionEnter(c) PROVE RequestInv'
  BY <1>2, MasterAssumption DEF AdmissionEnter, To, Open, reqVars, genVars, stackVars,
     timeVars, mainVars, IInv, ControlInv, TypeOK, LockInv, RequestInv, DoneInv,
     StackInv, ClientInv, CountInv, Insiders, Inside, Signals, InSdo, Kinds, SdoKinds,
     NoRequest
<1>3. ASSUME NEW c \in Callers, AdmissionUndo(c) PROVE RequestInv'
  BY <1>3, MasterAssumption DEF AdmissionUndo, To, reqVars, genVars, stackVars,
     timeVars, mainVars, IInv, ControlInv, TypeOK, LockInv, RequestInv, DoneInv,
     StackInv, ClientInv, CountInv, Insiders, Inside, Signals, InSdo, Kinds, SdoKinds,
     NoRequest
<1>4. ASSUME NEW c \in Callers, TakeCallMutex(c) PROVE RequestInv'
  BY <1>4, MasterAssumption DEF TakeCallMutex, To, ipcVars, reqVars, genVars, stackVars,
     timeVars, mainVars, IInv, ControlInv, TypeOK, LockInv, RequestInv, DoneInv,
     StackInv, ClientInv, CountInv, Insiders, Inside, Signals, InSdo, Kinds, SdoKinds,
     NoRequest
<1>5. ASSUME NEW c \in Callers, TakeReqMutex(c) PROVE RequestInv'
  BY <1>5, MasterAssumption DEF TakeReqMutex, To, ipcVars, reqVars, genVars, stackVars,
     timeVars, mainVars, IInv, ControlInv, TypeOK, LockInv, RequestInv, DoneInv,
     StackInv, ClientInv, CountInv, Insiders, Inside, Signals, InSdo, Kinds, SdoKinds,
     NoRequest
<1>6. ASSUME NEW c \in Callers, Busy(c) PROVE RequestInv'
  BY <1>6, MasterAssumption DEF Busy, Serviceable, To, ipcVars, reqVars, genVars,
     stackVars, timeVars, mainVars, IInv, ControlInv, TypeOK, LockInv, RequestInv,
     DoneInv, StackInv, ClientInv, CountInv, Insiders, Inside, Signals, InSdo, Kinds,
     SdoKinds, NoRequest
<1>7. ASSUME NEW c \in Callers, NEW k \in Kinds, Submit(c, k) PROVE RequestInv'
  BY <1>7, MasterAssumption DEF Submit, Serviceable, To, ipcVars, genVars, stackVars,
     timeVars, mainVars, IInv, ControlInv, TypeOK, LockInv, RequestInv, DoneInv,
     StackInv, ClientInv, CountInv, Insiders, Inside, Signals, InSdo, Kinds, SdoKinds,
     NoRequest
<1>8. ASSUME NEW c \in Callers, Completed(c) PROVE RequestInv'
  BY <1>8, MasterAssumption DEF Completed, To, ipcVars, reqVars, genVars, stackVars,
     timeVars, mainVars, IInv, ControlInv, TypeOK, LockInv, RequestInv, DoneInv,
     StackInv, ClientInv, CountInv, Insiders, Inside, Signals, InSdo, Kinds, SdoKinds,
     NoRequest
<1>9. ASSUME NEW c \in Callers, Collect(c) PROVE RequestInv'
  BY <1>9, MasterAssumption DEF Collect, To, ipcVars, reqVars, genVars, stackVars,
     timeVars, mainVars, IInv, ControlInv, TypeOK, LockInv, RequestInv, DoneInv,
     StackInv, ClientInv, CountInv, Insiders, Inside, Signals, InSdo, Kinds, SdoKinds,
     NoRequest
<1>10. ASSUME NEW c \in Callers, AdmissionLeave(c) PROVE RequestInv'
  BY <1>10, MasterAssumption DEF AdmissionLeave, To, Open, reqVars, genVars, stackVars,
     timeVars, mainVars, IInv, ControlInv, TypeOK, LockInv, RequestInv, DoneInv,
     StackInv, ClientInv, CountInv, Insiders, Inside, Signals, InSdo, Kinds, SdoKinds,
     NoRequest
<1>11. ASSUME NEW c \in Callers, PostDrain(c) PROVE RequestInv'
  BY <1>11, MasterAssumption DEF PostDrain, To, reqVars, genVars, stackVars, timeVars,
     mainVars, IInv, ControlInv, TypeOK, LockInv, RequestInv, DoneInv, StackInv,
     ClientInv, CountInv, Insiders, Inside, Signals, InSdo, Kinds, SdoKinds, NoRequest
<1>12. CASE PassRefused \/ PassIdle \/ Tick \/ AdmissionDrain
  BY <1>12 DEF PassRefused, PassIdle, Tick, AdmissionDrain, ipcVars, callVars, reqVars,
     genVars, stackVars, mainVars, timeVars, IInv, ControlInv, TypeOK, LockInv,
     RequestInv, DoneInv, StackInv, ClientInv, CountInv, Insiders, Inside, Signals,
     InSdo, Kinds, SdoKinds, NoRequest
<1>13. CASE PassEndsAtStart
  BY <1>13, MasterAssumption DEF PassEndsAtStart, Finish, SignalThen, ipcVars, callVars,
     stackVars, AfterFinish, NoRequest, IInv, ControlInv, TypeOK, LockInv, RequestInv,
     DoneInv, StackInv, ClientInv, CountInv, Insiders, Inside, Signals, InSdo, Kinds,
     SdoKinds
<1>14. CASE PassStartsSdo
  BY <1>14, MasterAssumption DEF PassStartsSdo, SdoKinds, SdoGoesOn, FreshStart,
     SdoEnds, ipcVars, callVars, stackVars, Finish, CloseClient, SignalThen,
     AfterFinish, NoRequest, IInv, ControlInv, TypeOK, LockInv, RequestInv, DoneInv,
     StackInv, ClientInv, CountInv, Insiders, Inside, Signals, InSdo, Kinds
<1>15. CASE PassContinuesSdo
  BY <1>15, MasterAssumption DEF PassContinuesSdo, InSdo, SdoGoesOn, SdoEnds, ipcVars,
     callVars, stackVars, Finish, CloseClient, SignalThen, AfterFinish, NoRequest, IInv,
     ControlInv, TypeOK, LockInv, RequestInv, DoneInv, StackInv, ClientInv, CountInv,
     Insiders, Inside, Signals, Kinds, SdoKinds
<1>16. CASE Signal
  BY <1>16, MasterAssumption DEF Signal, MainTo, ipcVars, callVars, reqVars, genVars,
     stackVars, timeVars, IInv, ControlInv, TypeOK, LockInv, RequestInv, DoneInv,
     StackInv, ClientInv, CountInv, Insiders, Inside, Signals, InSdo, Kinds, SdoKinds,
     NoRequest
<1>17. CASE PassBeforeReset
  BY <1>17, MasterAssumption DEF PassBeforeReset, reqVars, InSdo, CloseClient, Finish,
     SignalThen, ipcVars, callVars, stackVars, AfterFinish, NoRequest, IInv, ControlInv,
     TypeOK, LockInv, RequestInv, DoneInv, StackInv, ClientInv, CountInv, Insiders,
     Inside, Signals, Kinds, SdoKinds
<1>18. CASE CommunicationStop
  BY <1>18, MasterAssumption DEF CommunicationStop, CanPublish, MainTo, ipcVars,
     callVars, reqVars, stackVars, timeVars, IInv, ControlInv, TypeOK, LockInv,
     RequestInv, DoneInv, StackInv, ClientInv, CountInv, Insiders, Inside, Signals,
     InSdo, Kinds, SdoKinds, NoRequest
<1>19. CASE CancelActive
  BY <1>19, MasterAssumption DEF CancelActive, CanPublish, Inactive, MainTo, reqVars,
     Finish, ipcVars, callVars, genVars, stackVars, timeVars, AfterFinish, NoRequest,
     IInv, ControlInv, TypeOK, LockInv, RequestInv, DoneInv, StackInv, ClientInv,
     CountInv, Insiders, Inside, Signals, InSdo, Kinds, SdoKinds
<1>20. CASE CommunicationQuiesced
  BY <1>20, MasterAssumption DEF CommunicationQuiesced, CanPublish, MainTo, ipcVars,
     callVars, reqVars, stackVars, timeVars, IInv, ControlInv, TypeOK, LockInv,
     RequestInv, DoneInv, StackInv, ClientInv, CountInv, Insiders, Inside, Signals,
     InSdo, Kinds, SdoKinds, NoRequest
<1>21. CASE DeleteStack
  BY <1>21, MasterAssumption DEF DeleteStack, CloseClient, ipcVars, callVars, reqVars,
     genVars, IInv, ControlInv, TypeOK, LockInv, RequestInv, DoneInv, StackInv,
     ClientInv, CountInv, Insiders, Inside, Signals, InSdo, Kinds, SdoKinds, NoRequest
<1>22. CASE NewStack
  BY <1>22, MasterAssumption DEF NewStack, ipcVars, callVars, reqVars, genVars,
     timeVars, IInv, ControlInv, TypeOK, LockInv, RequestInv, DoneInv, StackInv,
     ClientInv, CountInv, Insiders, Inside, Signals, InSdo, Kinds, SdoKinds, NoRequest
<1>23. CASE CommunicationBind
  BY <1>23, MasterAssumption DEF CommunicationBind, CanPublish, MainTo, genVars,
     ipcVars, callVars, reqVars, stackVars, timeVars, IInv, ControlInv, TypeOK, LockInv,
     RequestInv, DoneInv, StackInv, ClientInv, CountInv, Insiders, Inside, Signals,
     InSdo, Kinds, SdoKinds, NoRequest
<1>24. CASE CommunicationReady
  BY <1>24, MasterAssumption DEF CommunicationReady, CanPublish, MainTo, ipcVars,
     callVars, reqVars, stackVars, IInv, ControlInv, TypeOK, LockInv, RequestInv,
     DoneInv, StackInv, ClientInv, CountInv, Insiders, Inside, Signals, InSdo, Kinds,
     SdoKinds, NoRequest
<1>25. CASE RuntimeInit
  BY <1>25, MasterAssumption DEF RuntimeInit, MainTo, callVars, reqVars, genVars,
     stackVars, timeVars, IInv, ControlInv, TypeOK, LockInv, RequestInv, DoneInv,
     StackInv, ClientInv, CountInv, Insiders, Inside, Signals, InSdo, Kinds, SdoKinds,
     NoRequest
<1>26. CASE StartMain
  BY <1>26, MasterAssumption DEF StartMain, MainTo, ipcVars, callVars, reqVars, genVars,
     stackVars, timeVars, IInv, ControlInv, TypeOK, LockInv, RequestInv, DoneInv,
     StackInv, ClientInv, CountInv, Insiders, Inside, Signals, InSdo, Kinds, SdoKinds,
     NoRequest
<1>27. CASE AdmissionClose
  BY <1>27, MasterAssumption DEF AdmissionClose, MainTo, callVars, reqVars, genVars,
     stackVars, timeVars, IInv, ControlInv, TypeOK, LockInv, RequestInv, DoneInv,
     StackInv, ClientInv, CountInv, Insiders, Inside, Signals, InSdo, Kinds, SdoKinds,
     NoRequest
<1>28. CASE Unpublish
  BY <1>28, MasterAssumption DEF Unpublish, CanPublish, MainTo, ipcVars, callVars,
     reqVars, stackVars, timeVars, IInv, ControlInv, TypeOK, LockInv, RequestInv,
     DoneInv, StackInv, ClientInv, CountInv, Insiders, Inside, Signals, InSdo, Kinds,
     SdoKinds, NoRequest
<1>29. CASE Detach
  BY <1>29, MasterAssumption DEF Detach, Drained, MainTo, callVars, reqVars, stackVars,
     timeVars, IInv, ControlInv, TypeOK, LockInv, RequestInv, DoneInv, StackInv,
     ClientInv, CountInv, Insiders, Inside, Signals, InSdo, Kinds, SdoKinds, NoRequest
<1>q. QED
  BY <1>0, <1>1, <1>2, <1>3, <1>4, <1>5, <1>6, <1>7, <1>8, <1>9, <1>10, <1>11, <1>12,
     <1>13, <1>14, <1>15, <1>16, <1>17, <1>18, <1>19, <1>20, <1>21, <1>22, <1>23, <1>24,
     <1>25, <1>26, <1>27, <1>28, <1>29 DEF Next, CallerStep, MainStep, Pass, Hook

(* completionSem is posted once for each request, and emptied by its       *)
(* waiter.                                                                 *)
LEMMA DoneInvStep ==
    ASSUME IInv, [Next]_vars
    PROVE  DoneInv'
<1>0. CASE UNCHANGED vars
  BY <1>0 DEF vars, ipcVars, callVars, reqVars, genVars, stackVars, timeVars, mainVars,
     IInv, ControlInv, TypeOK, LockInv, RequestInv, DoneInv, Signals, NoRequest
<1>1. ASSUME NEW c \in Callers, Call(c) PROVE DoneInv'
  BY <1>1, MasterAssumption DEF Call, To, ipcVars, reqVars, genVars, stackVars,
     timeVars, mainVars, IInv, ControlInv, TypeOK, LockInv, RequestInv, DoneInv,
     Signals, NoRequest
<1>2. ASSUME NEW c \in Callers, AdmissionEnter(c) PROVE DoneInv'
  BY <1>2, MasterAssumption DEF AdmissionEnter, To, Open, reqVars, genVars, stackVars,
     timeVars, mainVars, IInv, ControlInv, TypeOK, LockInv, RequestInv, DoneInv,
     Signals, NoRequest
<1>3. ASSUME NEW c \in Callers, AdmissionUndo(c) PROVE DoneInv'
  BY <1>3, MasterAssumption DEF AdmissionUndo, To, reqVars, genVars, stackVars,
     timeVars, mainVars, IInv, ControlInv, TypeOK, LockInv, RequestInv, DoneInv,
     Signals, NoRequest
<1>4. ASSUME NEW c \in Callers, TakeCallMutex(c) PROVE DoneInv'
  BY <1>4, MasterAssumption DEF TakeCallMutex, To, ipcVars, reqVars, genVars, stackVars,
     timeVars, mainVars, IInv, ControlInv, TypeOK, LockInv, RequestInv, DoneInv,
     Signals, NoRequest
<1>5. ASSUME NEW c \in Callers, TakeReqMutex(c) PROVE DoneInv'
  BY <1>5, MasterAssumption DEF TakeReqMutex, To, ipcVars, reqVars, genVars, stackVars,
     timeVars, mainVars, IInv, ControlInv, TypeOK, LockInv, RequestInv, DoneInv,
     Signals, NoRequest
<1>6. ASSUME NEW c \in Callers, Busy(c) PROVE DoneInv'
  BY <1>6, MasterAssumption DEF Busy, Serviceable, To, ipcVars, reqVars, genVars,
     stackVars, timeVars, mainVars, IInv, ControlInv, TypeOK, LockInv, RequestInv,
     DoneInv, Signals, NoRequest
<1>7. ASSUME NEW c \in Callers, NEW k \in Kinds, Submit(c, k) PROVE DoneInv'
  BY <1>7, MasterAssumption DEF Submit, Serviceable, To, ipcVars, genVars, stackVars,
     timeVars, mainVars, IInv, ControlInv, TypeOK, LockInv, RequestInv, DoneInv,
     Signals, NoRequest
<1>8. ASSUME NEW c \in Callers, Completed(c) PROVE DoneInv'
  BY <1>8, MasterAssumption DEF Completed, To, ipcVars, reqVars, genVars, stackVars,
     timeVars, mainVars, IInv, ControlInv, TypeOK, LockInv, RequestInv, DoneInv,
     Signals, NoRequest
<1>9. ASSUME NEW c \in Callers, Collect(c) PROVE DoneInv'
  BY <1>9, MasterAssumption DEF Collect, To, ipcVars, reqVars, genVars, stackVars,
     timeVars, mainVars, IInv, ControlInv, TypeOK, LockInv, RequestInv, DoneInv,
     Signals, NoRequest
<1>10. ASSUME NEW c \in Callers, AdmissionLeave(c) PROVE DoneInv'
  BY <1>10, MasterAssumption DEF AdmissionLeave, To, Open, reqVars, genVars, stackVars,
     timeVars, mainVars, IInv, ControlInv, TypeOK, LockInv, RequestInv, DoneInv,
     Signals, NoRequest
<1>11. ASSUME NEW c \in Callers, PostDrain(c) PROVE DoneInv'
  BY <1>11, MasterAssumption DEF PostDrain, To, reqVars, genVars, stackVars, timeVars,
     mainVars, IInv, ControlInv, TypeOK, LockInv, RequestInv, DoneInv, Signals,
     NoRequest
<1>12. CASE PassRefused \/ PassIdle \/ Tick \/ AdmissionDrain
  BY <1>12 DEF PassRefused, PassIdle, Tick, AdmissionDrain, ipcVars, callVars, reqVars,
     genVars, stackVars, mainVars, timeVars, IInv, ControlInv, TypeOK, LockInv,
     RequestInv, DoneInv, Signals, NoRequest
<1>13. CASE PassEndsAtStart
  BY <1>13, MasterAssumption DEF PassEndsAtStart, Finish, SignalThen, ipcVars, callVars,
     stackVars, AfterFinish, NoRequest, IInv, ControlInv, TypeOK, LockInv, RequestInv,
     DoneInv, Signals
<1>14. CASE PassStartsSdo
  BY <1>14, MasterAssumption DEF PassStartsSdo, SdoKinds, SdoGoesOn, FreshStart,
     SdoEnds, ipcVars, callVars, stackVars, Finish, CloseClient, SignalThen,
     AfterFinish, NoRequest, IInv, ControlInv, TypeOK, LockInv, RequestInv, DoneInv,
     Signals
<1>15. CASE PassContinuesSdo
  BY <1>15, MasterAssumption DEF PassContinuesSdo, InSdo, SdoGoesOn, SdoEnds, ipcVars,
     callVars, stackVars, Finish, CloseClient, SignalThen, AfterFinish, NoRequest, IInv,
     ControlInv, TypeOK, LockInv, RequestInv, DoneInv, Signals
<1>16. CASE Signal
  BY <1>16, MasterAssumption DEF Signal, MainTo, ipcVars, callVars, reqVars, genVars,
     stackVars, timeVars, IInv, ControlInv, TypeOK, LockInv, RequestInv, DoneInv,
     Signals, NoRequest
<1>17. CASE PassBeforeReset
  BY <1>17, MasterAssumption DEF PassBeforeReset, reqVars, InSdo, CloseClient, Finish,
     SignalThen, ipcVars, callVars, stackVars, AfterFinish, NoRequest, IInv, ControlInv,
     TypeOK, LockInv, RequestInv, DoneInv, Signals
<1>18. CASE CommunicationStop
  BY <1>18, MasterAssumption DEF CommunicationStop, CanPublish, MainTo, ipcVars,
     callVars, reqVars, stackVars, timeVars, IInv, ControlInv, TypeOK, LockInv,
     RequestInv, DoneInv, Signals, NoRequest
<1>19. CASE CancelActive
  BY <1>19, MasterAssumption DEF CancelActive, CanPublish, Inactive, MainTo, reqVars,
     Finish, ipcVars, callVars, genVars, stackVars, timeVars, AfterFinish, NoRequest,
     IInv, ControlInv, TypeOK, LockInv, RequestInv, DoneInv, Signals
<1>20. CASE CommunicationQuiesced
  BY <1>20, MasterAssumption DEF CommunicationQuiesced, CanPublish, MainTo, ipcVars,
     callVars, reqVars, stackVars, timeVars, IInv, ControlInv, TypeOK, LockInv,
     RequestInv, DoneInv, Signals, NoRequest
<1>21. CASE DeleteStack
  BY <1>21, MasterAssumption DEF DeleteStack, CloseClient, ipcVars, callVars, reqVars,
     genVars, IInv, ControlInv, TypeOK, LockInv, RequestInv, DoneInv, Signals, NoRequest
<1>22. CASE NewStack
  BY <1>22, MasterAssumption DEF NewStack, ipcVars, callVars, reqVars, genVars,
     timeVars, IInv, ControlInv, TypeOK, LockInv, RequestInv, DoneInv, Signals,
     NoRequest
<1>23. CASE CommunicationBind
  BY <1>23, MasterAssumption DEF CommunicationBind, CanPublish, MainTo, genVars,
     ipcVars, callVars, reqVars, stackVars, timeVars, IInv, ControlInv, TypeOK, LockInv,
     RequestInv, DoneInv, Signals, NoRequest
<1>24. CASE CommunicationReady
  BY <1>24, MasterAssumption DEF CommunicationReady, CanPublish, MainTo, ipcVars,
     callVars, reqVars, stackVars, IInv, ControlInv, TypeOK, LockInv, RequestInv,
     DoneInv, Signals, NoRequest
<1>25. CASE RuntimeInit
  BY <1>25, MasterAssumption DEF RuntimeInit, MainTo, callVars, reqVars, genVars,
     stackVars, timeVars, IInv, ControlInv, TypeOK, LockInv, RequestInv, DoneInv,
     Signals, NoRequest
<1>26. CASE StartMain
  BY <1>26, MasterAssumption DEF StartMain, MainTo, ipcVars, callVars, reqVars, genVars,
     stackVars, timeVars, IInv, ControlInv, TypeOK, LockInv, RequestInv, DoneInv,
     Signals, NoRequest
<1>27. CASE AdmissionClose
  BY <1>27, MasterAssumption DEF AdmissionClose, MainTo, callVars, reqVars, genVars,
     stackVars, timeVars, IInv, ControlInv, TypeOK, LockInv, RequestInv, DoneInv,
     Signals, NoRequest
<1>28. CASE Unpublish
  BY <1>28, MasterAssumption DEF Unpublish, CanPublish, MainTo, ipcVars, callVars,
     reqVars, stackVars, timeVars, IInv, ControlInv, TypeOK, LockInv, RequestInv,
     DoneInv, Signals, NoRequest
<1>29. CASE Detach
  BY <1>29, MasterAssumption DEF Detach, Drained, MainTo, callVars, reqVars, stackVars,
     timeVars, IInv, ControlInv, TypeOK, LockInv, RequestInv, DoneInv, Signals,
     NoRequest
<1>q. QED
  BY <1>0, <1>1, <1>2, <1>3, <1>4, <1>5, <1>6, <1>7, <1>8, <1>9, <1>10, <1>11, <1>12,
     <1>13, <1>14, <1>15, <1>16, <1>17, <1>18, <1>19, <1>20, <1>21, <1>22, <1>23, <1>24,
     <1>25, <1>26, <1>27, <1>28, <1>29 DEF Next, CallerStep, MainStep, Pass, Hook

(* The hooks bind a stack after it was made and unbind it before it is     *)
(* deleted.                                                                *)
LEMMA StackInvStep ==
    ASSUME IInv, [Next]_vars
    PROVE  StackInv'
<1>0. CASE UNCHANGED vars
  BY <1>0 DEF vars, ipcVars, callVars, reqVars, genVars, stackVars, timeVars, mainVars,
     IInv, ControlInv, TypeOK, StackInv, RequestInv, Closing, Signals
<1>1. ASSUME NEW c \in Callers, Call(c) \/ AdmissionEnter(c) \/ AdmissionUndo(c) \/
   TakeCallMutex(c) \/ TakeReqMutex(c) \/ Busy(c) \/ (\E k \in Kinds : Submit(c, k)) \/
   Completed(c) \/ Collect(c) \/ AdmissionLeave(c) \/ PostDrain(c)
      PROVE  StackInv'
  BY <1>1 DEF Call, AdmissionEnter, AdmissionUndo, TakeCallMutex, TakeReqMutex, Busy,
     Submit, Completed, Collect, AdmissionLeave, PostDrain, ipcVars, reqVars, genVars,
     stackVars, timeVars, mainVars, IInv, ControlInv, TypeOK, StackInv, RequestInv,
     Closing, Signals, InSdo
<1>2. CASE PassRefused \/ Tick \/ AdmissionDrain
  BY <1>2 DEF PassRefused, Tick, AdmissionDrain, ipcVars, callVars, reqVars, genVars,
     stackVars, mainVars, timeVars, IInv, ControlInv, TypeOK, StackInv, RequestInv,
     Closing, Signals, InSdo
<1>3. CASE PassIdle
  BY <1>3, MasterAssumption DEF PassIdle, ipcVars, callVars, reqVars, stackVars,
     mainVars, IInv, ControlInv, TypeOK, StackInv, RequestInv, Closing, Signals, InSdo
<1>4. CASE PassEndsAtStart
  BY <1>4, MasterAssumption DEF PassEndsAtStart, Finish, SignalThen, ipcVars, callVars,
     stackVars, AfterFinish, NoRequest, IInv, ControlInv, TypeOK, StackInv, RequestInv,
     Closing, Signals, InSdo
<1>5. CASE PassStartsSdo
  BY <1>5, MasterAssumption DEF PassStartsSdo, SdoKinds, SdoGoesOn, FreshStart, SdoEnds,
     ipcVars, callVars, stackVars, Finish, CloseClient, SignalThen, AfterFinish,
     NoRequest, IInv, ControlInv, TypeOK, StackInv, RequestInv, Closing, Signals, InSdo
<1>6. CASE PassContinuesSdo
  BY <1>6, MasterAssumption DEF PassContinuesSdo, InSdo, SdoGoesOn, SdoEnds, ipcVars,
     callVars, stackVars, Finish, CloseClient, SignalThen, AfterFinish, NoRequest, IInv,
     ControlInv, TypeOK, StackInv, RequestInv, Closing, Signals
<1>7. CASE Signal
  BY <1>7, MasterAssumption DEF Signal, MainTo, ipcVars, callVars, reqVars, genVars,
     stackVars, timeVars, IInv, ControlInv, TypeOK, StackInv, RequestInv, Closing,
     Signals, InSdo
<1>8. CASE PassBeforeReset
  BY <1>8, MasterAssumption DEF PassBeforeReset, reqVars, InSdo, CloseClient, Finish,
     SignalThen, ipcVars, callVars, stackVars, AfterFinish, NoRequest, IInv, ControlInv,
     TypeOK, StackInv, RequestInv, Closing, Signals
<1>9. CASE CommunicationStop
  BY <1>9, MasterAssumption DEF CommunicationStop, CanPublish, MainTo, ipcVars,
     callVars, reqVars, stackVars, timeVars, IInv, ControlInv, TypeOK, StackInv,
     RequestInv, Closing, Signals, InSdo
<1>10. CASE CancelActive
  BY <1>10, MasterAssumption DEF CancelActive, CanPublish, Inactive, MainTo, reqVars,
     Finish, ipcVars, callVars, genVars, stackVars, timeVars, AfterFinish, NoRequest,
     IInv, ControlInv, TypeOK, StackInv, RequestInv, Closing, Signals, InSdo
<1>11. CASE CommunicationQuiesced
  BY <1>11, MasterAssumption DEF CommunicationQuiesced, CanPublish, MainTo, ipcVars,
     callVars, reqVars, stackVars, timeVars, IInv, ControlInv, TypeOK, StackInv,
     RequestInv, Closing, Signals, InSdo
<1>12. CASE DeleteStack
  BY <1>12, MasterAssumption DEF DeleteStack, CloseClient, ipcVars, callVars, reqVars,
     genVars, IInv, ControlInv, TypeOK, StackInv, RequestInv, Closing, Signals, InSdo
<1>13. CASE NewStack
  BY <1>13, MasterAssumption DEF NewStack, ipcVars, callVars, reqVars, genVars,
     timeVars, IInv, ControlInv, TypeOK, StackInv, RequestInv, Closing, Signals, InSdo
<1>14. CASE CommunicationBind
  BY <1>14, MasterAssumption DEF CommunicationBind, CanPublish, MainTo, genVars,
     ipcVars, callVars, reqVars, stackVars, timeVars, IInv, ControlInv, TypeOK,
     StackInv, RequestInv, Closing, Signals, InSdo
<1>15. CASE CommunicationReady
  BY <1>15, MasterAssumption DEF CommunicationReady, CanPublish, MainTo, ipcVars,
     callVars, reqVars, stackVars, IInv, ControlInv, TypeOK, StackInv, RequestInv,
     Closing, Signals, InSdo
<1>16. CASE RuntimeInit
  BY <1>16, MasterAssumption DEF RuntimeInit, MainTo, callVars, reqVars, genVars,
     stackVars, timeVars, IInv, ControlInv, TypeOK, StackInv, RequestInv, Closing,
     Signals, InSdo
<1>17. CASE StartMain
  BY <1>17, MasterAssumption DEF StartMain, MainTo, ipcVars, callVars, reqVars, genVars,
     stackVars, timeVars, IInv, ControlInv, TypeOK, StackInv, RequestInv, Closing,
     Signals, InSdo
<1>18. CASE AdmissionClose
  BY <1>18, MasterAssumption DEF AdmissionClose, MainTo, callVars, reqVars, genVars,
     stackVars, timeVars, IInv, ControlInv, TypeOK, StackInv, RequestInv, Closing,
     Signals, InSdo
<1>19. CASE Unpublish
  BY <1>19, MasterAssumption DEF Unpublish, CanPublish, MainTo, ipcVars, callVars,
     reqVars, stackVars, timeVars, IInv, ControlInv, TypeOK, StackInv, RequestInv,
     Closing, Signals, InSdo
<1>20. CASE Detach
  BY <1>20, MasterAssumption DEF Detach, Drained, MainTo, callVars, reqVars, stackVars,
     timeVars, IInv, ControlInv, TypeOK, StackInv, RequestInv, Closing, Signals, InSdo
<1>q. QED
  BY <1>0, <1>1, <1>2, <1>3, <1>4, <1>5, <1>6, <1>7, <1>8, <1>9, <1>10, <1>11, <1>12,
     <1>13, <1>14, <1>15, <1>16, <1>17, <1>18, <1>19, <1>20 DEF Next, CallerStep,
     MainStep, Pass, Hook

(* A transaction ends with its request, or with the deletion of its stack. *)
LEMMA ClientInvStep ==
    ASSUME IInv, [Next]_vars
    PROVE  ClientInv'
<1>0. CASE UNCHANGED vars
  BY <1>0 DEF vars, ipcVars, callVars, reqVars, genVars, stackVars, timeVars, mainVars,
     InSdo, IInv, ControlInv, TypeOK, RequestInv, StackInv, ClientInv, Closing
<1>1. ASSUME NEW c \in Callers, Call(c) \/ AdmissionEnter(c) \/ AdmissionUndo(c) \/
   TakeCallMutex(c) \/ TakeReqMutex(c) \/ Busy(c) \/ Completed(c) \/ Collect(c) \/
   AdmissionLeave(c) \/ PostDrain(c)
      PROVE  ClientInv'
  BY <1>1 DEF Call, AdmissionEnter, AdmissionUndo, TakeCallMutex, TakeReqMutex, Busy,
     Completed, Collect, AdmissionLeave, PostDrain, ipcVars, reqVars, genVars,
     stackVars, timeVars, mainVars, IInv, ControlInv, TypeOK, RequestInv, StackInv,
     ClientInv, Closing, InSdo
<1>2. ASSUME NEW c \in Callers, NEW k \in Kinds, Submit(c, k) PROVE ClientInv'
  BY <1>2, MasterAssumption DEF Submit, Serviceable, To, ipcVars, genVars, stackVars,
     timeVars, mainVars, IInv, ControlInv, TypeOK, RequestInv, StackInv, ClientInv,
     Closing, InSdo
<1>3. CASE AdmissionDrain
  BY <1>3 DEF AdmissionDrain, callVars, reqVars, genVars, stackVars, timeVars, mainVars,
     IInv, ControlInv, TypeOK, RequestInv, StackInv, ClientInv, Closing, InSdo
<1>4. CASE PassRefused
  BY <1>4, MasterAssumption DEF PassRefused, ipcVars, callVars, reqVars, genVars,
     stackVars, mainVars, IInv, ControlInv, TypeOK, RequestInv, StackInv, ClientInv,
     Closing, InSdo
<1>5. CASE PassIdle
  BY <1>5, MasterAssumption DEF PassIdle, ipcVars, callVars, reqVars, stackVars,
     mainVars, IInv, ControlInv, TypeOK, RequestInv, StackInv, ClientInv, Closing, InSdo
<1>6. CASE PassEndsAtStart
  BY <1>6, MasterAssumption DEF PassEndsAtStart, Finish, SignalThen, ipcVars, callVars,
     stackVars, AfterFinish, NoRequest, IInv, ControlInv, TypeOK, RequestInv, StackInv,
     ClientInv, Closing, InSdo
<1>7. CASE PassStartsSdo
  BY <1>7, MasterAssumption DEF PassStartsSdo, SdoKinds, SdoGoesOn, FreshStart, SdoEnds,
     ipcVars, callVars, stackVars, Finish, CloseClient, SignalThen, AfterFinish,
     NoRequest, IInv, ControlInv, TypeOK, RequestInv, StackInv, ClientInv, Closing,
     InSdo
<1>8. CASE PassContinuesSdo
  BY <1>8, MasterAssumption DEF PassContinuesSdo, InSdo, SdoGoesOn, SdoEnds, ipcVars,
     callVars, stackVars, Finish, CloseClient, SignalThen, AfterFinish, NoRequest, IInv,
     ControlInv, TypeOK, RequestInv, StackInv, ClientInv, Closing
<1>9. CASE Signal
  BY <1>9, MasterAssumption DEF Signal, MainTo, ipcVars, callVars, reqVars, genVars,
     stackVars, timeVars, IInv, ControlInv, TypeOK, RequestInv, StackInv, ClientInv,
     Closing, InSdo
<1>10. CASE PassBeforeReset
  BY <1>10, MasterAssumption DEF PassBeforeReset, reqVars, InSdo, CloseClient, Finish,
     SignalThen, ipcVars, callVars, stackVars, AfterFinish, NoRequest, IInv, ControlInv,
     TypeOK, RequestInv, StackInv, ClientInv, Closing
<1>11. CASE Tick
  BY <1>11, MasterAssumption DEF Tick, ipcVars, callVars, reqVars, genVars, stackVars,
     mainVars, IInv, ControlInv, TypeOK, RequestInv, StackInv, ClientInv, Closing, InSdo
<1>12. CASE CommunicationStop
  BY <1>12, MasterAssumption DEF CommunicationStop, CanPublish, MainTo, ipcVars,
     callVars, reqVars, stackVars, timeVars, IInv, ControlInv, TypeOK, RequestInv,
     StackInv, ClientInv, Closing, InSdo
<1>13. CASE CancelActive
  BY <1>13, MasterAssumption DEF CancelActive, CanPublish, Inactive, MainTo, reqVars,
     Finish, ipcVars, callVars, genVars, stackVars, timeVars, AfterFinish, NoRequest,
     IInv, ControlInv, TypeOK, RequestInv, StackInv, ClientInv, Closing, InSdo
<1>14. CASE CommunicationQuiesced
  BY <1>14, MasterAssumption DEF CommunicationQuiesced, CanPublish, MainTo, ipcVars,
     callVars, reqVars, stackVars, timeVars, IInv, ControlInv, TypeOK, RequestInv,
     StackInv, ClientInv, Closing, InSdo
<1>15. CASE DeleteStack
  BY <1>15, MasterAssumption DEF DeleteStack, CloseClient, ipcVars, callVars, reqVars,
     genVars, IInv, ControlInv, TypeOK, RequestInv, StackInv, ClientInv, Closing, InSdo
<1>16. CASE NewStack
  BY <1>16, MasterAssumption DEF NewStack, ipcVars, callVars, reqVars, genVars,
     timeVars, IInv, ControlInv, TypeOK, RequestInv, StackInv, ClientInv, Closing, InSdo
<1>17. CASE CommunicationBind
  BY <1>17, MasterAssumption DEF CommunicationBind, CanPublish, MainTo, genVars,
     ipcVars, callVars, reqVars, stackVars, timeVars, IInv, ControlInv, TypeOK,
     RequestInv, StackInv, ClientInv, Closing, InSdo
<1>18. CASE CommunicationReady
  BY <1>18, MasterAssumption DEF CommunicationReady, CanPublish, MainTo, ipcVars,
     callVars, reqVars, stackVars, IInv, ControlInv, TypeOK, RequestInv, StackInv,
     ClientInv, Closing, InSdo
<1>19. CASE RuntimeInit
  BY <1>19, MasterAssumption DEF RuntimeInit, MainTo, callVars, reqVars, genVars,
     stackVars, timeVars, IInv, ControlInv, TypeOK, RequestInv, StackInv, ClientInv,
     Closing, InSdo
<1>20. CASE StartMain
  BY <1>20, MasterAssumption DEF StartMain, MainTo, ipcVars, callVars, reqVars, genVars,
     stackVars, timeVars, IInv, ControlInv, TypeOK, RequestInv, StackInv, ClientInv,
     Closing, InSdo
<1>21. CASE AdmissionClose
  BY <1>21, MasterAssumption DEF AdmissionClose, MainTo, callVars, reqVars, genVars,
     stackVars, timeVars, IInv, ControlInv, TypeOK, RequestInv, StackInv, ClientInv,
     Closing, InSdo
<1>22. CASE Unpublish
  BY <1>22, MasterAssumption DEF Unpublish, CanPublish, MainTo, ipcVars, callVars,
     reqVars, stackVars, timeVars, IInv, ControlInv, TypeOK, RequestInv, StackInv,
     ClientInv, Closing, InSdo
<1>23. CASE Detach
  BY <1>23, MasterAssumption DEF Detach, Drained, MainTo, callVars, reqVars, stackVars,
     timeVars, IInv, ControlInv, TypeOK, RequestInv, StackInv, ClientInv, Closing, InSdo
<1>q. QED
  BY <1>0, <1>1, <1>2, <1>3, <1>4, <1>5, <1>6, <1>7, <1>8, <1>9, <1>10, <1>11, <1>12,
     <1>13, <1>14, <1>15, <1>16, <1>17, <1>18, <1>19, <1>20, <1>21, <1>22, <1>23 DEF
     Next, CallerStep, MainStep, Pass, Hook

(* IPC exists from onRuntimeInit() to the end of onRuntimeDeinit().        *)
LEMMA IpcInvStep ==
    ASSUME IInv, [Next]_vars
    PROVE  IpcInv'
<1>0. CASE UNCHANGED vars
  BY <1>0 DEF vars, ipcVars, callVars, reqVars, genVars, stackVars, timeVars, mainVars,
     IInv, TypeOK, IpcInv, Closing
<1>1. ASSUME NEW c \in Callers, Call(c) \/ AdmissionEnter(c) \/ AdmissionUndo(c) \/
   TakeCallMutex(c) \/ TakeReqMutex(c) \/ Busy(c) \/ (\E k \in Kinds : Submit(c, k)) \/
   Completed(c) \/ Collect(c) \/ AdmissionLeave(c) \/ PostDrain(c)
      PROVE  IpcInv'
  BY <1>1 DEF Call, AdmissionEnter, AdmissionUndo, TakeCallMutex, TakeReqMutex, Busy,
     Submit, Completed, Collect, AdmissionLeave, PostDrain, ipcVars, reqVars, genVars,
     stackVars, timeVars, mainVars, IInv, TypeOK, IpcInv, Closing
<1>2. CASE PassRefused \/ PassIdle \/ Tick \/ AdmissionDrain
  BY <1>2 DEF PassRefused, PassIdle, Tick, AdmissionDrain, ipcVars, callVars, reqVars,
     genVars, stackVars, mainVars, timeVars, IInv, TypeOK, IpcInv, Closing
<1>3. CASE PassEndsAtStart
  BY <1>3, MasterAssumption DEF PassEndsAtStart, Finish, SignalThen, ipcVars, callVars,
     stackVars, AfterFinish, NoRequest, IInv, TypeOK, IpcInv, Closing
<1>4. CASE PassStartsSdo
  BY <1>4, MasterAssumption DEF PassStartsSdo, SdoKinds, SdoGoesOn, FreshStart, SdoEnds,
     ipcVars, callVars, stackVars, Finish, CloseClient, SignalThen, AfterFinish,
     NoRequest, IInv, TypeOK, IpcInv, Closing
<1>5. CASE PassContinuesSdo
  BY <1>5, MasterAssumption DEF PassContinuesSdo, InSdo, SdoGoesOn, SdoEnds, ipcVars,
     callVars, stackVars, Finish, CloseClient, SignalThen, AfterFinish, NoRequest, IInv,
     TypeOK, IpcInv, Closing
<1>6. CASE Signal
  BY <1>6, MasterAssumption DEF Signal, MainTo, ipcVars, callVars, reqVars, genVars,
     stackVars, timeVars, IInv, TypeOK, IpcInv, Closing
<1>7. CASE PassBeforeReset
  BY <1>7, MasterAssumption DEF PassBeforeReset, reqVars, InSdo, CloseClient, Finish,
     SignalThen, ipcVars, callVars, stackVars, AfterFinish, NoRequest, IInv, TypeOK,
     IpcInv, Closing
<1>8. CASE CommunicationStop
  BY <1>8, MasterAssumption DEF CommunicationStop, CanPublish, MainTo, ipcVars,
     callVars, reqVars, stackVars, timeVars, IInv, TypeOK, IpcInv, Closing
<1>9. CASE CancelActive
  BY <1>9, MasterAssumption DEF CancelActive, CanPublish, Inactive, MainTo, reqVars,
     Finish, ipcVars, callVars, genVars, stackVars, timeVars, AfterFinish, NoRequest,
     IInv, TypeOK, IpcInv, Closing
<1>10. CASE CommunicationQuiesced
  BY <1>10, MasterAssumption DEF CommunicationQuiesced, CanPublish, MainTo, ipcVars,
     callVars, reqVars, stackVars, timeVars, IInv, TypeOK, IpcInv, Closing
<1>11. CASE DeleteStack
  BY <1>11, MasterAssumption DEF DeleteStack, CloseClient, ipcVars, callVars, reqVars,
     genVars, IInv, TypeOK, IpcInv, Closing
<1>12. CASE NewStack
  BY <1>12, MasterAssumption DEF NewStack, ipcVars, callVars, reqVars, genVars,
     timeVars, IInv, TypeOK, IpcInv, Closing
<1>13. CASE CommunicationBind
  BY <1>13, MasterAssumption DEF CommunicationBind, CanPublish, MainTo, genVars,
     ipcVars, callVars, reqVars, stackVars, timeVars, IInv, TypeOK, IpcInv, Closing
<1>14. CASE CommunicationReady
  BY <1>14, MasterAssumption DEF CommunicationReady, CanPublish, MainTo, ipcVars,
     callVars, reqVars, stackVars, IInv, TypeOK, IpcInv, Closing
<1>15. CASE RuntimeInit
  BY <1>15, MasterAssumption DEF RuntimeInit, MainTo, callVars, reqVars, genVars,
     stackVars, timeVars, IInv, TypeOK, IpcInv, Closing
<1>16. CASE StartMain
  BY <1>16, MasterAssumption DEF StartMain, MainTo, ipcVars, callVars, reqVars, genVars,
     stackVars, timeVars, IInv, TypeOK, IpcInv, Closing
<1>17. CASE AdmissionClose
  BY <1>17, MasterAssumption DEF AdmissionClose, MainTo, callVars, reqVars, genVars,
     stackVars, timeVars, IInv, TypeOK, IpcInv, Closing
<1>18. CASE Unpublish
  BY <1>18, MasterAssumption DEF Unpublish, CanPublish, MainTo, ipcVars, callVars,
     reqVars, stackVars, timeVars, IInv, TypeOK, IpcInv, Closing
<1>19. CASE Detach
  BY <1>19, MasterAssumption DEF Detach, Drained, MainTo, callVars, reqVars, stackVars,
     timeVars, IInv, TypeOK, IpcInv, Closing
<1>q. QED
  BY <1>0, <1>1, <1>2, <1>3, <1>4, <1>5, <1>6, <1>7, <1>8, <1>9, <1>10, <1>11, <1>12,
     <1>13, <1>14, <1>15, <1>16, <1>17, <1>18, <1>19 DEF Next, CallerStep, MainStep,
     Pass, Hook


-----------------------------------------------------------------------------
(* The sets that admissionState and the drain count, step by step.         *)

Counts(p) == p \in {"undo", "callLock", "reqLock", "submit", "wait", "collect",
                    "copy", "leave"}
Within(p) == p \in {"callLock", "reqLock", "submit", "wait", "collect", "copy",
                    "leave", "post"}

LEMMA SetsAreSmall ==
    /\ IsFiniteSet(Counted) /\ IsFiniteSet(Insiders)
    /\ Cardinality(Counted) \in 0..Bias \div 2
    /\ Cardinality(Insiders) \in Nat
    /\ Cardinality(Insiders) = 0 => Insiders = {}
<1>1. Counted \subseteq Callers /\ Insiders \subseteq Callers
  BY DEF Counted, Insiders
<1>2. /\ IsFiniteSet(Counted) /\ Cardinality(Counted) <= Cardinality(Callers)
      /\ IsFiniteSet(Insiders)
  BY <1>1, FS_Subset, MasterAssumption
<1>3. Cardinality(Counted) \in Nat /\ Cardinality(Insiders) \in Nat
      /\ Cardinality(Callers) \in Nat
  BY <1>2, FS_CardinalityType, MasterAssumption
<1>4. Cardinality(Insiders) = 0 => Insiders = {}
  BY <1>2, FS_EmptySet
<1>q. QED
  BY <1>2, <1>3, <1>4, MasterAssumption, BiasIsLarge

LEMMA SetsMove ==
    ASSUME TypeOK, NEW c \in Callers, NEW p, To(c, p)
    PROVE  /\ Counted' = IF Counts(p) THEN Counted \cup {c} ELSE Counted \ {c}
           /\ Insiders' = IF Within(p) THEN Insiders \cup {c} ELSE Insiders \ {c}
           /\ c \in Counted <=> Counts(pc[c])
           /\ c \in Insiders <=> Within(pc[c])
<1>1. \A d \in Callers : pc'[d] = IF d = c THEN p ELSE pc[d]
  BY DEF TypeOK, To
<1>2. Counted' = {d \in Callers : Counts(pc'[d])} /\ Counted = {d \in Callers : Counts(pc[d])}
  BY DEF Counted, Counts, Inside
<1>3. Insiders' = {d \in Callers : Within(pc'[d])} /\ Insiders = {d \in Callers : Within(pc[d])}
  BY DEF Insiders, Within, Inside
<1>q. QED
  BY <1>1, <1>2, <1>3 DEF Counts, Within

LEMMA CardinalityMoves ==
    ASSUME TypeOK, NEW c \in Callers, NEW p, To(c, p)
    PROVE  /\ Cardinality(Counted') = Cardinality(Counted) +
                 (IF Counts(p) THEN IF Counts(pc[c]) THEN 0 ELSE 1
                               ELSE IF Counts(pc[c]) THEN -1 ELSE 0)
           /\ Cardinality(Insiders') = Cardinality(Insiders) +
                 (IF Within(p) THEN IF Within(pc[c]) THEN 0 ELSE 1
                               ELSE IF Within(pc[c]) THEN -1 ELSE 0)
<1>1. Cardinality(Counted) \in Nat /\ Cardinality(Insiders) \in Nat
  BY SetsAreSmall, BiasIsLarge
<1>2. ASSUME NEW S, IsFiniteSet(S)
      PROVE  /\ Cardinality(S \cup {c}) = IF c \in S THEN Cardinality(S) ELSE Cardinality(S) + 1
             /\ Cardinality(S \ {c}) = IF c \in S THEN Cardinality(S) - 1 ELSE Cardinality(S)
  BY <1>2, FS_AddElement, FS_RemoveElement
<1>3. /\ Cardinality(Counted \cup {c}) =
             IF c \in Counted THEN Cardinality(Counted) ELSE Cardinality(Counted) + 1
      /\ Cardinality(Counted \ {c}) =
             IF c \in Counted THEN Cardinality(Counted) - 1 ELSE Cardinality(Counted)
      /\ Cardinality(Insiders \cup {c}) =
             IF c \in Insiders THEN Cardinality(Insiders) ELSE Cardinality(Insiders) + 1
      /\ Cardinality(Insiders \ {c}) =
             IF c \in Insiders THEN Cardinality(Insiders) - 1 ELSE Cardinality(Insiders)
  BY <1>2, SetsAreSmall
<1>4. /\ Counted' = IF Counts(p) THEN Counted \cup {c} ELSE Counted \ {c}
      /\ Insiders' = IF Within(p) THEN Insiders \cup {c} ELSE Insiders \ {c}
      /\ c \in Counted <=> Counts(pc[c])
      /\ c \in Insiders <=> Within(pc[c])
  BY SetsMove
<1>5. Cardinality(Counted') = Cardinality(Counted) +
        (IF Counts(p) THEN IF Counts(pc[c]) THEN 0 ELSE 1
                      ELSE IF Counts(pc[c]) THEN -1 ELSE 0)
  BY <1>1, <1>3, <1>4
<1>6. Cardinality(Insiders') = Cardinality(Insiders) +
        (IF Within(p) THEN IF Within(pc[c]) THEN 0 ELSE 1
                      ELSE IF Within(pc[c]) THEN -1 ELSE 0)
  BY <1>1, <1>3, <1>4
<1>q. QED
  BY <1>5, <1>6

(* The callers that pass none of the counted points. *)
LEMMA StaysStep ==
    ASSUME IInv, NEW c \in Callers,
           \/ Call(c) \/ TakeCallMutex(c) \/ TakeReqMutex(c) \/ Busy(c)
           \/ (\E k \in Kinds : Submit(c, k)) \/ Completed(c) \/ Collect(c)
    PROVE  CountInv'
<1> DEFINE Outside == {"idle", "enter"}
           Between == {"callLock", "reqLock", "submit", "wait", "collect", "copy", "leave"}
<1>1. PICK p : /\ To(c, p)
               /\ \/ pc[c] = "idle" /\ p = "enter" /\ ipc
                  \/ pc[c] \in Between /\ p \in Between
  BY DEF Call, TakeCallMutex, TakeReqMutex, Busy, Submit, Completed, Collect
<1>2. UNCHANGED <<ipc, admission, drainSem, admitted, mpc>>
  BY DEF Call, TakeCallMutex, TakeReqMutex, Busy, Submit, Completed, Collect, ipcVars, mainVars
<1>3. Counts(p) <=> Counts(pc[c])
  BY <1>1 DEF Counts
<1>4. Within(p) <=> Within(pc[c])
  BY <1>1 DEF Within
<1>5. Counted' = Counted /\ Insiders' = Insiders
  BY <1>1, <1>3, <1>4, SetsMove DEF IInv
<1>6. \A d \in Callers : pc'[d] = IF d = c THEN p ELSE pc[d]
  BY <1>1 DEF IInv, TypeOK, To
<1>7. ipc
  BY <1>1 DEF IInv, CountInv, Insiders, Inside
<1>q. QED
  BY <1>1, <1>2, <1>5, <1>6, <1>7 DEF IInv, CountInv

LEMMA EnterStep ==
    ASSUME IInv, NEW c \in Callers, AdmissionEnter(c)
    PROVE  CountInv'
<1> DEFINE p == IF Open(admission) THEN "callLock" ELSE "undo"
<1>1. To(c, p) /\ pc[c] = "enter" /\ admission' = admission + 1
      /\ UNCHANGED <<ipc, drainSem, admitted, mpc>>
  BY DEF AdmissionEnter, mainVars
<1>2. Counts(p) /\ ~Counts(pc[c]) /\ ~Within(pc[c]) /\ (Within(p) <=> Open(admission))
  BY <1>1 DEF Counts, Within
<1>3. Cardinality(Counted') = Cardinality(Counted) + 1
      /\ Cardinality(Insiders') = Cardinality(Insiders) + (IF Open(admission) THEN 1 ELSE 0)
      /\ Insiders' = IF Open(admission) THEN Insiders \cup {c} ELSE Insiders
  <2>1. c \notin Insiders
    BY <1>1, <1>2, SetsMove DEF IInv
  <2>q. QED
    BY <1>1, <1>2, <2>1, SetsMove, CardinalityMoves, SetsAreSmall DEF IInv
<1>4. \A d \in Callers : pc'[d] = IF d = c THEN p ELSE pc[d]
  BY <1>1 DEF IInv, TypeOK, To
<1>q. QED
  BY <1>1, <1>3, <1>4, SetsAreSmall, BiasIsLarge DEF IInv, TypeOK, CountInv, Open

LEMMA UndoStep ==
    ASSUME IInv, NEW c \in Callers, AdmissionUndo(c)
    PROVE  CountInv'
<1>1. To(c, "idle") /\ pc[c] = "undo" /\ admission' = admission - 1
      /\ UNCHANGED <<ipc, drainSem, admitted, mpc>>
  BY DEF AdmissionUndo, mainVars
<1>2. Counts(pc[c]) /\ ~Within(pc[c]) /\ ~Counts("idle") /\ ~Within("idle")
  BY <1>1 DEF Counts, Within
<1>3. Cardinality(Counted') = Cardinality(Counted) - 1 /\ Insiders' = Insiders
  BY <1>1, <1>2, SetsMove, CardinalityMoves, SetsAreSmall, BiasIsLarge DEF IInv
<1>q. QED
  BY <1>1, <1>3, SetsAreSmall, BiasIsLarge DEF IInv, TypeOK, CountInv

LEMMA LeaveStep ==
    ASSUME IInv, NEW c \in Callers, AdmissionLeave(c)
    PROVE  CountInv'
<1> DEFINE p == IF Open(admission) THEN "idle" ELSE "post"
<1>1. To(c, p) /\ pc[c] = "leave" /\ admission' = admission - 1
      /\ UNCHANGED <<ipc, drainSem, admitted, mpc>>
  BY DEF AdmissionLeave, mainVars
<1>2. Counts(pc[c]) /\ Within(pc[c]) /\ ~Counts(p) /\ (Within(p) <=> ~Open(admission))
  BY <1>1 DEF Counts, Within
<1>3. Cardinality(Counted') = Cardinality(Counted) - 1
      /\ Cardinality(Insiders') = Cardinality(Insiders) - (IF Open(admission) THEN 1 ELSE 0)
  BY <1>1, <1>2, SetsMove, CardinalityMoves, SetsAreSmall, BiasIsLarge DEF IInv
<1>4. ipc
  BY <1>1 DEF IInv, CountInv, Insiders, Inside
<1>5. \A d \in Callers : pc'[d] = IF d = c THEN p ELSE pc[d]
  BY <1>1 DEF IInv, TypeOK, To
<1>6. Cardinality(Counted') >= 0
  <2>1. IsFiniteSet(Counted')
    BY <1>1, SetsMove, SetsAreSmall, <1>2, FS_RemoveElement DEF IInv
  <2>q. QED
    BY <2>1, FS_CardinalityType
<1>q. QED
  BY <1>1, <1>3, <1>4, <1>5, <1>6, SetsAreSmall, BiasIsLarge DEF IInv, TypeOK, CountInv, Open

LEMMA PostStep ==
    ASSUME IInv, NEW c \in Callers, PostDrain(c)
    PROVE  CountInv'
<1>1. To(c, "idle") /\ pc[c] = "post" /\ drainSem' = drainSem + 1
      /\ UNCHANGED <<ipc, admission, admitted, mpc>>
  BY DEF PostDrain, mainVars
<1>2. ~Counts(pc[c]) /\ Within(pc[c]) /\ ~Counts("idle") /\ ~Within("idle")
  BY <1>1 DEF Counts, Within
<1>3. Cardinality(Counted') = Cardinality(Counted)
      /\ Cardinality(Insiders') = Cardinality(Insiders) - 1
  BY <1>1, <1>2, SetsMove, CardinalityMoves, SetsAreSmall, BiasIsLarge DEF IInv
<1>4. ipc /\ mpc \in Closing
  BY <1>1 DEF IInv, CountInv, Insiders, Inside
<1>q. QED
  BY <1>1, <1>3, <1>4, SetsAreSmall, BiasIsLarge DEF IInv, TypeOK, CountInv

(* The hooks that open, close and drain admission; the others keep its state. *)
LEMMA CountMain ==
    ASSUME IInv, PromptUndo, MainStep \/ PassBeforeReset \/ Tick
    PROVE  CountInv'
<1>0. UNCHANGED pc
  BY DEF MainStep, Pass, Hook, PassRefused, PassIdle, PassEndsAtStart, PassStartsSdo,
         PassContinuesSdo, Signal, PassBeforeReset, Tick, CommunicationStop, CancelActive,
         CommunicationQuiesced, DeleteStack, NewStack, CommunicationBind, CommunicationReady,
         RuntimeInit, StartMain, AdmissionClose, Unpublish, AdmissionDrain, Detach, callVars
<1>1. Counted' = Counted /\ Insiders' = Insiders
  BY <1>0 DEF Counted, Insiders, Inside
<1>2. CASE RuntimeInit
  <2>1. CASE ipc' = TRUE /\ admission' = 0 /\ drainSem' = 0 /\ mpc' = "inited"
    <3>1. \A c \in Callers : pc[c] # "undo" /\ ~Inside(c)
      BY <1>2, <2>1 DEF RuntimeInit, IInv, IpcInv, CountInv, Insiders
    <3>2. Counted = {}
      BY <3>1 DEF Counted
    <3>3. Cardinality(Counted') = 0
      BY <1>1, <3>2, FS_EmptySet
    <3>q. QED
      BY <1>0, <2>1, <3>1, <3>3 DEF CountInv, Inside, Closing, Signals
  <2>2. CASE UNCHANGED <<ipc, admission, drainSem>> /\ mpc' = "stop"
    BY <1>0, <1>1, <1>2, <2>2 DEF RuntimeInit, IInv, IpcInv, CountInv
  <2>q. QED
    BY <1>2, <2>1, <2>2 DEF RuntimeInit, MainTo
<1>3. CASE AdmissionClose
  <2>1. CASE ipc
    <3>1. /\ admission = Cardinality(Counted) /\ drainSem = 0
          /\ \A c \in Callers : pc[c] \notin {"undo", "post"}
      BY <1>3, <2>1, BiasIsLarge DEF AdmissionClose, IInv, CountInv, Closing, Signals
    <3>2. Insiders = Counted
      BY <3>1 DEF Insiders, Counted
    <3>q. QED
      BY <1>1, <1>3, <2>1, <3>1, <3>2, SetsAreSmall
      DEF AdmissionClose, MainTo, CountInv, Closing, Signals
  <2>2. CASE ~ipc
    BY <1>0, <1>1, <1>3, <2>2 DEF AdmissionClose, IInv, CountInv
  <2>q. QED
    BY <2>1, <2>2
<1>4. CASE AdmissionDrain
  BY <1>0, <1>1, <1>4, SetsAreSmall, BiasIsLarge
  DEF AdmissionDrain, mainVars, IInv, TypeOK, IpcInv, CountInv, Closing
<1>5. CASE Detach
  <2>1. ipc /\ mpc \in Closing
    BY <1>5 DEF Detach, IInv, IpcInv, Closing
  <2>2. Cardinality(Insiders) = 0
    BY <1>5, <2>1, SetsAreSmall DEF Detach, Drained, IInv, TypeOK, CountInv
  <2>q. QED
    BY <1>1, <1>5, <2>1, <2>2, SetsAreSmall DEF Detach, IInv, CountInv
<1>6. CASE ~RuntimeInit /\ ~AdmissionClose /\ ~AdmissionDrain /\ ~Detach
  <2>1. UNCHANGED <<ipc, admission, drainSem, admitted>>
    BY <1>6 DEF MainStep, Pass, Hook, PassRefused, PassIdle, PassEndsAtStart, PassStartsSdo,
       PassContinuesSdo, Signal, PassBeforeReset, Tick, CommunicationStop, CancelActive,
       CommunicationQuiesced, DeleteStack, NewStack, CommunicationBind, CommunicationReady,
       StartMain, Unpublish, ipcVars
  <2>2. mpc' \in Closing <=> mpc \in Closing
    BY <1>6 DEF IInv, TypeOK, MainStep, Pass, Hook, PassRefused, PassIdle, PassEndsAtStart,
       PassStartsSdo, SdoGoesOn, SdoEnds, SignalThen,
       PassContinuesSdo, Signal, PassBeforeReset, Tick, CommunicationStop, CancelActive,
       CommunicationQuiesced, DeleteStack, NewStack, CommunicationBind, CommunicationReady,
       StartMain, Unpublish, MainTo, mainVars, Closing
  <2>q. QED
    BY <1>0, <1>1, <2>1, <2>2 DEF IInv, CountInv
<1>q. QED
  BY <1>2, <1>3, <1>4, <1>5, <1>6

LEMMA CountStep ==
    ASSUME IInv, PromptUndo, [Next]_vars
    PROVE  CountInv'
<1>1. CASE UNCHANGED vars
  BY <1>1 DEF vars, ipcVars, callVars, mainVars, IInv, CountInv, Counted, Insiders, Inside
<1>2. ASSUME NEW c \in Callers, Call(c) \/ CallerStep(c) PROVE CountInv'
  BY <1>2, StaysStep, EnterStep, UndoStep, LeaveStep, PostStep DEF CallerStep
<1>3. CASE MainStep \/ PassBeforeReset \/ Tick
  BY <1>3, CountMain
<1>q. QED
  BY <1>1, <1>2, <1>3 DEF Next

LEMMA Invariant == PromptUndo /\ Spec => []IInv
<1>0. SUFFICES ASSUME PromptUndo PROVE Spec => []IInv
  OBVIOUS
<1>1. Init => IInv
  <2>1. Init => TypeOK
    <3>1. Init => ipc \in BOOLEAN /\ commReady \in BOOLEAN /\ mainReady \in BOOLEAN
      BY Zenon DEF Init
    <3>q. QED
      BY <3>1, MasterAssumption DEF Init, TypeOK, NoRequest, Kinds, SdoKinds, Statuses
  <2>2. Init => Insiders = {}
    BY DEF Init, Insiders, Inside
  <2>q. QED
    BY <2>1, <2>2, MasterAssumption DEF Init, IInv, ControlInv, LockInv, RequestInv, DoneInv,
       StackInv, ClientInv, IpcInv, CountInv, Closing, Signals, InSdo
<1>2. IInv /\ [Next]_vars => IInv'
  BY <1>0, TypeOKStep, LockInvStep, RequestInvStep, DoneInvStep, StackInvStep, ClientInvStep,
     IpcInvStep, CountStep DEF IInv, ControlInv
<1>q. QED
  BY <1>1, <1>2, PTL DEF Spec

-----------------------------------------------------------------------------
(* No caller that got past admission touches detached IPC, and no request  *)
(* is started or left on the SDO client of a deleted stack.                *)
THEOREM CallersAndClientsAreSafe == PromptUndo /\ Spec => []MasterIsSafe
<1>1. IInv => MasterIsSafe
  <2>1. IInv => NoUseAfterDetach
    BY DEF IInv, CountInv, Insiders, NoUseAfterDetach
  <2>2. IInv => ClientIsCurrent
    BY DEF IInv, ControlInv, RequestInv, StackInv, InSdo, ClientIsCurrent
  <2>q. QED
    BY <2>1, <2>2 DEF IInv, MasterIsSafe
<1>q. QED
  BY <1>1, Invariant, PTL

(* The sign of admissionState tells open from closed: it is a count of     *)
(* callers, or such a count with the bias, and never in between.           *)
THEOREM AdmissionIsACount == PromptUndo /\ Spec => []AdmissionCounts
<1>1. IInv => AdmissionCounts
  <2>1. \A n \in 0..Bias \div 2 : n >= 0 /\ n - Bias \in -Bias..-(Bias \div 2)
    BY BiasIsLarge
  <2>2. ASSUME IInv PROVE \/ admission = Cardinality(Counted)
                          \/ admission = Cardinality(Counted) - Bias
                          \/ admission = 0
    BY <2>2 DEF IInv, CountInv
  <2>q. QED
    BY <2>1, <2>2, SetsAreSmall, BiasIsLarge DEF AdmissionCounts
<1>q. QED
  BY <1>1, Invariant, PTL

(* A request that times out was initiated at least the configured time     *)
(* before: the client is charged only time that passed since.              *)
THEOREM NoEarlyTimeout == PromptUndo /\ Spec => TimeoutIsFull
<1> DEFINE Early == result' = "TIMEOUT" /\ phase' = "IDLE" /\ phase # "IDLE" /\ ~(age >= Timeout)
<1>1. ASSUME IInv, [Next]_vars, Early PROVE FALSE
  <2>1. CASE UNCHANGED vars
    BY <1>1, <2>1 DEF vars, reqVars
  <2>2. ASSUME NEW c \in Callers, Call(c) \/ CallerStep(c) PROVE FALSE
    BY <1>1, <2>2 DEF CallerStep, Call, AdmissionEnter, AdmissionUndo, TakeCallMutex,
       TakeReqMutex, Busy, Submit, Completed, Collect, AdmissionLeave, PostDrain, reqVars
  <2>3. CASE PassStartsSdo
    <3>1. charged = 0 /\ Timeout > 0
      BY <1>1, <2>3, MasterAssumption
      DEF PassStartsSdo, IInv, ControlInv, ClientInv, InSdo, Closing, Signals
    <3>q. QED
      BY <1>1, <2>3, <3>1, MasterAssumption
      DEF PassStartsSdo, SdoGoesOn, SdoEnds, FreshStart, Finish
  <2>4. CASE PassContinuesSdo
    <3>1. charged + gap <= age \/ age >= Timeout
      BY <1>1, <2>4 DEF PassContinuesSdo, IInv, ControlInv, ClientInv
    <3>q. QED
      BY <1>1, <2>4, <3>1, MasterAssumption
      DEF PassContinuesSdo, SdoGoesOn, SdoEnds, Finish, IInv, TypeOK
  <2>5. CASE (Pass /\ ~PassStartsSdo /\ ~PassContinuesSdo) \/ Signal \/ Hook
             \/ PassBeforeReset \/ Tick
    BY <1>1, <2>5 DEF Pass, PassRefused, PassIdle, PassEndsAtStart, Signal, PassBeforeReset,
       Tick, Hook, CommunicationStop, CancelActive, CommunicationQuiesced, DeleteStack,
       NewStack, CommunicationBind, CommunicationReady, RuntimeInit, StartMain, AdmissionClose,
       Unpublish, AdmissionDrain, Detach, Finish, reqVars
  <2>q. QED
    BY <1>1, <2>1, <2>2, <2>3, <2>4, <2>5 DEF Next, MainStep
<1>2. IInv /\ [Next]_vars =>
        [result' = "TIMEOUT" /\ phase' = "IDLE" /\ phase # "IDLE" => age >= Timeout]_vars
  BY <1>1
<1>q. QED
  BY <1>2, Invariant, PTL DEF TimeoutIsFull, Spec

-----------------------------------------------------------------------------
(* The refinement of RemoteCall.                                           *)

accepted == {c \in Callers : Waiting(c)}

(* Only the owner of callMutex waits, and what it waits for is decided     *)
(* when no request of it is published any more.                            *)
LEMMA OneWaits ==
    ASSUME IInv
    PROVE  /\ \A c, d \in Callers : Waiting(c) /\ Waiting(d) => c = d
           /\ phase # "IDLE" => req.by \in Callers /\ pc[req.by] = "wait" /\ Waiting(req.by)
           /\ phase = "IDLE" => req.by \notin Callers
BY MasterAssumption DEF IInv, ControlInv, LockInv, RequestInv, Waiting, NoRequest

(* finishLocked() decides the request that is published. *)
LEMMA FinishDecides ==
    ASSUME IInv, phase # "IDLE", UNCHANGED <<pc, reply>>,
           NEW s \in Statuses, Finish(s)
    PROVE  Calls!Decide(req.by, s)
<1>1. accepted' = accepted
  BY DEF accepted, Waiting
<1>2. req.by \in accepted /\ decisionOf[req.by] = "none"
  BY OneWaits DEF accepted, decisionOf
<1>3. decisionOf' = [decisionOf EXCEPT ![req.by] = s]
  <2>1. \A c \in Callers : Waiting(c)' <=> Waiting(c)
    BY DEF Waiting
  <2>2. req'.by = Nobody /\ result' = s
    BY DEF Finish, NoRequest
  <2>3. \A c \in Callers : c # req.by => ~Waiting(c)
    BY OneWaits
  <2>q. QED
    BY <2>1, <2>2, <2>3, OneWaits, MasterAssumption DEF decisionOf
<1>q. QED
  BY <1>1, <1>2, <1>3 DEF Calls!Decide, accepted

LEMMA SubmitAccepts ==
    ASSUME IInv, NEW c \in Callers, NEW k \in Kinds, Submit(c, k)
    PROVE  Calls!Accept(c)
<1>1. pc[c] = "submit" /\ pc' = [pc EXCEPT ![c] = "wait"] /\ req'.by = c
      /\ reply' = reply /\ phase = "IDLE"
  BY DEF Submit, To, Serviceable
<1>2. callMutex = c
  BY <1>1 DEF IInv, ControlInv, LockInv
<1>3. \A d \in Callers : ~Waiting(d)
  BY <1>1, <1>2 DEF Waiting, IInv, ControlInv, LockInv
<1>4. \A d \in Callers : Waiting(d)' <=> d = c
  BY <1>1, <1>3 DEF Waiting, IInv, TypeOK
<1>5. accepted = {} /\ accepted' = {c}
  BY <1>3, <1>4 DEF accepted
<1>6. decisionOf' = decisionOf
  BY <1>1, <1>3, <1>4 DEF decisionOf
<1>q. QED
  BY <1>1, <1>5, <1>6 DEF Calls!Accept, accepted

LEMMA CollectReturns ==
    ASSUME IInv, NEW c \in Callers, Collect(c)
    PROVE  Calls!Return(c)
<1>1. pc[c] = "copy" /\ pc' = [pc EXCEPT ![c] = "leave"] /\ UNCHANGED <<req, result>>
      /\ reply' = [reply EXCEPT ![c] = result]
  BY DEF Collect, To, reqVars
<1>2. Waiting(c) /\ req.by # c
  BY <1>1, OneWaits DEF Waiting
<1>3. \A d \in Callers : Waiting(d) <=> d = c
  BY <1>2, OneWaits
<1>4. \A d \in Callers : ~Waiting(d)'
  BY <1>1, <1>3 DEF Waiting, IInv, TypeOK
<1>5. accepted' = accepted \ {c} /\ c \in accepted
  BY <1>3, <1>4 DEF accepted
<1>6. decisionOf[c] = result /\ result # "none"
  BY <1>2 DEF decisionOf, IInv, TypeOK, Statuses
<1>7. decisionOf' = [decisionOf EXCEPT ![c] = "none"]
  BY <1>1, <1>2, <1>3, <1>4 DEF decisionOf
<1>q. QED
  BY <1>1, <1>5, <1>6, <1>7 DEF Calls!Return, accepted

(* The other steps of the callers. *)
LEMMA OthersStutter ==
    ASSUME IInv, NEW c \in Callers,
           \/ Call(c) \/ AdmissionEnter(c) \/ AdmissionUndo(c) \/ TakeCallMutex(c)
           \/ TakeReqMutex(c) \/ Busy(c) \/ Completed(c) \/ AdmissionLeave(c) \/ PostDrain(c)
    PROVE  UNCHANGED <<accepted, decisionOf, reply>>
<1>1. PICK p : To(c, p) /\ (p \in {"wait", "collect", "copy"} <=> Waiting(c))
  BY DEF Call, AdmissionEnter, AdmissionUndo, TakeCallMutex, TakeReqMutex, Busy, Completed,
     AdmissionLeave, PostDrain, Waiting
<1>2. UNCHANGED <<req, result, reply>>
  BY DEF Call, AdmissionEnter, AdmissionUndo, TakeCallMutex, TakeReqMutex, Busy, Completed,
     AdmissionLeave, PostDrain, reqVars
<1>3. \A d \in Callers : Waiting(d)' <=> Waiting(d)
  BY <1>1 DEF To, Waiting, IInv, TypeOK
<1>q. QED
  BY <1>2, <1>3 DEF accepted, decisionOf

LEMMA MainRefines ==
    ASSUME IInv, MainStep \/ PassBeforeReset \/ Tick
    PROVE  Calls!Next \/ UNCHANGED <<accepted, decisionOf, reply>>
<1>1. UNCHANGED <<pc, reply>>
  BY DEF MainStep, Pass, Hook, PassRefused, PassIdle, PassEndsAtStart, PassStartsSdo,
     PassContinuesSdo, Signal, PassBeforeReset, Tick, CommunicationStop, CancelActive,
     CommunicationQuiesced, DeleteStack, NewStack, CommunicationBind, CommunicationReady,
     RuntimeInit, StartMain, AdmissionClose, Unpublish, AdmissionDrain, Detach, callVars
<1>2. UNCHANGED <<req, result>> \/ (phase # "IDLE" /\ \E s \in Statuses : Finish(s))
  BY DEF MainStep, Pass, Hook, PassRefused, PassIdle, PassEndsAtStart, PassStartsSdo,
     PassContinuesSdo, Signal, PassBeforeReset, Tick, CommunicationStop, CancelActive,
     CommunicationQuiesced, DeleteStack, NewStack, CommunicationBind, CommunicationReady,
     RuntimeInit, StartMain, AdmissionClose, Unpublish, AdmissionDrain, Detach, reqVars,
     SdoGoesOn, SdoEnds, Inactive, InSdo, Statuses
<1>3. CASE UNCHANGED <<req, result>>
  BY <1>1, <1>3 DEF accepted, decisionOf, Waiting
<1>4. ASSUME phase # "IDLE", NEW s \in Statuses, Finish(s) PROVE Calls!Next
  <2>1. Calls!Decide(req.by, s) /\ req.by \in Callers
    BY <1>1, <1>4, FinishDecides, OneWaits
  <2>q. QED
    BY <2>1 DEF Calls!Next
<1>q. QED
  BY <1>2, <1>3, <1>4

(* What is decided for a request is what its caller returns with; one      *)
(* request is outstanding at a time, and it is decided once.               *)
THEOREM ImplementsRemoteCall == PromptUndo /\ Spec => CallSpec
<1>1. Init => Calls!Init
  BY DEF Init, Calls!Init, Waiting, decisionOf
<1>2. IInv /\ [Next]_vars => [Calls!Next]_(Calls!vars)
  <2> SUFFICES ASSUME IInv, [Next]_vars
               PROVE  Calls!Next \/ UNCHANGED <<accepted, decisionOf, reply>>
    BY DEF Calls!vars, accepted
  <2>1. CASE UNCHANGED vars
    BY <2>1 DEF vars, callVars, reqVars, accepted, decisionOf, Waiting
  <2>2. ASSUME NEW c \in Callers, NEW k \in Kinds, Submit(c, k) PROVE Calls!Next
    BY <2>2, SubmitAccepts DEF Calls!Next
  <2>3. ASSUME NEW c \in Callers, Collect(c) PROVE Calls!Next
    BY <2>3, CollectReturns DEF Calls!Next
  <2>4. ASSUME NEW c \in Callers, Call(c) \/ CallerStep(c)
        PROVE  Calls!Next \/ UNCHANGED <<accepted, decisionOf, reply>>
    BY <2>2, <2>3, <2>4, OthersStutter DEF CallerStep
  <2>5. CASE MainStep \/ PassBeforeReset \/ Tick
    BY <2>5, MainRefines
  <2>q. QED
    BY <2>1, <2>4, <2>5 DEF Next
<1>q. QED
  BY <1>1, <1>2, Invariant, PTL DEF CallSpec, Calls!Spec, Spec
=============================================================================
