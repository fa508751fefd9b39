--------------------------- MODULE ProfileMaster ---------------------------
(***************************************************************************)
(* CO_profile_master_RTT.c: application threads submit one SDO or NMT      *)
(* request at a time and block; co_main executes it in onMainlineProcess() *)
(* on the SDO client of the current stack; the lifecycle hooks take that   *)
(* client away.  A CO_t is its generation number.  The thread that runs    *)
(* init and cleanup: and then co_main are one control point, mpc, as in    *)
(* CommunicationReset.                                                     *)
(***************************************************************************)
EXTENDS Integers, FiniteSets

CONSTANTS
    Callers,     \* application threads
    Timeout,     \* config.sdoTimeoutMs, in steps of the clock
    MaxGap,      \* bound: time between two passes of co_main
    MaxGen,      \* bound: generations of the stack
    PromptUndo,  \* a refused caller is not suspended between its two atomics
                 \* while the runtime is initialised again
    Nobody       \* no caller

Bias == 1073741824   \* CO_PROFILE_MASTER_RTT_ADMISSION_CLOSED_BIAS, negated

(* There are fewer threads than the bias leaves room for.                  *)
ASSUME MasterAssumption ==
    /\ Timeout \in Nat \ {0} /\ MaxGap \in Nat \ {0} /\ MaxGen \in Nat \ {0}
    /\ PromptUndo \in BOOLEAN
    /\ Nobody \notin Callers
    /\ IsFiniteSet(Callers) /\ Cardinality(Callers) <= Bias \div 2

VARIABLES
    ipc,        \* ipcInitialized: mutexes and semaphores exist
    admission,  \* admissionState
    drainSem,   \* tokens in admissionDrainSem
    doneSem,    \* tokens in completionSem
    callMutex,  \* owner
    reqMutex,   \* owner
    phase,      \* CO_profile_master_RTT_phase
    req,        \* the request published: whose, and its kind
    result,     \* runtime->result.status
    bound,      \* generation of runtime->co and ->client, 0: NULL
    commReady,  \* communicationReady
    mainReady,  \* mainlineReady
    stack,      \* generation that exists, 0: none
    made,       \* generations built so far
    sdo,        \* generation whose SDO client has a transaction, 0: none
    charged,    \* time that client was charged for the transaction
    age,        \* time since the transaction was initiated
    gap,        \* time since co_main's last pass
    mpc,        \* control point of init, cleanup: and co_main
    leaving,    \* what a teardown ends in: "rebuild", "down" or "halt"
    admitted,   \* onRuntimeDeinit(): callers still to leave
    pc,         \* control point of each caller
    reply       \* what the caller's last accepted request returned

ipcVars  == <<ipc, admission, drainSem, admitted>>
reqVars  == <<phase, req, result>>
genVars  == <<bound, commReady, mainReady>>
stackVars == <<stack, made>>
timeVars == <<charged, age, gap>>
mainVars == <<mpc, leaving>>
callVars == <<pc, reply, callMutex, reqMutex>>
vars     == <<ipcVars, doneSem, callVars, reqVars, genVars, stackVars, sdo,
              timeVars, mainVars>>

SdoKinds  == {"upload", "download"}
Kinds     == SdoKinds \cup {"nmt"}
Statuses  == {"OK", "ABORT", "TIMEOUT", "CANCELED", "LOCAL_ERROR"}
NoRequest == [by |-> Nobody, kind |-> "none"]
InSdo     == phase \in {"UPLOAD", "DOWNLOAD"}

(* CO_profileMasterRTT_attach(): registered, and no stack yet. *)
Init ==
    /\ ipc = FALSE /\ admission = 0 /\ drainSem = 0 /\ admitted = 0
    /\ doneSem = 0 /\ callMutex = Nobody /\ reqMutex = Nobody
    /\ phase = "IDLE" /\ req = NoRequest /\ result = "LOCAL_ERROR"
    /\ bound = 0 /\ commReady = FALSE /\ mainReady = FALSE
    /\ stack = 0 /\ made = 0 /\ sdo = 0
    /\ charged = 0 /\ age = 0 /\ gap = 0
    /\ mpc = "down" /\ leaving = "down"
    /\ pc = [c \in Callers |-> "idle"]
    /\ reply = [c \in Callers |-> "none"]

To(c, p)    == pc' = [pc EXCEPT ![c] = p]
MainTo(p)   == mpc' = p /\ UNCHANGED leaving

-----------------------------------------------------------------------------
(* submitAndWait(), in the threads of the application *)

(* The checks before admission; a caller that finds no IPC returns.  Who   *)
(* passes them may lose the processor before the next step.                *)
Call(c) ==
    /\ pc[c] = "idle" /\ ipc
    /\ To(c, "enter")
    /\ UNCHANGED <<ipcVars, doneSem, reply, callMutex, reqMutex, reqVars,
                   genVars, stackVars, sdo, timeVars, mainVars>>

Open(n) == n >= 0

(* admissionEnter(): the tentative count is undone when closure came first. *)
AdmissionEnter(c) ==
    /\ pc[c] = "enter"
    /\ admission' = admission + 1
    /\ To(c, IF Open(admission) THEN "callLock" ELSE "undo")
    /\ UNCHANGED <<ipc, drainSem, admitted, doneSem, reply, callMutex,
                   reqMutex, reqVars, genVars, stackVars, sdo, timeVars, mainVars>>

AdmissionUndo(c) ==
    /\ pc[c] = "undo"
    /\ admission' = admission - 1
    /\ To(c, "idle")
    /\ UNCHANGED <<ipc, drainSem, admitted, doneSem, reply, callMutex,
                   reqMutex, reqVars, genVars, stackVars, sdo, timeVars, mainVars>>

TakeCallMutex(c) ==
    /\ pc[c] = "callLock" /\ callMutex = Nobody
    /\ callMutex' = c
    /\ To(c, "reqLock")
    /\ UNCHANGED <<ipcVars, doneSem, reply, reqMutex, reqVars, genVars,
                   stackVars, sdo, timeVars, mainVars>>

TakeReqMutex(c) ==
    /\ pc[c] \in {"reqLock", "collect"} /\ reqMutex = Nobody
    /\ reqMutex' = c
    /\ To(c, IF pc[c] = "reqLock" THEN "submit" ELSE "copy")
    /\ UNCHANGED <<ipcVars, doneSem, reply, callMutex, reqVars, genVars,
                   stackVars, sdo, timeVars, mainVars>>

(* Somebody will execute a request that is published now. *)
BoundOnly   == bound # 0 /\ phase = "IDLE"
Serviceable == commReady /\ mainReady /\ bound # 0 /\ phase = "IDLE"

(* -RT_EBUSY under requestMutex *)
Busy(c) ==
    /\ pc[c] = "submit" /\ ~Serviceable
    /\ reqMutex' = Nobody /\ callMutex' = Nobody
    /\ To(c, "leave")
    /\ UNCHANGED <<ipcVars, doneSem, reply, reqVars, genVars, stackVars, sdo,
                   timeVars, mainVars>>

Submit(c, k) ==
    /\ pc[c] = "submit" /\ Serviceable
    /\ doneSem' = 0
    /\ phase' = "PENDING" /\ req' = [by |-> c, kind |-> k]
    /\ result' = "LOCAL_ERROR"
    /\ reqMutex' = Nobody
    /\ To(c, "wait")
    /\ UNCHANGED <<ipcVars, reply, callMutex, genVars, stackVars, sdo,
                   timeVars, mainVars>>

Completed(c) ==
    /\ pc[c] = "wait" /\ doneSem > 0
    /\ doneSem' = doneSem - 1
    /\ To(c, "collect")
    /\ UNCHANGED <<ipcVars, reply, callMutex, reqMutex, reqVars, genVars,
                   stackVars, sdo, timeVars, mainVars>>

Collect(c) ==
    /\ pc[c] = "copy"
    /\ reply' = [reply EXCEPT ![c] = result]
    /\ reqMutex' = Nobody /\ callMutex' = Nobody
    /\ To(c, "leave")
    /\ UNCHANGED <<ipcVars, doneSem, reqVars, genVars, stackVars, sdo,
                   timeVars, mainVars>>

(* admissionLeave(): a caller that teardown has counted releases a token. *)
AdmissionLeave(c) ==
    /\ pc[c] = "leave"
    /\ admission' = admission - 1
    /\ To(c, IF Open(admission) THEN "idle" ELSE "post")
    /\ UNCHANGED <<ipc, drainSem, admitted, doneSem, reply, callMutex,
                   reqMutex, reqVars, genVars, stackVars, sdo, timeVars, mainVars>>

PostDrain(c) ==
    /\ pc[c] = "post"
    /\ drainSem' = drainSem + 1
    /\ To(c, "idle")
    /\ UNCHANGED <<ipc, admission, admitted, doneSem, reply, callMutex,
                   reqMutex, reqVars, genVars, stackVars, sdo, timeVars, mainVars>>

CallerStep(c) ==
    \/ AdmissionEnter(c) \/ AdmissionUndo(c)
    \/ TakeCallMutex(c) \/ TakeReqMutex(c)
    \/ Busy(c) \/ (\E k \in Kinds : Submit(c, k))
    \/ Completed(c) \/ Collect(c)
    \/ AdmissionLeave(c) \/ PostDrain(c)

-----------------------------------------------------------------------------
(* onMainlineProcess(), one pass of co_main *)

StillActive == phase
AfterFinish == "IDLE"

(* finishLocked() *)
Finish(status) ==
    /\ result' = status
    /\ phase' = AfterFinish /\ req' = NoRequest

CloseClient == sdo' = 0 /\ charged' = 0 /\ age' = 0

(* completionSem is released after requestMutex. *)
SignalThen(next) ==
    mpc' = IF next = "run" THEN "signalRun" ELSE "signalStop"

Signal ==
    /\ mpc \in {"signalRun", "signalStop", "signalQuiesced", "signalDrain"}
    /\ doneSem' = doneSem + 1
    /\ MainTo(CASE mpc = "signalRun" -> "run"
                [] mpc = "signalStop" -> "stop"
                [] mpc = "signalQuiesced" -> "quiesced"
                [] mpc = "signalDrain" -> "drain")
    /\ UNCHANGED <<ipcVars, callVars, reqVars, genVars, stackVars, sdo, timeVars>>

(* The try-lock fails: the pass does nothing and its time is not charged. *)
PassRefused ==
    /\ mpc = "run" /\ reqMutex # Nobody
    /\ gap' = 0
    /\ UNCHANGED <<ipcVars, doneSem, callVars, reqVars, genVars, stackVars,
                   sdo, charged, age, mainVars>>

PassIdle ==
    /\ mpc = "run" /\ reqMutex = Nobody
    /\ phase = "IDLE" \/ ~commReady
    /\ gap' = 0 /\ mainReady' = (mainReady \/ commReady)
    /\ UNCHANGED <<ipcVars, doneSem, callVars, reqVars, bound, commReady,
                   stackVars, sdo, charged, age, mainVars>>

(* startPendingLocked(): an NMT command, or a step that fails *)
PassEndsAtStart ==
    /\ mpc = "run" /\ reqMutex = Nobody /\ commReady /\ phase = "PENDING"
    /\ gap' = 0 /\ mainReady' = TRUE
    /\ IF bound = 0 THEN Finish("CANCELED")
       ELSE Finish("LOCAL_ERROR") \/ (req.kind = "nmt" /\ Finish("OK"))
    /\ SignalThen("run")
    /\ UNCHANGED <<ipcVars, doneSem, callVars, bound, commReady, stackVars,
                   sdo, charged, age, leaving>>

GapCharged == gap
FreshStart == 0

(* processSdoLocked() on the client, charging it dt.  The client times out *)
(* when it has been charged the timeout; an answer or an abort may come at *)
(* any time.                                                               *)
SdoGoesOn(dt) ==
    /\ charged' = charged + dt /\ charged' < Timeout
    /\ UNCHANGED <<result, req, mpc, leaving>>

SdoEnds(dt) ==
    /\ \E s \in {"OK", "ABORT", "LOCAL_ERROR", "TIMEOUT"} :
          /\ (s = "TIMEOUT") => (charged + dt >= Timeout)
          /\ Finish(s)
    /\ CloseClient
    /\ SignalThen("run") /\ UNCHANGED leaving

PassStartsSdo ==
    /\ mpc = "run" /\ reqMutex = Nobody /\ commReady
    /\ phase = "PENDING" /\ req.kind \in SdoKinds /\ bound # 0
    /\ mainReady' = TRUE
    /\ gap' = 0
    /\ \/ /\ sdo' = bound /\ age' = 0
          /\ phase' = IF req.kind = "upload" THEN "UPLOAD" ELSE "DOWNLOAD"
          /\ SdoGoesOn(FreshStart)
       \/ SdoEnds(FreshStart)
    /\ UNCHANGED <<ipcVars, doneSem, callVars, bound, commReady, stackVars>>

PassContinuesSdo ==
    /\ mpc = "run" /\ reqMutex = Nobody /\ commReady /\ InSdo
    /\ mainReady' = TRUE /\ gap' = 0
    /\ \/ SdoGoesOn(gap) /\ UNCHANGED <<sdo, age, phase>>
       \/ SdoEnds(gap)
    /\ UNCHANGED <<ipcVars, doneSem, callVars, bound, commReady, stackVars>>

(* The same pass, when CO_process() asked for a communication reset; with  *)
(* the lock refused, communicationStop cancels instead.                    *)
PassBeforeReset ==
    /\ mpc = "run" /\ made < MaxGen
    /\ leaving' = "rebuild" /\ gap' = 0
    /\ \/ /\ reqMutex # Nobody
          /\ mpc' = "stop"
          /\ UNCHANGED <<reqVars, mainReady, sdo, charged, age>>
       \/ /\ reqMutex = Nobody
          /\ mainReady' = FALSE
          /\ IF phase = "IDLE"
             THEN mpc' = "stop" /\ UNCHANGED <<reqVars, sdo, charged, age>>
             ELSE /\ IF InSdo THEN CloseClient ELSE UNCHANGED <<sdo, charged, age>>
                  /\ Finish("CANCELED")
                  /\ SignalThen("stop")
    /\ UNCHANGED <<ipcVars, doneSem, callVars, bound, commReady, stackVars>>

-----------------------------------------------------------------------------
(* The lifecycle hooks.  requestMutex is waited for while IPC exists.      *)
CanPublish == ipc => reqMutex = Nobody

(* onCommunicationStop(): publish not ready, then cancelActive() *)
CommunicationStop ==
    /\ mpc = "stop" /\ CanPublish
    /\ commReady' = FALSE /\ mainReady' = FALSE
    /\ MainTo("cancel")
    /\ UNCHANGED <<ipcVars, doneSem, callVars, reqVars, bound, stackVars, sdo, timeVars>>

Inactive == phase = "IDLE" \/ ~ipc

CancelActive ==
    /\ mpc \in {"cancel", "cancelDeinit"} /\ CanPublish
    /\ IF Inactive
       THEN MainTo(IF mpc = "cancel" THEN "quiesced" ELSE "drain") /\ UNCHANGED reqVars
       ELSE /\ Finish("CANCELED")
            /\ MainTo(IF mpc = "cancel" THEN "signalQuiesced" ELSE "signalDrain")
    /\ UNCHANGED <<ipcVars, doneSem, callVars, genVars, stackVars, sdo, timeVars>>

CommunicationQuiesced ==
    /\ mpc = "quiesced" /\ CanPublish
    /\ bound' = 0 /\ commReady' = FALSE /\ mainReady' = FALSE
    /\ MainTo(IF leaving = "down" THEN "close" ELSE "delete")
    /\ UNCHANGED <<ipcVars, doneSem, callVars, reqVars, stackVars, sdo, timeVars>>

(* CO_delete(); the transaction goes with the client. *)
DeleteStack ==
    /\ mpc = "delete"
    /\ stack' = 0 /\ CloseClient
    /\ IF leaving = "rebuild" THEN mpc' = "rebuild" ELSE mpc' = leaving
    /\ UNCHANGED <<ipcVars, doneSem, callVars, reqVars, genVars, made, gap, leaving>>

(* co_app_rtt_new_stack(); in init no mainline exists yet. *)
NewStack ==
    /\ mpc \in {"down", "rebuild"} /\ made < MaxGen
    /\ stack' = made + 1 /\ made' = made + 1
    /\ leaving' = IF mpc = "down" THEN "down" ELSE "halt"
    /\ mpc' = IF mpc = "down" THEN "bindInit" ELSE "bind"
    /\ UNCHANGED <<ipcVars, doneSem, callVars, reqVars, genVars, sdo, timeVars>>

CommunicationBind ==
    /\ mpc \in {"bind", "bindInit"} /\ CanPublish
    /\ \/ /\ bound' = stack /\ commReady' = FALSE /\ mainReady' = FALSE
          /\ MainTo(IF mpc = "bind" THEN "ready" ELSE "readyInit")
       \/ MainTo("stop") /\ UNCHANGED genVars
    /\ UNCHANGED <<ipcVars, doneSem, callVars, reqVars, stackVars, sdo, timeVars>>

CommunicationReady ==
    /\ mpc \in {"ready", "readyInit"} /\ CanPublish
    /\ commReady' = TRUE
    /\ \/ MainTo(IF mpc = "ready" THEN "run" ELSE "init")
       \/ mpc = "ready" /\ MainTo("halt")     \* rt_timer_start() failed
    /\ gap' = 0
    /\ UNCHANGED <<ipcVars, doneSem, callVars, reqVars, bound, mainReady,
                   stackVars, sdo, charged, age>>

(* onRuntimeInit(); on an error the objects made so far are detached. *)
RuntimeInit ==
    /\ mpc = "init"
    /\ PromptUndo => \A c \in Callers : pc[c] # "undo"
    /\ \/ /\ ipc' = TRUE /\ admission' = 0 /\ drainSem' = 0 /\ doneSem' = 0
          /\ MainTo("inited")
       \/ MainTo("stop") /\ UNCHANGED <<ipc, admission, drainSem, doneSem>>
    /\ UNCHANGED <<admitted, callVars, reqVars, genVars, stackVars, sdo, timeVars>>

(* The rest of init: co_main is started last, or a step fails. *)
StartMain ==
    /\ mpc = "inited"
    /\ MainTo("run") \/ MainTo("stop")
    /\ UNCHANGED <<ipcVars, doneSem, callVars, reqVars, genVars, stackVars, sdo, timeVars>>

(* onRuntimeDeinit(): close, cancel, drain, detach *)
AdmissionClose ==
    /\ mpc = "close"
    /\ IF ipc
       THEN /\ admitted' = admission /\ admission' = admission - Bias
            /\ MainTo("unpublish")
       ELSE MainTo("delete") /\ UNCHANGED <<admitted, admission>>
    /\ UNCHANGED <<ipc, drainSem, doneSem, callVars, reqVars, genVars,
                   stackVars, sdo, timeVars>>

Unpublish ==
    /\ mpc = "unpublish" /\ CanPublish
    /\ commReady' = FALSE /\ mainReady' = FALSE
    /\ MainTo("cancelDeinit")
    /\ UNCHANGED <<ipcVars, doneSem, callVars, reqVars, bound, stackVars, sdo, timeVars>>

AdmissionDrain ==
    /\ mpc = "drain" /\ admitted > 0 /\ drainSem > 0
    /\ admitted' = admitted - 1 /\ drainSem' = drainSem - 1
    /\ UNCHANGED <<ipc, admission, doneSem, callVars, reqVars, genVars,
                   stackVars, sdo, timeVars, mainVars>>

NotDrained == TRUE
Drained    == admitted <= 0

Detach ==
    /\ mpc = "drain" /\ Drained
    /\ ipc' = FALSE /\ bound' = 0
    /\ MainTo("delete")
    /\ UNCHANGED <<admission, drainSem, admitted, doneSem, callVars, reqVars,
                   commReady, mainReady, stackVars, sdo, timeVars>>

-----------------------------------------------------------------------------
Tick ==
    /\ mpc = "run" /\ gap < MaxGap
    /\ gap' = gap + 1
    /\ age' = IF sdo # 0 /\ age < Timeout THEN age + 1 ELSE age
    /\ UNCHANGED <<ipcVars, doneSem, callVars, reqVars, genVars, stackVars,
                   sdo, charged, mainVars>>

Pass ==
    PassRefused \/ PassIdle \/ PassEndsAtStart \/ PassStartsSdo \/ PassContinuesSdo

Hook ==
    \/ CommunicationStop \/ CancelActive \/ CommunicationQuiesced
    \/ DeleteStack \/ NewStack \/ CommunicationBind \/ CommunicationReady
    \/ RuntimeInit \/ StartMain
    \/ AdmissionClose \/ Unpublish \/ AdmissionDrain \/ Detach

MainStep == Pass \/ Signal \/ Hook

Next ==
    \/ \E c \in Callers : Call(c) \/ CallerStep(c)
    \/ MainStep \/ PassBeforeReset \/ Tick

(* Threads that can run, run; a mutex that is released is handed to whoever *)
(* waits for it; the clock advances.  Nobody has to call or to reset.      *)
Fairness ==
    /\ \A c \in Callers :
          /\ WF_vars(CallerStep(c))
          /\ SF_vars(TakeCallMutex(c)) /\ SF_vars(TakeReqMutex(c))
    /\ WF_vars(Signal) /\ WF_vars(Pass)
    /\ SF_vars(Hook)
    /\ WF_vars(Tick)

Spec == Init /\ [][Next]_vars /\ Fairness

-----------------------------------------------------------------------------
TypeOK ==
    /\ ipc \in BOOLEAN /\ commReady \in BOOLEAN /\ mainReady \in BOOLEAN
    /\ admission \in Int /\ admitted \in Int
    /\ drainSem \in Nat /\ doneSem \in Nat
    /\ callMutex \in Callers \cup {Nobody} /\ reqMutex \in Callers \cup {Nobody}
    /\ phase \in {"IDLE", "PENDING", "UPLOAD", "DOWNLOAD"}
    /\ req \in [by : Callers \cup {Nobody}, kind : Kinds \cup {"none"}]
    /\ result \in Statuses
    /\ bound \in Nat /\ stack \in Nat /\ made \in Nat /\ sdo \in Nat
    /\ charged \in Nat /\ age \in Nat /\ gap \in Nat
    /\ leaving \in {"rebuild", "down", "halt"}
    /\ reply \in [Callers -> Statuses \cup {"none"}]
    /\ mpc \in {"down", "bindInit", "readyInit", "init", "inited", "run",
                "signalRun", "signalStop", "stop", "cancel", "signalQuiesced",
                "quiesced", "delete", "rebuild", "bind", "ready", "halt",
                "close", "unpublish", "cancelDeinit", "signalDrain", "drain"}
    /\ pc \in [Callers -> {"idle", "enter", "undo", "callLock", "reqLock",
                           "submit", "wait", "collect", "copy", "leave", "post"}]

Inside(c) == pc[c] \in {"callLock", "reqLock", "submit", "wait", "collect",
                        "copy", "leave", "post"}

(* A caller that got past admission finds its mutexes and semaphores until *)
(* it has left, however init, cleanup: and a new init interleave with it.  *)
NoUseAfterDetach == \A c \in Callers : Inside(c) => ipc

(* The SDO client that carries a transaction, and the one a pending        *)
(* request would be started on, belong to the stack that exists.           *)
ClientIsCurrent ==
    /\ InSdo => sdo = stack /\ stack # 0
    /\ phase # "IDLE" => bound = stack /\ bound # 0

(* Callers never see detached IPC, and no request reaches the client of a  *)
(* deleted stack.                                                          *)
MasterIsSafe == TypeOK /\ NoUseAfterDetach /\ ClientIsCurrent

(* admissionState is a count of callers, or such a count with the bias     *)
(* (comment at CO_profile_master_RTT.c:69), whoever enters while it closes *)
(* or opens again.                                                         *)
AdmissionCounts == admission >= 0 \/ admission \in -Bias..-(Bias \div 2)

(* A request times out only after the configured time has passed since it  *)
(* was initiated; time before it, which the pass that starts it was called *)
(* with, is not charged to it.                                             *)
TimeoutIsFull ==
    [][result' = "TIMEOUT" /\ phase' = "IDLE" /\ phase # "IDLE" => age >= Timeout]_vars

(* A request that was published is answered, whatever becomes of the       *)
(* stack, and a teardown that waits for the callers inside ends.           *)
CallsReturn ==
    /\ \A c \in Callers : pc[c] = "wait" ~> pc[c] = "idle"
    /\ mpc = "drain" ~> mpc = "delete"

(* The promise to the callers: RemoteCall.  A request is accepted by its   *)
(* publication, decided by finishLocked(), delivered by the copy.          *)
Waiting(c)  == pc[c] \in {"wait", "collect", "copy"}
decisionOf  == [c \in Callers |-> IF Waiting(c) /\ req.by # c THEN result ELSE "none"]
Calls       == INSTANCE RemoteCall WITH
                 Outcomes <- Statuses, Undecided <- "none",
                 accepted <- {c \in Callers : Waiting(c)},
                 decision <- decisionOf,
                 returned <- reply

(* What was decided for a request is what its caller returns with, and     *)
(* nobody returns with the result of another request.                      *)
CallSpec == Calls!Spec
=============================================================================
