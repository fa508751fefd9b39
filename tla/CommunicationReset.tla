------------------------- MODULE CommunicationReset -------------------------
(***************************************************************************)
(* Life of one CANopenNodeRTT instance: canopen_app_rtt_init() with its    *)
(* cleanup path, co_main's communication reset, and the threads that use   *)
(* the CO_t it deletes: co_rt, the shared profile worker co_prof, a shell  *)
(* command, co_rx, and the periodic timer that wakes two of them.          *)
(*                                                                         *)
(* A step is a maximal stretch of code in which no other thread can see or *)
(* change what the step touches.  The timer callback is one step: co_tmr   *)
(* is a hard timer, whose callback runs in the tick interrupt.             *)
(***************************************************************************)
EXTENDS Naturals, FiniteSets

CONSTANTS
    Ext,          \* registered lifecycle extensions
    Requesters,   \* threads that ask for an extra deferred pass
    SemMax,       \* RT_SEM_VALUE_MAX
    MaxGen        \* bound: CO_t objects created in a behaviour

ASSUME ResetAssumption ==
    /\ Ext # {}
    /\ SemMax \in Nat \ {0}
    /\ MaxGen \in Nat

VARIABLES
    rtFirst,      \* build: co_rt preempts co_main, on one processor
    stack,        \* generation in app->canOpenStack, 0 for NULL
    made,         \* generations created so far
    module,       \* "open": CANmodule has its device, mutexes and semaphores
    canNormal,    \* CANmodule->CANnormal
    boundTo,      \* generation each extension is bound to, 0 if unbound
    ready,        \* extensions told that communication is ready
    lock,         \* owner of lifecycleMutex
    od,           \* owner of the OD mutex
    timer,        \* rtTimer runs
    rtSem,        \* tokens in rtSem
    profSem,      \* tokens in sharedWorkerSem
    wakePending,  \* sharedWorkerWakePending
    inFlight,     \* requesters between test_and_set and rt_sem_release
    rxStop,       \* CANmodule->rxStop
    mpc,          \* control point of the init thread, then of co_main
    boot,         \* canopen_app_rtt_init() has not returned
    failed,       \* the error being returned
    pc,           \* control points of the other threads
    co,           \* the CO_t a thread holds a pointer to, 0 if none
    baseGen,      \* generation in which lastRtUs was last written
    charged       \* baseGen that co_rt's elapsed time was measured from

Users   == {"rt", "prof", "shell", "rx"}
Threads == Users \cup {"main"}

stackVars == <<stack, made, module>>
extVars   == <<boundTo, ready>>
lockVars  == <<lock, od>>
wakeVars  == <<timer, rtSem, profSem, wakePending, inFlight>>
mainVars  == <<mpc, boot, failed>>
userVars  == <<pc, co, rxStop>>
timeVars  == <<rtFirst, baseGen, charged>>
vars == <<stackVars, canNormal, extVars, lockVars, wakeVars, mainVars,
          userVars, timeVars>>

-----------------------------------------------------------------------------
(* The instance is zero-initialised and its semaphores and mutex exist. *)
Init ==
    /\ rtFirst \in BOOLEAN
    /\ stack = 0 /\ made = 0 /\ module = "closed" /\ canNormal = FALSE
    /\ boundTo = [e \in Ext |-> 0] /\ ready = {}
    /\ lock = "free" /\ od = "free"
    /\ timer = FALSE /\ rtSem = 0 /\ profSem = 0
    /\ wakePending = FALSE /\ inFlight = {}
    /\ mpc = "new" /\ boot = TRUE /\ failed = FALSE
    /\ pc = [u \in Users |-> IF u \in {"rt", "prof"} THEN "none"
                             ELSE IF u = "rx" THEN "off" ELSE "idle"]
    /\ co = [t \in Threads |-> 0]
    /\ rxStop = FALSE
    /\ baseGen = 0 /\ charged = 0

(* rt_mutex_take(lifecycleMutex), by whichever thread *)
MutexIgnored == TRUE
MutexFree    == lock = "free"

(* co_rt has a token or the mutex it waits for is free: on one processor,  *)
(* with co_rt more urgent (the default), co_main does not run before co_rt *)
(* has used it.                                                            *)
RtRunnable ==
    \/ pc["rt"] = "idle" /\ rtSem > 0
    \/ pc["rt"] = "lock" /\ lock = "free"
    \/ pc["rt"] = "pass" /\ od = "free"

MainFrom(p) == mpc = p /\ (rtFirst /\ ~boot => ~RtRunnable)

(* An error return: rollback under the mutex in a reset, cleanup: in init. *)
Fail ==
    /\ failed' = TRUE
    /\ mpc' = IF boot THEN "timerStop" ELSE IF stack = 0 THEN "unlock" ELSE "stop"
    /\ UNCHANGED boot

Proceed(p) == mpc' = p /\ UNCHANGED <<boot, failed>>

-----------------------------------------------------------------------------
(* co_main: one pass of its loop *)

(* CO_process() and the SDO server work on the OD under CO_LOCK_OD. *)
MainTakeOD ==
    /\ MainFrom("loop") /\ od = "free"
    /\ od' = "main"
    /\ Proceed("inOD")
    /\ UNCHANGED <<stackVars, canNormal, extVars, lock, wakeVars, userVars, timeVars>>

MainReleaseOD ==
    /\ MainFrom("inOD")
    /\ od' = "free"
    /\ Proceed("loop")
    /\ UNCHANGED <<stackVars, canNormal, extVars, lock, wakeVars, userVars, timeVars>>

(* co_app_rtt_lss_bitrate_process() applies a due bitrate. *)
LssDue ==
    /\ MainFrom("loop")
    /\ Proceed("lssLock")
    /\ UNCHANGED <<stackVars, canNormal, extVars, lockVars, wakeVars, userVars, timeVars>>

LssLock ==
    /\ MainFrom("lssLock") /\ MutexFree
    /\ lock' = "main" /\ canNormal' = FALSE
    /\ Proceed("lssSet")
    /\ UNCHANGED <<stackVars, extVars, od, wakeVars, userVars, timeVars>>

(* A failed try with the new bitrate is followed by one with the old, and  *)
(* that one by nothing.                                                    *)
LssRefused ==
    IF mpc \in {"lssSet", "lssFailed"}
    THEN Proceed("lssBack") /\ UNCHANGED lock
    ELSE Proceed("loop") /\ lock' = "free"

(* CO_RTT_CANsetBitrate() up to co_rtt_rx_start(), which leaves a co_rx    *)
(* that runs alone.                                                        *)
LssSet ==
    /\ MainFrom("lssSet") \/ MainFrom("lssBack")
    /\ \/ /\ pc' = [pc EXCEPT !["rx"] = IF @ = "off" THEN "idle" ELSE @]
          /\ co' = [co EXCEPT !["rx"] = stack]
          /\ rxStop' = (rxStop /\ pc["rx"] # "off")
          /\ Proceed(IF mpc = "lssSet" THEN "lssStart" ELSE "lssBackStart")
          /\ UNCHANGED lock
       \/ /\ LssRefused
          /\ rxStop' \in {rxStop, rxStop /\ pc["rx"] # "off"}
          /\ UNCHANGED <<pc, co>>
    /\ UNCHANGED <<stackVars, canNormal, extVars, od, wakeVars, timeVars>>

(* RT_CAN_CMD_START; a failure stops co_rx.                                *)
LssStart ==
    /\ MainFrom("lssStart") \/ MainFrom("lssBackStart")
    /\ \/ /\ canNormal' = TRUE /\ lock' = "free"
          /\ Proceed("loop")
          /\ UNCHANGED rxStop
       \/ /\ rxStop' = TRUE
          /\ Proceed(IF mpc = "lssStart" THEN "lssFailed" ELSE "lssBackFailed")
          /\ UNCHANGED <<canNormal, lock>>
    /\ UNCHANGED <<stackVars, extVars, od, wakeVars, pc, co, timeVars>>

LssFailed ==
    /\ MainFrom("lssFailed") \/ MainFrom("lssBackFailed")
    /\ pc["rx"] = "off"
    /\ LssRefused
    /\ UNCHANGED <<stackVars, canNormal, extVars, od, wakeVars, userVars, timeVars>>

(* CO_process() returned CO_RESET_COMM. *)
ResetRequested ==
    /\ MainFrom("loop") /\ made < MaxGen
    /\ Proceed("timerStop")
    /\ UNCHANGED <<stackVars, canNormal, extVars, lockVars, wakeVars, userVars, timeVars>>

-----------------------------------------------------------------------------
(* Quiescing: the head of the reset, and of cleanup: *)

TimerStop ==
    /\ MainFrom("timerStop")
    /\ timer' = FALSE
    /\ Proceed("resetRtSem")
    /\ UNCHANGED <<stackVars, canNormal, extVars, lockVars, rtSem, profSem,
                   wakePending, inFlight, userVars, timeVars>>

ResetRtSem ==
    /\ MainFrom("resetRtSem")
    /\ rtSem' = 0
    /\ Proceed("resetProfSem")
    /\ UNCHANGED <<stackVars, canNormal, extVars, lockVars, timer, profSem,
                   wakePending, inFlight, userVars, timeVars>>

ResetProfSem ==
    /\ MainFrom("resetProfSem")
    /\ profSem' = 0
    /\ Proceed("clearProfFlag")
    /\ UNCHANGED <<stackVars, canNormal, extVars, lockVars, timer, rtSem,
                   wakePending, inFlight, userVars, timeVars>>

FlagKept       == wakePending
FlagAfterReset == FALSE

ClearProfFlag ==
    /\ MainFrom("clearProfFlag")
    /\ wakePending' = FlagAfterReset
    /\ Proceed("lock")
    /\ UNCHANGED <<stackVars, canNormal, extVars, lockVars, timer, rtSem,
                   profSem, inFlight, userVars, timeVars>>

LockLifecycle ==
    /\ MainFrom("lock") /\ MutexFree
    /\ lock' = "main"
    /\ Proceed("stop")
    /\ UNCHANGED <<stackVars, canNormal, extVars, od, wakeVars, userVars, timeVars>>

(* CO_RTT_lifecycleCommunicationStop() stops every bound extension. *)
StillReady  == ready
ReadyAtStop == {e \in ready : boundTo[e] = 0}

CommunicationStop ==
    /\ MainFrom("stop")
    /\ ready' = ReadyAtStop
    /\ Proceed("disable")
    /\ UNCHANGED <<stackVars, canNormal, boundTo, lockVars, wakeVars, userVars, timeVars>>

(* CO_CANmodule_disable() up to the wait in co_rtt_rx_stop() *)
RxNotTold == rxStop
RxTold    == TRUE

CANmoduleDisable ==
    /\ MainFrom("disable")
    /\ canNormal' = FALSE
    /\ rxStop' = IF module = "open" THEN RxTold ELSE rxStop
    /\ Proceed("drain")
    /\ UNCHANGED <<stackVars, extVars, lockVars, wakeVars, pc, co, timeVars>>

(* co_rx has exited; the device is closed, the OS objects are detached. *)
RxNotAwaited == TRUE
RxExited     == pc["rx"] = "off"

RxDrained ==
    /\ MainFrom("drain") /\ RxExited
    /\ module' = "closed"
    /\ Proceed("quiesce")
    /\ UNCHANGED <<stack, made, canNormal, extVars, lockVars, wakeVars, userVars, timeVars>>

(* CO_RTT_lifecycleCommunicationQuiesced() *)
StillBound == boundTo
Unbound    == [e \in Ext |-> 0]

CommunicationQuiesced ==
    /\ MainFrom("quiesce")
    /\ boundTo' = Unbound
    /\ Proceed(IF boot THEN "teardown" ELSE "delete")
    /\ UNCHANGED <<stackVars, canNormal, ready, lockVars, wakeVars, userVars, timeVars>>

(* cleanup: deletes co_prof (RuntimeDeinit), the timer, co_rt and co_main. *)
Teardown ==
    /\ MainFrom("teardown")
    /\ pc' = [pc EXCEPT !["rt"] = "none", !["prof"] = "none"]
    /\ profSem' = 0 /\ wakePending' = FALSE
    /\ Proceed("delete")
    /\ UNCHANGED <<stackVars, canNormal, extVars, lockVars, timer, rtSem,
                   inFlight, co, rxStop, timeVars>>

(* CO_delete(); app->canOpenStack = NULL *)
DeleteStack ==
    /\ MainFrom("delete")
    /\ stack' = 0
    /\ Proceed(IF failed THEN "unlock" ELSE "new")
    /\ UNCHANGED <<made, module, canNormal, extVars, lockVars, wakeVars, userVars, timeVars>>

-----------------------------------------------------------------------------
(* Building the next generation *)

NewStack ==
    /\ MainFrom("new") /\ made < MaxGen
    /\ \/ /\ made' = made + 1 /\ stack' = made + 1
          /\ Proceed("canInit")
       \/ /\ Fail
          /\ UNCHANGED <<stack, made>>
    /\ UNCHANGED <<module, canNormal, extVars, lockVars, wakeVars, userVars, timeVars>>

(* Storage, CO_CANinit(), LSS and CO_CANopenInit(); an error after         *)
(* CO_CANinit() leaves the module open.                                    *)
CANopenInit ==
    /\ MainFrom("canInit")
    /\ \/ module' = "open" /\ Proceed("bind")
       \/ module' \in {"open", "closed"} /\ Fail
    /\ rxStop' = IF module' = "open" THEN FALSE ELSE rxStop
    /\ UNCHANGED <<stack, made, canNormal, extVars, lockVars, wakeVars, pc, co, timeVars>>

(* CO_RTT_lifecycleBindCommunication() rolls back what it bound. *)
BindCommunication ==
    /\ MainFrom("bind")
    /\ \/ boundTo' = [e \in Ext |-> stack] /\ Proceed("normal")
       \/ boundTo' = Unbound /\ Fail
    /\ UNCHANGED <<stackVars, canNormal, ready, lockVars, wakeVars, userVars, timeVars>>

(* SRDO, PDO and demo initialisation, then co_rtt_rx_start() in            *)
(* CO_CANsetNormalMode().                                                  *)
RxStart ==
    /\ MainFrom("normal")
    /\ \/ /\ pc' = [pc EXCEPT !["rx"] = "idle"]
          /\ co' = [co EXCEPT !["rx"] = stack]
          /\ rxStop' = FALSE
          /\ Proceed("canStart")
       \/ Fail /\ UNCHANGED userVars
    /\ UNCHANGED <<stackVars, canNormal, extVars, lockVars, wakeVars, timeVars>>

CANstart ==
    /\ MainFrom("canStart")
    /\ \/ canNormal' = TRUE /\ Proceed("ready") /\ UNCHANGED rxStop
       \/ rxStop' = TRUE /\ Proceed("canFailed") /\ UNCHANGED canNormal
    /\ UNCHANGED <<stackVars, extVars, lockVars, wakeVars, pc, co, timeVars>>

(* CO_CANsetNormalMode() has stopped co_rx again and returns. *)
CANstartFailed ==
    /\ MainFrom("canFailed") /\ RxExited
    /\ Fail
    /\ UNCHANGED <<stackVars, canNormal, extVars, lockVars, wakeVars, userVars, timeVars>>

(* CO_RTT_lifecycleCommunicationReady() *)
CommunicationReady ==
    /\ MainFrom("ready")
    /\ ready' = {e \in Ext : boundTo[e] # 0}
    /\ Proceed(IF boot THEN "threads" ELSE "unlock")
    /\ UNCHANGED <<stackVars, canNormal, boundTo, lockVars, wakeVars, userVars, timeVars>>

(* Creates co_main, co_rt, the runtime of every extension, co_prof's       *)
(* semaphore and thread and the timer; starts co_rt, then co_prof.         *)
StartThreads ==
    /\ MainFrom("threads")
    /\ \/ /\ pc' = [pc EXCEPT !["rt"] = "idle", !["prof"] = "idle"]
          /\ Proceed("baseline")
       \/ /\ pc' \in {pc, [pc EXCEPT !["rt"] = "idle"]}
          /\ Fail
    /\ UNCHANGED <<stackVars, canNormal, extVars, lockVars, wakeVars, co, rxStop, timeVars>>

UnlockLifecycle ==
    /\ MainFrom("unlock")
    /\ lock' = "free"
    /\ IF failed
       THEN Proceed("dead") /\ UNCHANGED co
       ELSE Proceed("baseline") /\ co' = [co EXCEPT !["main"] = stack]
    /\ UNCHANGED <<stackVars, canNormal, extVars, od, wakeVars, pc, rxStop, timeVars>>

(* app->lastRtUs = CO_RTT_timeNowUs() *)
BaselineKept == baseGen
BaselineNow  == stack

Baseline ==
    /\ MainFrom("baseline")
    /\ baseGen' = BaselineNow
    /\ Proceed("timerStart")
    /\ UNCHANGED <<stackVars, canNormal, extVars, lockVars, wakeVars, userVars, rtFirst,
                   charged>>

(* A failed restart in a reset closes CANnormal and ends co_main. *)
TimerStart ==
    /\ MainFrom("timerStart")
    /\ \/ /\ timer' = TRUE
          /\ Proceed(IF boot THEN "startMain" ELSE "loop")
          /\ UNCHANGED canNormal
       \/ /\ boot /\ Fail
          /\ UNCHANGED <<timer, canNormal>>
       \/ /\ ~boot /\ Proceed("dead")
          /\ canNormal' = FALSE
          /\ UNCHANGED timer
    /\ UNCHANGED <<stackVars, extVars, lockVars, rtSem, profSem, wakePending,
                   inFlight, userVars, timeVars>>

(* The mainline thread is started last. *)
StartMain ==
    /\ MainFrom("startMain")
    /\ \/ /\ boot' = FALSE /\ mpc' = "loop"
          /\ co' = [co EXCEPT !["main"] = stack]
          /\ UNCHANGED failed
       \/ Fail /\ UNCHANGED co
    /\ UNCHANGED <<stackVars, canNormal, extVars, lockVars, wakeVars, pc, rxStop, timeVars>>

-----------------------------------------------------------------------------
(* The timer and the other callers of                                      *)
(* CO_RTT_lifecycleRequestDeferredProcess()                                *)

Unsaturated(n) == n + 1
Inc(n) == IF n < SemMax THEN n + 1 ELSE n

Tick ==
    /\ timer
    /\ rtSem' = Inc(rtSem)
    /\ profSem' = IF wakePending THEN profSem ELSE Inc(profSem)
    /\ wakePending' = (wakePending \/ profSem < SemMax)
    /\ UNCHANGED <<stackVars, canNormal, extVars, lockVars, timer, inFlight,
                   mainVars, userVars, timeVars>>

(* rt_atomic_flag_test_and_set(): only the one that set it posts a token. *)
ClaimWake(r) ==
    /\ ~boot /\ pc["prof"] # "none" /\ r \notin inFlight
    /\ wakePending' = TRUE
    /\ inFlight' = IF wakePending THEN inFlight ELSE inFlight \cup {r}
    /\ UNCHANGED <<stackVars, canNormal, extVars, lockVars, timer, rtSem,
                   profSem, mainVars, userVars, timeVars>>

PostWake(r) ==
    /\ r \in inFlight
    /\ inFlight' = inFlight \ {r}
    /\ profSem' = Inc(profSem)
    /\ wakePending' = (wakePending /\ profSem < SemMax)
    /\ UNCHANGED <<stackVars, canNormal, extVars, lockVars, timer, rtSem,
                   mainVars, userVars, timeVars>>

-----------------------------------------------------------------------------
(* co_rt *)

RtTake ==
    /\ pc["rt"] = "idle" /\ rtSem > 0
    /\ rtSem' = rtSem - 1
    /\ pc' = [pc EXCEPT !["rt"] = "lock"]
    /\ UNCHANGED <<stackVars, canNormal, extVars, lockVars, timer, profSem,
                   wakePending, inFlight, mainVars, co, rxStop, timeVars>>

(* A NULL stack releases the mutex at once; otherwise the elapsed time is  *)
(* measured from lastRtUs, which becomes now.                              *)
RtLock ==
    /\ pc["rt"] = "lock" /\ MutexFree
    /\ IF stack = 0
       THEN /\ pc' = [pc EXCEPT !["rt"] = "idle"]
            /\ UNCHANGED <<lock, co, baseGen, charged>>
       ELSE /\ pc' = [pc EXCEPT !["rt"] = "pass"]
            /\ lock' = "rt"
            /\ co' = [co EXCEPT !["rt"] = stack]
            /\ charged' = baseGen /\ baseGen' = stack
    /\ UNCHANGED <<stackVars, canNormal, extVars, od, wakeVars, mainVars,
                   rxStop, rtFirst>>

(* SYNC, RPDO, synchronous extension data, TPDO and SRDO under the OD      *)
(* mutex, if CANnormal and the node ID is configured.                      *)
RtProcess ==
    /\ pc["rt"] = "pass" /\ canNormal /\ od = "free"
    /\ od' = "rt"
    /\ pc' = [pc EXCEPT !["rt"] = "od"]
    /\ UNCHANGED <<stackVars, canNormal, extVars, lock, wakeVars, mainVars,
                   co, rxStop, timeVars>>

RtLeave ==
    /\ pc["rt"] \in {"pass", "od"}
    /\ od' = IF pc["rt"] = "od" THEN "free" ELSE od
    /\ lock' = "free"
    /\ pc' = [pc EXCEPT !["rt"] = "idle"]
    /\ co' = [co EXCEPT !["rt"] = 0]
    /\ UNCHANGED <<stackVars, canNormal, extVars, wakeVars, mainVars, rxStop, timeVars>>

-----------------------------------------------------------------------------
(* co_prof: CO_RTT_lifecycleSharedWorkerEntry() *)

ProfTake ==
    /\ pc["prof"] = "idle" /\ profSem > 0
    /\ profSem' = profSem - 1
    /\ pc' = [pc EXCEPT !["prof"] = "clear"]
    /\ UNCHANGED <<stackVars, canNormal, extVars, lockVars, timer, rtSem,
                   wakePending, inFlight, mainVars, co, rxStop, timeVars>>

FlagAtTake == FALSE

ProfClear ==
    /\ pc["prof"] = "clear"
    /\ wakePending' = FlagAtTake
    /\ pc' = [pc EXCEPT !["prof"] = "lock"]
    /\ UNCHANGED <<stackVars, canNormal, extVars, lockVars, timer, rtSem,
                   profSem, inFlight, mainVars, co, rxStop, timeVars>>

ProfLock ==
    /\ pc["prof"] = "lock" /\ MutexFree
    /\ lock' = "prof"
    /\ co' = [co EXCEPT !["prof"] = stack]
    /\ pc' = [pc EXCEPT !["prof"] = "pass"]
    /\ UNCHANGED <<stackVars, canNormal, extVars, od, wakeVars, mainVars, rxStop, timeVars>>

(* An extension's deferredProcess works in OD windows of its own, and only *)
(* while it is bound, ready and CANnormal holds.                           *)
ProfProcess ==
    /\ pc["prof"] = "pass" /\ canNormal /\ od = "free"
    /\ \E e \in Ext : boundTo[e] # 0 /\ e \in ready
    /\ od' = "prof"
    /\ pc' = [pc EXCEPT !["prof"] = "od"]
    /\ UNCHANGED <<stackVars, canNormal, extVars, lock, wakeVars, mainVars,
                   co, rxStop, timeVars>>

ProfWindowEnd ==
    /\ pc["prof"] = "od"
    /\ od' = "free"
    /\ pc' = [pc EXCEPT !["prof"] = "pass"]
    /\ UNCHANGED <<stackVars, canNormal, extVars, lock, wakeVars, mainVars,
                   co, rxStop, timeVars>>

ProfLeave ==
    /\ pc["prof"] = "pass"
    /\ lock' = "free"
    /\ co' = [co EXCEPT !["prof"] = 0]
    /\ pc' = [pc EXCEPT !["prof"] = "idle"]
    /\ UNCHANGED <<stackVars, canNormal, extVars, od, wakeVars, mainVars, rxStop, timeVars>>

-----------------------------------------------------------------------------
(* A shell command (canopen_gw): the stack is looked up under the mutex. *)

ShellLock ==
    /\ pc["shell"] = "idle" /\ MutexFree /\ ~boot /\ stack # 0
    /\ lock' = "shell"
    /\ co' = [co EXCEPT !["shell"] = stack]
    /\ pc' = [pc EXCEPT !["shell"] = "pass"]
    /\ UNCHANGED <<stackVars, canNormal, extVars, od, wakeVars, mainVars, rxStop, timeVars>>

ShellLeave ==
    /\ pc["shell"] = "pass"
    /\ lock' = "free"
    /\ co' = [co EXCEPT !["shell"] = 0]
    /\ pc' = [pc EXCEPT !["shell"] = "idle"]
    /\ UNCHANGED <<stackVars, canNormal, extVars, od, wakeVars, mainVars, rxStop, timeVars>>

-----------------------------------------------------------------------------
(* co_rx, as RxDrain promises it: it dispatches a batch, or exits once     *)
(* rxStop is set.                                                          *)

RxReceive ==
    /\ pc["rx"] = "idle" /\ ~rxStop
    /\ pc' = [pc EXCEPT !["rx"] = "busy"]
    /\ UNCHANGED <<stackVars, canNormal, extVars, lockVars, wakeVars, mainVars,
                   co, rxStop, timeVars>>

RxDispatched ==
    /\ pc["rx"] = "busy"
    /\ pc' = [pc EXCEPT !["rx"] = "idle"]
    /\ UNCHANGED <<stackVars, canNormal, extVars, lockVars, wakeVars, mainVars,
                   co, rxStop, timeVars>>

RxExit ==
    /\ pc["rx"] = "idle" /\ rxStop
    /\ pc' = [pc EXCEPT !["rx"] = "off"]
    /\ co' = [co EXCEPT !["rx"] = 0]
    /\ UNCHANGED <<stackVars, canNormal, extVars, lockVars, wakeVars, mainVars,
                   rxStop, timeVars>>

-----------------------------------------------------------------------------
MainSteps ==
    \/ MainTakeOD \/ MainReleaseOD \/ LssDue \/ LssLock
    \/ LssSet \/ LssStart \/ LssFailed
    \/ ResetRequested \/ TimerStop \/ ResetRtSem \/ ResetProfSem
    \/ ClearProfFlag \/ LockLifecycle \/ CommunicationStop
    \/ CANmoduleDisable \/ RxDrained \/ CommunicationQuiesced \/ Teardown
    \/ DeleteStack \/ NewStack \/ CANopenInit \/ BindCommunication \/ RxStart
    \/ CANstart \/ CANstartFailed \/ CommunicationReady \/ StartThreads \/ UnlockLifecycle
    \/ Baseline \/ TimerStart \/ StartMain

RtSteps   == RtTake \/ RtLock \/ RtProcess \/ RtLeave
ProfSteps == ProfTake \/ ProfClear \/ ProfLock \/ ProfProcess
             \/ ProfWindowEnd \/ ProfLeave
RxSteps   == RxReceive \/ RxDispatched \/ RxExit

(* co_main has ended, or canopen_app_rtt_init() returned an error: what is *)
(* left of the instance waits for semaphores nobody posts any more.        *)
Ended ==
    /\ mpc = "dead"
    /\ UNCHANGED vars

Next ==
    \/ MainSteps
    \/ Tick
    \/ \E r \in Requesters : ClaimWake(r) \/ PostWake(r)
    \/ RtSteps
    \/ ProfSteps
    \/ ShellLock \/ ShellLeave
    \/ RxSteps
    \/ Ended

Spec == Init /\ [][Next]_vars

(* Every thread keeps running: the period of co_rt is longer than its pass *)
(* (else no less urgent thread ever runs), so co_main makes progress       *)
(* although it is preempted again and again.                               *)
(* lifecycleMutex is handed over on release to a waiter, so nobody who     *)
(* waits for it is overtaken for ever; co_prof's pass visits each          *)
(* extension once, so it ends.  Frames, shell commands, requests and       *)
(* resets come or do not come, and so do ticks.                            *)
Fairness ==
    /\ []<>~RtRunnable
    /\ SF_vars(MainSteps /\ mpc \notin {"loop", "inOD"})
    /\ SF_vars(MainReleaseOD)
    /\ WF_vars(RtTake) /\ SF_vars(RtLock) /\ WF_vars(RtLeave)
    /\ WF_vars(ProfTake) /\ WF_vars(ProfClear) /\ SF_vars(ProfLock)
    /\ WF_vars(ProfWindowEnd) /\ SF_vars(ProfLeave)
    /\ WF_vars(ShellLeave)
    /\ WF_vars(RxDispatched) /\ WF_vars(RxExit)
    /\ \A r \in Requesters : WF_vars(PostWake(r))

FairSpec == Spec /\ Fairness

-----------------------------------------------------------------------------
(* Properties *)

LssPoints ==
    {"lssLock", "lssSet", "lssStart", "lssFailed", "lssBack", "lssBackStart", "lssBackFailed"}

MainPoints == LssPoints \cup
    {"new", "canInit", "bind", "normal", "canStart", "canFailed", "ready", "threads",
     "unlock", "baseline", "timerStart", "startMain", "loop", "inOD",
     "timerStop", "resetRtSem", "resetProfSem",
     "clearProfFlag", "lock", "stop", "disable", "drain", "quiesce",
     "teardown", "delete", "dead"}

FlagTypes ==
    /\ rtFirst \in BOOLEAN /\ canNormal \in BOOLEAN /\ timer \in BOOLEAN
    /\ wakePending \in BOOLEAN /\ boot \in BOOLEAN /\ failed \in BOOLEAN
    /\ rxStop \in BOOLEAN

DataTypes ==
    /\ stack \in 0..MaxGen /\ made \in 0..MaxGen
    /\ module \in {"open", "closed"}
    /\ boundTo \in [Ext -> 0..MaxGen] /\ ready \subseteq Ext
    /\ lock \in {"free", "main", "rt", "prof", "shell"}
    /\ od \in {"free", "main", "rt", "prof"}
    /\ rtSem \in 0..SemMax /\ profSem \in 0..SemMax
    /\ inFlight \subseteq Requesters
    /\ mpc \in MainPoints
    /\ pc \in [Users -> {"none", "off", "idle", "busy", "clear", "lock", "pass", "od"}]
    /\ co \in [Threads -> 0..MaxGen]
    /\ baseGen \in 0..MaxGen /\ charged \in 0..MaxGen

TypeOK == FlagTypes /\ DataTypes

(* A worker that holds a CO_t pointer holds the current one, and co_main's *)
(* local copy is the current one whenever its loop body runs: nobody works *)
(* on a CO_t that CO_delete() has freed.                                   *)
NoUseAfterDelete ==
    /\ \A u \in Users : co[u] # 0 => co[u] = stack
    /\ mpc \in {"loop", "inOD"} \cup LssPoints => co["main"] = stack /\ stack # 0

(* No thread holds the OD mutex, and co_rx does not run, once              *)
(* CO_CANmodule_disable() has detached the module's mutexes and semaphores.*)
ModuleOutlivesUse ==
    (od # "free" \/ pc["rx"] # "off") => module = "open"

(* An extension is bound to no generation but the current one, and one     *)
(* that processes has been bound and told that communication is ready.     *)
BindingsFollowStack ==
    /\ \A e \in Ext : boundTo[e] # 0 => boundTo[e] = stack
    /\ \A e \in ready : boundTo[e] = stack /\ module = "open"

(* What a thread, the CAN module and an extension work on outlives their   *)
(* use of it: the three invariants above are what co_main's order of       *)
(* stopping, awaiting, unbinding and deleting is for.                      *)
ObjectsOutliveUse ==
    /\ TypeOK
    /\ NoUseAfterDelete /\ ModuleOutlivesUse /\ BindingsFollowStack

(* CO_RTT_lifecycleCommunicationQuiesced() runs only after the receive     *)
(* thread of the old generation has exited, and after every extension was  *)
(* told to stop.                                                           *)
QuiescedAfterDrain ==
    [][\A e \in Ext : boundTo[e] # 0 /\ boundTo'[e] = 0
           => pc["rx"] = "off" /\ e \notin ready]_vars

(* The coalescing flag never stays set without a token, or a thread about  *)
(* to post or retire one, whatever reset and requests do to each other: a  *)
(* latched flag would silence co_prof for ever.                            *)
WakeNotLatched ==
    wakePending => \/ profSem > 0 \/ inFlight # {} \/ pc["prof"] = "clear"
                   \/ mpc = "clearProfFlag"

(* The first realtime pass of a generation charges only time that elapsed  *)
(* after realtime scheduling resumed for that generation, where co_rt is   *)
(* the more urgent thread of one processor.                                *)
FreshBaseline ==
    rtFirst /\ pc["rt"] = "od" => charged = co["rt"]

(* Communication reset ends, with a running loop or a reported error.      *)
ResetTerminates ==
    (mpc = "timerStop") ~> (mpc \in {"loop", "dead"})

(* A request accepted while the loop runs is followed by a deferred pass,  *)
(* unless a reset drains it.                                               *)
RequestServed ==
    (wakePending /\ mpc = "loop") ~> (pc["prof"] = "pass" \/ mpc = "clearProfFlag")

(* A reset ends and an accepted request is served: no cycle of locks and   *)
(* no lost wakeup stops co_main or co_prof.                                *)
ResetIsLive == ResetTerminates /\ RequestServed

(* The runtime implements the pinning discipline: see GenerationPin. *)
Pin == INSTANCE GenerationPin WITH
           current <- stack, pin <- [u \in Users |-> co[u]]

PinSpec == Pin!Spec

(* co_rx is started, told and awaited as RxDrain demands; RxPath shows     *)
(* that the driver keeps that promise.                                     *)
Drain == INSTANCE RxDrain WITH rx <- pc["rx"], told <- rxStop

DrainSpec == Drain!Spec

=============================================================================
