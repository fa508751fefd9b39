---------------------------- MODULE DeviceShell ----------------------------
(***************************************************************************)
(* The console commands "cia401" and "cia402": how a command gets from the *)
(* console to a runtime that resets and teardown take away, and in which   *)
(* pieces it writes the dictionary.  Both commands lock alike:             *)
(* CO_401_device_RTT_msh.c follows CO_402_device_RTT_msh.c.                *)
(*                                                                         *)
(* Arguments are checked before a lock is taken (ShellArguments); what a   *)
(* command means to a mode is in MotionModes.                              *)
(***************************************************************************)
EXTENDS Naturals, Sequences

CONSTANTS
    Consoles,    \* threads that may run a command
    Commands,    \* the commands they run, names of Objects
    Nobody       \* holds a free mutex

VARIABLES
    binding, lifecycle, od,   \* the holders of the three mutexes
    stage,       \* of the application: "down", "built", "running", "reset", "teardown"
    published,   \* the binding names the application and its runtime
    alive,       \* deviceInitialized (managerInitialized)
    ready,       \* communicationReady, and the dictionary is bound
    stack,       \* app->canOpenStack, with its OD mutex, exists
    pc,          \* control point of each console
    left,        \* objects the command of each console has still to write
    begun,       \* it has written one
    wake,        \* the worker's coalesced wake-up
    workerPc,    \* "wait", "lifecycle", "od", "pass"
    unseen,      \* a command has returned success and no pass has read the dictionary
    halfSeen     \* somebody read the dictionary in the middle of a command

mutexes == <<binding, lifecycle, od>>
runtime == <<stage, published, alive, ready, stack>>
console == <<pc, left, begun>>
worker  == <<wake, workerPc, unseen>>
vars    == <<mutexes, runtime, console, worker, halfSeen>>

(* A mutex knows its holders apart. *)
DeviceShellAssumption ==
    Nobody \notin Consoles \cup {"life", "worker"} /\ Consoles \cap {"life", "worker"} = {}

(* The objects each command writes, in their order, and the product's      *)
(* fault and supervision sources where it writes those                     *)
DigitalEvent    == <<"InterruptEnable", "Polarity", "Filter", "Any", "Rising", "Falling">>
AnalogEvent     == <<"InterruptEnable", "Trigger", "Upper", "Lower", "Delta", "Negative", "Positive">>
DigitalFailsafe == <<"OutputPolarity", "ErrorMode", "ErrorValue", "OutputFilter">>
AnalogFailsafe  == <<"ErrorMode", "ErrorValue">>
Condition       == <<"Scaling", "Offset">>
DigitalOutput   == <<"Output">>
AnalogOutput    == <<"Output">>
Pp == <<"TargetPosition", "Velocity", "Acceleration", "Deceleration", "Controlword">>
Pv == <<"TargetVelocity", "Acceleration", "Deceleration">>
Hm == <<"Method", "Offset", "SwitchSpeed", "ZeroSpeed", "Acceleration">>
Fault       == <<"ProductFault">>
Supervision == <<"Established", "SupervisionFault", "SupervisionReady", "CommunicationFault">>
Status       == <<>>
DigitalInput == <<>>
AnalogInput  == <<>>
Process      == <<>>

Objects ==
    [devent |-> DigitalEvent, aevent |-> AnalogEvent, dfailsafe |-> DigitalFailsafe,
     afailsafe |-> AnalogFailsafe, condition |-> Condition, do |-> DigitalOutput,
     ao |-> AnalogOutput, pp |-> Pp, pv |-> Pv, hm |-> Hm,
     fault |-> Fault, supervision |-> Supervision, status |-> Status,
     di |-> DigitalInput, ai |-> AnalogInput, process |-> Process]

Init ==
    /\ binding = Nobody /\ lifecycle = Nobody /\ od = Nobody
    /\ stage = "down" /\ published = FALSE /\ alive = FALSE /\ ready = FALSE /\ stack = FALSE
    /\ pc = [c \in Consoles |-> "idle"]
    /\ left = [c \in Consoles |-> <<>>]
    /\ begun = [c \in Consoles |-> FALSE]
    /\ wake = FALSE /\ workerPc = "wait" /\ unseen = FALSE /\ halfSeen = FALSE

At(c, p) == pc[c] = p
To(c, p) == pc' = [pc EXCEPT ![c] = p] /\ UNCHANGED <<left, begun>>

HalfWritten == \E c \in Consoles : begun[c] /\ left[c] # <<>>

-----------------------------------------------------------------------------
(* CO_401_mshLock(), CO_402_mshLock()                                      *)

Snapshot(c) ==
    /\ At(c, "idle") /\ binding = Nobody
    /\ binding' = c
    /\ To(c, "snapshot")
    /\ UNCHANGED <<lifecycle, od, runtime, worker, halfSeen>>

(* The binding mutex is given back before the wait for lifecycleMutex.     *)
KeepBinding == binding
GiveBack    == Nobody

ReadApp(c) ==
    /\ At(c, "snapshot")
    /\ binding' = IF published THEN GiveBack ELSE Nobody
    /\ To(c, IF published THEN "lifecycle" ELSE "idle")
    /\ UNCHANGED <<lifecycle, od, runtime, worker, halfSeen>>

(* The mutex may have been detached since: then the wait fails.            *)
TakeLifecycle(c) ==
    /\ At(c, "lifecycle")
    /\ \/ /\ stage # "down" /\ lifecycle = Nobody
          /\ lifecycle' = c
          /\ To(c, "again")
       \/ stage = "down" /\ To(c, "idle") /\ UNCHANGED lifecycle
    /\ UNCHANGED <<binding, od, runtime, worker, halfSeen>>

SnapshotAgain(c) ==
    /\ At(c, "again") /\ binding \in {Nobody, c}
    /\ binding' = c
    /\ To(c, "revalidate")
    /\ UNCHANGED <<lifecycle, od, runtime, worker, halfSeen>>

Trusted == TRUE
Valid   == published /\ alive /\ ready /\ stack

Revalidate(c) ==
    /\ At(c, "revalidate")
    /\ binding' = Nobody
    /\ IF Valid THEN To(c, "od") /\ UNCHANGED lifecycle
                ELSE To(c, "idle") /\ lifecycle' = Nobody
    /\ UNCHANGED <<od, runtime, worker, halfSeen>>

NoOdLock(c) == UNCHANGED od
OdLock(c)   == od = Nobody /\ od' = c

TakeOd(c) ==
    /\ At(c, "od") /\ OdLock(c)
    /\ \E command \in Commands : left' = [left EXCEPT ![c] = Objects[command]]
    /\ begun' = [begun EXCEPT ![c] = FALSE]
    /\ pc' = [pc EXCEPT ![c] = "work"]
    /\ UNCHANGED <<binding, lifecycle, runtime, worker, halfSeen>>

-----------------------------------------------------------------------------
(* The body of a command                                                   *)

Write(c) ==
    /\ At(c, "work") /\ left[c] # <<>>
    /\ left' = [left EXCEPT ![c] = Tail(@)]
    /\ begun' = [begun EXCEPT ![c] = TRUE]
    /\ UNCHANGED <<mutexes, runtime, pc, worker, halfSeen>>

Finish(c, p) ==
    /\ pc' = [pc EXCEPT ![c] = p]
    /\ left' = [left EXCEPT ![c] = <<>>] /\ begun' = [begun EXCEPT ![c] = FALSE]

(* CO_401_mshUnlock(): a write failed, a check did, or nothing is to be    *)
(* processed.  What has been written stays.                                *)
Refuse(c) ==
    /\ At(c, "work")
    /\ od' = Nobody
    /\ Finish(c, "unlock")
    /\ UNCHANGED <<binding, lifecycle, runtime, worker, halfSeen>>

(* CO_401_mshPublishAndUnlock()                                            *)
Publish(c) ==
    /\ At(c, "work") /\ left[c] = <<>>
    /\ od' = Nobody
    /\ Finish(c, "request")
    /\ UNCHANGED <<binding, lifecycle, runtime, worker, halfSeen>>

RequestProcess(c) ==
    /\ At(c, "request")
    /\ wake' = TRUE /\ unseen' = TRUE
    /\ To(c, "unlock")
    /\ UNCHANGED <<mutexes, runtime, workerPc, halfSeen>>

Unlock(c) ==
    /\ At(c, "unlock")
    /\ lifecycle' = Nobody
    /\ To(c, "idle")
    /\ UNCHANGED <<binding, od, runtime, worker, halfSeen>>

Console(c) ==
    \/ Snapshot(c) \/ ReadApp(c) \/ TakeLifecycle(c) \/ SnapshotAgain(c) \/ Revalidate(c)
    \/ TakeOd(c) \/ Write(c) \/ Refuse(c) \/ Publish(c) \/ RequestProcess(c) \/ Unlock(c)

-----------------------------------------------------------------------------
(* The profile worker: workerEntry(), CO_402_device_RTT_threadEntry() and  *)
(* the shared worker                                                       *)

Tick ==
    /\ stage = "running" /\ wake' = TRUE
    /\ UNCHANGED <<mutexes, runtime, console, workerPc, unseen, halfSeen>>

(* The wake-up is re-armed before the pass, not after it.                  *)
WorkerWakes ==
    /\ workerPc = "wait" /\ wake
    /\ wake' = FALSE /\ workerPc' = "lifecycle"
    /\ UNCHANGED <<mutexes, runtime, console, unseen, halfSeen>>

WorkerLocks ==
    /\ workerPc = "lifecycle" /\ lifecycle = Nobody
    /\ IF alive /\ ready /\ stack
       THEN lifecycle' = "worker" /\ workerPc' = "od"
       ELSE workerPc' = "wait" /\ UNCHANGED lifecycle
    /\ UNCHANGED <<binding, od, runtime, console, wake, unseen, halfSeen>>

WorkerTakesOd ==
    /\ workerPc = "od" /\ od = Nobody
    /\ od' = "worker" /\ workerPc' = "pass"
    /\ UNCHANGED <<binding, lifecycle, runtime, console, wake, unseen, halfSeen>>

Pass ==
    /\ workerPc = "pass"
    /\ halfSeen' = (halfSeen \/ HalfWritten)
    /\ unseen' = FALSE
    /\ od' = Nobody /\ lifecycle' = Nobody /\ workerPc' = "wait"
    /\ UNCHANGED <<binding, runtime, console, wake>>

(* SDO, PDO and SYNC processing of co_main and co_rt, under the OD mutex   *)
(* only                                                                    *)
NetworkAccess ==
    /\ stage = "running" /\ stack /\ od = Nobody
    /\ halfSeen' = (halfSeen \/ HalfWritten)
    /\ UNCHANGED <<mutexes, runtime, console, worker>>

-----------------------------------------------------------------------------
(* The application: bring-up, communication reset and the teardown after a *)
(* failure that comes late in bring-up                                     *)

BringUp ==
    /\ stage = "down" /\ lifecycle = Nobody
    /\ stage' = "built" /\ alive' = TRUE /\ ready' = TRUE /\ stack' = TRUE
    /\ UNCHANGED <<published, mutexes, console, worker, halfSeen>>

(* onRuntimeStart(), with CO_401_device_RTT_mshBind() *)
RuntimeStart ==
    /\ stage = "built" /\ binding = Nobody
    /\ stage' = "running" /\ published' = TRUE
    /\ UNCHANGED <<alive, ready, stack, mutexes, console, worker, halfSeen>>

LifeTakes(to) ==
    /\ stage \in {"built", "running"} /\ lifecycle = Nobody
    /\ lifecycle' = "life" /\ stage' = to
    /\ wake' = FALSE /\ unseen' = FALSE
    /\ UNCHANGED <<binding, od, published, alive, ready, stack, console, workerPc, halfSeen>>

Reset    == stage = "running" /\ LifeTakes("reset")
Teardown == LifeTakes("teardown")

(* onStop(), onQuiesced() and the end of the old CO_t *)
Stop ==
    /\ stage \in {"reset", "teardown"} /\ ready /\ od = Nobody
    /\ ready' = FALSE /\ stack' = FALSE
    /\ UNCHANGED <<stage, published, alive, mutexes, console, worker, halfSeen>>

(* A new generation, or none: then only another reset can follow.          *)
Restart ==
    /\ stage = "reset" /\ ~ready
    /\ ready' \in BOOLEAN /\ stack' = ready'
    /\ stage' = "running" /\ lifecycle' = Nobody
    /\ UNCHANGED <<published, alive, binding, od, console, worker, halfSeen>>

StopOrRestart == Stop \/ Restart

(* onRuntimeDeinit(), with CO_401_device_RTT_mshUnbind(); the worker's     *)
(* thread is deleted wherever it waits, and lifecycleMutex is detached.    *)
RuntimeDeinit ==
    /\ stage = "teardown" /\ ~ready /\ published /\ binding = Nobody
    /\ published' = FALSE
    /\ UNCHANGED <<stage, alive, ready, stack, mutexes, console, worker, halfSeen>>

Detach ==
    /\ stage = "teardown" /\ ~ready /\ ~published
    /\ alive' = FALSE /\ stage' = "down" /\ lifecycle' = Nobody
    /\ workerPc' = "wait" /\ wake' = FALSE /\ unseen' = FALSE
    /\ UNCHANGED <<published, ready, stack, binding, od, console, halfSeen>>

Application == BringUp \/ RuntimeStart \/ Reset \/ Teardown \/ StopOrRestart \/ RuntimeDeinit \/ Detach

Worker == WorkerWakes \/ WorkerLocks \/ WorkerTakesOd \/ Pass

Next == Tick \/ Worker \/ NetworkAccess \/ Application \/ \E c \in Consoles : Console(c)

Spec == Init /\ [][Next]_vars
-----------------------------------------------------------------------------
(* A command works on a runtime and a stack that are there, and keeps both *)
(* from being taken away, although it found them through a pointer that a  *)
(* teardown may clear at any time.                                         *)
CommandsArePinned ==
    \A c \in Consoles : pc[c] \in {"od", "work", "request"} =>
        published /\ alive /\ ready /\ stack /\ lifecycle = c

(* Neither the network nor a supervisor pass ever reads a configuration of *)
(* which a command has written only a part, unless the command failed.     *)
CommandsAreWhole == ~halfSeen

(* A command that has returned success still has a pass ahead of it: the   *)
(* wake-up is pending, or the worker is on its way.                        *)
CommandsAreProcessed == unseen => wake \/ workerPc # "wait"

(* Who waits for a mutex that another holds *)
Holder(a) ==
    IF a = "life"
    THEN IF stage \in {"reset", "teardown"}
         THEN IF ready THEN od ELSE IF published THEN binding ELSE Nobody
         ELSE Nobody
    ELSE IF a = "worker"
    THEN IF workerPc = "lifecycle" THEN lifecycle ELSE IF workerPc = "od" THEN od ELSE Nobody
    ELSE IF pc[a] \in {"idle", "again"} THEN binding
    ELSE IF pc[a] = "lifecycle" THEN lifecycle
    ELSE IF pc[a] = "od" THEN od ELSE Nobody

Agents == Consoles \cup {"life", "worker"}

(* The binding mutex, lifecycleMutex and the OD mutex are never waited for *)
(* in a circle (the comment above CO_402_mshLock()).                       *)
NoCircularWait ==
    ~ \E S \in SUBSET Agents : S # {} /\ \A a \in S : Holder(a) \in S \ {a}

ShellIsSafe == CommandsArePinned /\ CommandsAreWhole /\ CommandsAreProcessed /\ NoCircularWait
=============================================================================
