------------------------------- MODULE RxPath -------------------------------
(***************************************************************************)
(* The CAN receive path of CO_driver_rtthread.c: the receive indication    *)
(* (an interrupt), the thread co_rx, and the thread that opens the module, *)
(* brings it to normal mode and disables it (co_main).  A step of a thread *)
(* ends at every access to a field the other threads use.                  *)
(***************************************************************************)
EXTENDS Naturals

CONSTANTS
    RxFirst,   \* co_rx preempts co_main, on one processor (the default)
    Batch,     \* CO_RTT_CAN_RX_BATCH_SIZE
    FifoMax,   \* bound: frames the CAN device queues
    SemMax     \* RT_SEM_VALUE_MAX

RxPathAssumption ==
    /\ RxFirst \in BOOLEAN
    /\ Batch \in Nat \ {0}
    /\ FifoMax \in Nat \ {0}
    /\ SemMax \in Nat \ {0}

VARIABLES
    module,      \* "open": device open, semaphores initialised
    canNormal,   \* CANmodule->CANnormal
    rxThread,    \* CANmodule->rx_thread is not NULL
    rxRunning,   \* CANmodule->rxRunning
    rxStop,      \* CANmodule->rxStop
    bound,       \* the indication of the device finds this module
    rxSem,       \* tokens in rx_sem
    rxExitSem,   \* tokens in rxExitSem
    fifo,        \* frames the device holds
    owed,        \* a frame was indicated since co_rx last lost count of them
    mpc,         \* control point of co_main
    after,       \* where co_rtt_rx_stop() returns to
    rpc,         \* control point of co_rx
    left,        \* frames of rxbuf still to dispatch
    full         \* the last read filled rxbuf

flags  == <<rxThread, rxRunning, rxStop>>
sems   == <<rxSem, rxExitSem>>
device == <<module, canNormal, bound>>
frames == <<fifo, owed>>
mainPc == <<mpc, after>>
rxPc   == <<rpc, left, full>>
vars   == <<flags, sems, device, frames, mainPc, rxPc>>

Unsaturated(n) == n + 1
Inc(n) == IF n < SemMax THEN n + 1 ELSE n

Init ==
    /\ module = "closed" /\ canNormal = FALSE /\ bound = FALSE
    /\ rxThread = FALSE /\ rxRunning = FALSE /\ rxStop = FALSE
    /\ rxSem = 0 /\ rxExitSem = 0
    /\ fifo = 0 /\ owed = FALSE
    /\ mpc = "down" /\ after = "up"
    /\ rpc = "none" /\ left = 0 /\ full = FALSE

(* co_rx is blocked: on rx_sem, in a receive callback or in the rule mutex *)
(* around it, or there is no co_rx.                                        *)
RxBlocked ==
    \/ rpc \in {"none", "dispatch"}
    \/ rpc = "wait" /\ rxSem = 0

MainAt(p) == mpc = p /\ (RxFirst => RxBlocked)
MainTo(p) == mpc' = p /\ UNCHANGED after
RxTo(p)   == rpc' = p /\ UNCHANGED <<left, full>>

-----------------------------------------------------------------------------
(* The interrupt: the device queues a frame, or drops one when it is full, *)
(* and co_rtt_can_rx_indicate() posts rx_sem unless the module is unbound  *)
(* or stopping.                                                            *)
RxIndicate ==
    /\ module = "open"
    /\ fifo' = IF fifo < FifoMax THEN fifo + 1 ELSE fifo
    /\ IF bound /\ ~rxStop
       THEN rxSem' = Inc(rxSem) /\ owed' = TRUE
       ELSE UNCHANGED <<rxSem, owed>>
    /\ UNCHANGED <<flags, rxExitSem, device, mainPc, rxPc>>

-----------------------------------------------------------------------------
(* CO_CANmodule_init() that succeeds; one that fails undoes what it did. *)
CANmoduleInit ==
    /\ MainAt("down")
    /\ module' = "open" /\ canNormal' = FALSE
    /\ rxThread' = FALSE /\ rxRunning' = FALSE /\ rxStop' = FALSE
    /\ rxSem' = 0 /\ rxExitSem' = 0 /\ fifo' = 0 /\ owed' = FALSE
    /\ MainTo("up")
    /\ UNCHANGED <<bound, rxPc>>

(* CO_CANsetNormalMode() up to co_rtt_rx_start(), also at the end of       *)
(* CO_RTT_CANsetBitrate(); setting the mode, the filter or the baud rate   *)
(* may fail.                                                               *)
SetNormalMode ==
    /\ MainAt("up")
    /\ canNormal' = FALSE
    /\ MainTo("rxStart") \/ MainTo("up")
    /\ UNCHANGED <<module, bound, flags, sems, frames, rxPc>>

RxStart ==
    /\ MainAt("rxStart")
    /\ IF rxThread \/ rxRunning
       THEN /\ MainTo("canStart")
            /\ UNCHANGED <<flags, sems, owed>>
       ELSE /\ rxStop' = FALSE /\ rxRunning' = FALSE
            /\ rxSem' = 0 /\ rxExitSem' = 0 /\ owed' = FALSE
            /\ MainTo("rxBind")
            /\ UNCHANGED rxThread
    /\ UNCHANGED <<device, fifo, rxPc>>

RxBind ==
    /\ MainAt("rxBind")
    /\ \/ bound' = TRUE /\ MainTo("rxCreate")
       \/ bound' = FALSE /\ MainTo("up")
    /\ UNCHANGED <<module, canNormal, flags, sems, frames, rxPc>>

(* rt_thread_create(): the pointer is stored before the thread is started. *)
RxCreate ==
    /\ MainAt("rxCreate")
    /\ \/ rxThread' = TRUE /\ MainTo("rxStartup") /\ UNCHANGED bound
       \/ rxThread' = FALSE /\ bound' = FALSE /\ MainTo("up")
    /\ UNCHANGED <<module, canNormal, rxRunning, rxStop, sems, frames, rxPc>>

RxStartup ==
    /\ MainAt("rxStartup")
    /\ \/ RxTo("entry") /\ MainTo("canStart") /\ UNCHANGED <<rxThread, bound>>
       \/ rxThread' = FALSE /\ bound' = FALSE /\ MainTo("up") /\ UNCHANGED rxPc
    /\ UNCHANGED <<module, canNormal, rxRunning, rxStop, sems, frames>>

(* RT_CAN_CMD_START; a failure stops co_rx again. *)
CANstart ==
    /\ MainAt("canStart")
    /\ \/ canNormal' = TRUE /\ MainTo("up")
       \/ mpc' = "stop" /\ after' = "up" /\ UNCHANGED canNormal
    /\ UNCHANGED <<module, bound, flags, sems, frames, rxPc>>

Disable ==
    /\ MainAt("up")
    /\ canNormal' = FALSE
    /\ mpc' = "stop" /\ after' = "detach"
    /\ UNCHANGED <<module, bound, flags, sems, frames, rxPc>>

(* co_rtt_rx_stop() *)
RxStopTell ==
    /\ MainAt("stop")
    /\ rxStop' = TRUE
    /\ MainTo("unbind")
    /\ UNCHANGED <<device, rxThread, rxRunning, sems, frames, rxPc>>

RxUnbind ==
    /\ MainAt("unbind")
    /\ bound' = FALSE
    /\ MainTo("check")
    /\ UNCHANGED <<module, canNormal, flags, sems, frames, rxPc>>

RxStopCheck ==
    /\ MainAt("check")
    /\ MainTo(IF rxThread \/ rxRunning THEN "wake" ELSE after)
    /\ UNCHANGED <<device, flags, sems, frames, rxPc>>

NoWake == rxSem
Wake   == Inc(rxSem)

RxStopWake ==
    /\ MainAt("wake")
    /\ rxSem' = Wake
    /\ MainTo("await")
    /\ UNCHANGED <<device, flags, rxExitSem, frames, rxPc>>

NotAwaited == TRUE
ExitSeen   == rxExitSem > 0

RxStopAwait ==
    /\ MainAt("await") /\ ExitSeen
    /\ rxExitSem' = IF rxExitSem > 0 THEN rxExitSem - 1 ELSE 0
    /\ MainTo(after)
    /\ UNCHANGED <<device, flags, rxSem, frames, rxPc>>

(* The device is closed and the mutexes and semaphores are detached. *)
Detach ==
    /\ MainAt("detach")
    /\ module' = "closed" /\ fifo' = 0
    /\ MainTo("down")
    /\ UNCHANGED <<canNormal, bound, flags, sems, owed, rxPc>>

-----------------------------------------------------------------------------
(* co_rtt_rx_thread_entry() *)

RxEntry ==
    /\ rpc = "entry"
    /\ rxRunning' = TRUE
    /\ RxTo("while")
    /\ UNCHANGED <<device, rxThread, rxStop, sems, frames, mainPc>>

RxWhile ==
    /\ rpc = "while"
    /\ RxTo(IF rxStop THEN "leave" ELSE "wait")
    /\ UNCHANGED <<device, flags, sems, frames, mainPc>>

RxTake ==
    /\ rpc = "wait" /\ rxSem > 0
    /\ rxSem' = rxSem - 1
    /\ RxTo("do")
    /\ UNCHANGED <<device, flags, rxExitSem, frames, mainPc>>

RxDo ==
    /\ rpc = "do"
    /\ RxTo(IF rxStop THEN "while" ELSE "read")
    /\ UNCHANGED <<device, flags, sems, frames, mainPc>>

(* rt_device_read() fills rxbuf, finds nothing, or fails: then the frames  *)
(* stay in the device until a later indication.                            *)
RxRead ==
    /\ rpc = "read"
    /\ \/ /\ fifo > 0
          /\ left' = IF fifo < Batch THEN fifo ELSE Batch
          /\ fifo' = fifo - left'
          /\ full' = (left' = Batch)
          /\ rpc' = "frame"
          /\ UNCHANGED owed
       \/ /\ fifo = 0
          /\ RxTo("while")
          /\ UNCHANGED frames
       \/ /\ RxTo("while")
          /\ owed' = FALSE
          /\ UNCHANGED fifo
    /\ UNCHANGED <<device, flags, sems, mainPc>>

RxFrame ==
    /\ rpc = "frame" /\ left > 0 /\ ~rxStop
    /\ rpc' = "dispatch"
    /\ UNCHANGED <<device, flags, sems, frames, mainPc, left, full>>

RxDispatch ==
    /\ rpc = "dispatch"
    /\ left' = left - 1
    /\ rpc' = "frame"
    /\ UNCHANGED <<device, flags, sems, frames, mainPc, full>>

OnlyOneRead == FALSE
ReadAgain   == full

RxBatchDone ==
    /\ rpc = "frame" /\ (left = 0 \/ rxStop)
    /\ rpc' = IF ReadAgain /\ ~rxStop THEN "do" ELSE "while"
    /\ left' = 0 /\ full' = FALSE
    /\ UNCHANGED <<device, flags, sems, frames, mainPc>>

RxLeave ==
    /\ rpc = "leave"
    /\ rxRunning' = FALSE
    /\ RxTo("forget")
    /\ UNCHANGED <<device, rxThread, rxStop, sems, frames, mainPc>>

RxForget ==
    /\ rpc = "forget"
    /\ rxThread' = FALSE
    /\ RxTo("exit")
    /\ UNCHANGED <<device, rxRunning, rxStop, sems, frames, mainPc>>

RxExit ==
    /\ rpc = "exit"
    /\ rxExitSem' = Inc(rxExitSem)
    /\ RxTo("none")
    /\ UNCHANGED <<device, flags, rxSem, frames, mainPc>>

-----------------------------------------------------------------------------
StopSteps == RxStopTell \/ RxUnbind \/ RxStopCheck \/ RxStopWake
             \/ RxStopAwait \/ Detach

MainSteps == CANmoduleInit \/ SetNormalMode \/ RxStart \/ RxBind \/ RxCreate
             \/ RxStartup \/ CANstart \/ Disable \/ StopSteps

RxSteps == RxEntry \/ RxWhile \/ RxTake \/ RxDo \/ RxRead \/ RxFrame
           \/ RxDispatch \/ RxBatchDone \/ RxLeave \/ RxForget \/ RxExit

Next == RxIndicate \/ MainSteps \/ RxSteps

Spec == Init /\ [][Next]_vars

(* co_rx runs whenever it can.  A frame takes longer on the bus than in    *)
(* co_rx, so the less urgent co_main gets its turns although frames keep   *)
(* preempting it.                                                          *)
FairSpec == Spec /\ []<>RxBlocked /\ WF_vars(RxSteps) /\ SF_vars(StopSteps)

-----------------------------------------------------------------------------
(* Properties *)

TypeOK ==
    /\ module \in {"open", "closed"}
    /\ canNormal \in BOOLEAN /\ bound \in BOOLEAN
    /\ rxThread \in BOOLEAN /\ rxRunning \in BOOLEAN /\ rxStop \in BOOLEAN
    /\ rxSem \in 0..SemMax /\ rxExitSem \in 0..SemMax
    /\ fifo \in 0..FifoMax /\ owed \in BOOLEAN
    /\ mpc \in {"down", "up", "rxStart", "rxBind", "rxCreate", "rxStartup",
                "canStart", "stop", "unbind", "check", "wake", "await", "detach"}
    /\ after \in {"up", "detach"}
    /\ rpc \in {"none", "entry", "while", "wait", "do", "read", "frame",
                "dispatch", "leave", "forget", "exit"}
    /\ left \in 0..Batch /\ full \in BOOLEAN

(* While co_rx has code left to run, which ends with the release of        *)
(* rxExitSem, the module's semaphores exist: CO_CANmodule_disable()        *)
(* detaches them only after it has seen that release.                      *)
DetachAfterExit ==
    rpc # "none" => module = "open"

(* An indicated frame is never left in the device with co_rx asleep and no *)
(* token to wake it, although co_rx reads several frames per token and     *)
(* tokens saturate, unless the device refused the read.                    *)
NoStrandedFrame ==
    owed /\ bound /\ ~rxStop /\ fifo > 0 =>
        \/ rxSem > 0
        \/ rpc \in {"do", "read"}
        \/ rpc \in {"frame", "dispatch"} /\ full

(* co_rx neither loses a frame while it serves the device nor outlives the *)
(* semaphores it waits on.                                                 *)
RxPathIsSafe == TypeOK /\ DetachAfterExit /\ NoStrandedFrame

(* co_rtt_rx_stop() returns, whatever co_rx is doing when it is called. *)
StopCalled   == mpc = "stop"
StopReturned == mpc \in {"up", "down"}
StopReturns  == StopCalled ~> StopReturned

(* The receive path keeps the promise CommunicationReset relies on. *)
Drain == INSTANCE RxDrain WITH
    rx   <- IF rpc = "none" THEN "off"
            ELSE IF rpc \in {"frame", "dispatch"} THEN "busy" ELSE "idle",
    told <- rxStop

DrainSpec == Drain!Spec

=============================================================================
