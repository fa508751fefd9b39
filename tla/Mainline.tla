------------------------------ MODULE Mainline ------------------------------
(***************************************************************************)
(* The event-driven main loop: how co_main (CO_app_RTT.c) measures the     *)
(* time it charges to CANopenNode, merges the deadlines of its passes and  *)
(* sleeps until the earliest one or a wake-up (CO_mainline_RTT.c), on      *)
(* either time base of CO_time_RTT.c: RT-Thread ticks, or a 1 MHz timer    *)
(* that is started with the longest duration and so wraps one count early. *)
(* Time passes in units; MaxCount stands for UINT32_MAX.                   *)
(***************************************************************************)
EXTENDS Integers

CONSTANTS
    MaxCount,       \* UINT32_MAX
    TickLength,     \* 1000000 / RT_TICK_PER_SECOND
    MaxWait,        \* CO_RTT_MAINLINE_MAX_WAIT_US
    CompatPoll,     \* CO_RTT_MAINLINE_COMPAT_POLL_US
    MaxBusy,        \* bound: time between two steps of co_main
    TimeInterval,   \* TIME->producerInterval_ms
    Natives,        \* timerNext values CO_process() may answer
    LssDelays       \* lssBitrateDeadlineMs less the time of the pass

MainlineAssumption ==
    /\ MaxCount \in Nat /\ TickLength \in Nat \ {0}
    /\ (MaxCount + 1) % TickLength = 0
    /\ MaxWait \in Nat /\ MaxBusy \in Nat /\ CompatPoll \in Nat
    /\ MaxWait + 3 * MaxBusy < MaxCount     \* a pass comes well within one wrap
    /\ TickLength + 3 * MaxBusy < MaxCount
    /\ TimeInterval \in Nat \ {0}
    /\ Natives \subseteq 0 .. MaxCount /\ LssDelays \subseteq Int

VARIABLES
    highRes,    \* PKG_CANOPENNODE_USING_HIGH_RES_TIME
    count,      \* the counter: of the timer, or of units since the system started
    phase,      \* units since the last RT-Thread tick
    at,         \* where co_main is: wait, asleep, process, finish
    event,      \* mainline.wakeEvent
    base,       \* deadline_base_us, and time_old_us after the clock was read
    next,       \* timer_next_us
    sinceSent,  \* TIME->producerTimer_ms and residual_us
    left,       \* ticks until rt_event_recv() times out
    gap,        \* history: units since the clock was last read
    busy,       \* history: units co_main has been busy in this step
    lag,        \* history: time that passed less time charged to CANopenNode
    due,        \* history: the earliest deadline of the last pass
    owed,       \* history: a wake-up came after the last pass began
    renewed     \* history: the stack is new and has had no pass

vars == <<highRes, count, phase, at, event, base, next, sinceSent, left,
          gap, busy, lag, due, owed, renewed>>
history == <<gap, busy, lag, due, owed, renewed>>

-----------------------------------------------------------------------------
(* CO_time_RTT.c *)
Period == IF highRes THEN MaxCount ELSE MaxCount + 1
NowUs == IF highRes THEN count ELSE count - phase       \* CO_RTT_timeNowUs()
ModularElapsed(now, previous) == (now - previous) % (MaxCount + 1)
ElapsedUs(now, previous) ==                             \* CO_RTT_timeElapsedUs()
    IF highRes /\ now < previous THEN (MaxCount - previous) + now
    ELSE (now - previous) % (MaxCount + 1)

(* CO_RTT_timeInit(): the timer is the device's own and its ticks come at  *)
(* any point of its count; without one the clock is the tick count itself. *)
TimeInit ==
    /\ highRes \in BOOLEAN
    /\ count \in 0 .. Period - 1
    /\ IF highRes THEN phase \in 0 .. TickLength - 1 ELSE phase = count % TickLength

Init ==
    /\ TimeInit
    /\ at = "wait" /\ event = FALSE
    /\ base = NowUs /\ next = 0
    /\ sinceSent = 0 /\ left = 0
    /\ gap = 0 /\ busy = 0 /\ due = 0 /\ owed = FALSE /\ renewed = TRUE
    /\ lag = IF highRes THEN 0 ELSE phase

-----------------------------------------------------------------------------
(* CO_RTT_mainlineUpdateDeadline(): what else must be served in time, as   *)
(* delays from the start of this pass.  sent is TIME's timer after         *)
(* CO_TIME_process(); lss is the time to an LSS bitrate deadline, MaxCount if  *)
(* none runs; automatic storage and other legacy features poll.            *)
TimeCandidate(sent) == IF sent >= TimeInterval THEN 0 ELSE TimeInterval - sent
LssCandidate(lss) == IF lss <= 0 THEN 0 ELSE lss
Candidates(native, sent, lss, polled) ==
    {native, TimeCandidate(sent), LssCandidate(lss)} \cup (IF polled THEN {CompatPoll} ELSE {})
Earliest(delays) == CHOOSE d \in delays : \A e \in delays : d <= e

(* CO_RTT_mainlineWait(): rounded down to whole ticks, and not at all when *)
(* less than a tick remains.                                               *)
Bounded(delay) == IF delay > MaxWait THEN MaxWait ELSE delay
RoundedUp(delay) == (delay + TickLength - 1) \div TickLength
UsToTicks(delay) == delay \div TickLength
Remaining == Bounded(next) - ElapsedUs(NowUs, base)
MustProcess == next = 0 \/ Remaining <= 0 \/ UsToTicks(Remaining) <= 0

Sleep ==
    /\ at = "wait"
    /\ IF MustProcess THEN at' = "process" /\ UNCHANGED <<event, left>>
       ELSE IF event THEN at' = "process" /\ event' = FALSE /\ UNCHANGED left
       ELSE at' = "asleep" /\ left' = UsToTicks(Remaining) /\ UNCHANGED event
    /\ busy' = 0
    /\ UNCHANGED <<highRes, count, phase, base, next, sinceSent, gap, lag, due, owed, renewed>>

Awake ==
    /\ at = "asleep" /\ (event \/ left = 0)
    /\ event' = FALSE
    /\ at' = "process" /\ busy' = 0
    /\ UNCHANGED <<highRes, count, phase, base, next, sinceSent, left, gap, lag, due, owed, renewed>>

(* One pass up to the merged deadline; the clock is read at its start.     *)
(* TIME counts the time it is charged, and starts again when it has sent.  *)
Pass(native, lss, polled) ==
    LET charged == ElapsedUs(NowUs, base)
        sent == IF sinceSent >= TimeInterval THEN charged ELSE sinceSent + charged IN
    /\ at = "process"
    /\ at' = "finish" /\ busy' = 0
    /\ base' = NowUs
    /\ sinceSent' = IF sent >= TimeInterval THEN 0 ELSE sent
    /\ next' = Earliest(Candidates(native, sinceSent', lss, polled))
    /\ lag' = lag + gap - charged
    /\ gap' = 0
    /\ due' = next'
    /\ owed' = FALSE /\ renewed' = FALSE
    /\ UNCHANGED <<highRes, count, phase, event, left>>

NextPass ==
    /\ at = "finish" /\ at' = "wait"
    /\ busy' = 0
    /\ UNCHANGED <<highRes, count, phase, event, base, next, sinceSent, left, gap, lag, due, owed, renewed>>

(* CO_RESET_COMM: recreate_stack() drops the old stack's wake-ups; the     *)
(* clock is read anew and the new stack gets its first pass at once.       *)
AsBefore == next
AtOnce == 0
CommunicationReset ==
    /\ at = "finish" /\ at' = "wait"
    /\ event' = FALSE
    /\ base' = NowUs /\ next' = AtOnce
    /\ sinceSent' = 0
    /\ gap' = 0 /\ busy' = 0 /\ due' = 0 /\ renewed' = TRUE
    /\ lag' = IF highRes THEN 0 ELSE phase
    /\ UNCHANGED <<highRes, count, phase, left, owed>>

(* CO_RTT_mainlineWakeup(), from a callback of the receive path or co_rt.  *)
Wakeup ==
    /\ event' = TRUE /\ owed' = TRUE
    /\ UNCHANGED <<highRes, count, phase, at, base, next, sinceSent, left, gap, busy, lag, due, renewed>>

(* One unit passes; co_main is busy for at most MaxBusy units in a step,   *)
(* and runs as soon as its sleep ends.                                     *)
Elapse ==
    /\ at # "asleep" => busy < MaxBusy
    /\ at = "asleep" => left > 0 /\ ~event
    /\ count' = (count + 1) % Period
    /\ phase' = (phase + 1) % TickLength
    /\ left' = IF at = "asleep" /\ phase' = 0 THEN left - 1 ELSE left
    /\ busy' = IF at = "asleep" THEN busy ELSE busy + 1
    /\ gap' = gap + 1
    /\ UNCHANGED <<highRes, at, event, base, next, sinceSent, lag, due, owed, renewed>>

Next ==
    \/ Sleep \/ Awake \/ NextPass \/ CommunicationReset \/ Wakeup \/ Elapse
    \/ \E native \in Natives, lss \in LssDelays, polled \in BOOLEAN : Pass(native, lss, polled)

Spec == Init /\ [][Next]_vars
-----------------------------------------------------------------------------
TypeOK ==
    /\ highRes \in BOOLEAN
    /\ count \in 0 .. Period - 1 /\ base \in 0 .. Period - 1
    /\ phase \in 0 .. TickLength - 1
    /\ at \in {"wait", "asleep", "process", "finish"}
    /\ event \in BOOLEAN /\ owed \in BOOLEAN /\ renewed \in BOOLEAN
    /\ {next, due} \subseteq 0 .. MaxCount
    /\ sinceSent \in 0 .. TimeInterval - 1
    /\ left \in Nat /\ gap \in Nat /\ busy \in 0 .. MaxBusy

(* No unit of time is charged twice or lost, across wraps of either        *)
(* counter and communication resets: what has passed since the last        *)
(* reading is what CO_RTT_timeElapsedUs() would answer, less at most the   *)
(* part of a tick the tick clock cannot show.                              *)
TimeIsConserved == lag + gap - ElapsedUs(NowUs, base) = IF highRes THEN 0 ELSE phase

(* co_main never sleeps beyond a deadline of its last pass ("never sleeps  *)
(* beyond the CANopenNode timerNext deadline", CO_mainline_RTT.c), nor at  *)
(* all before the first pass of a new stack has stated its deadlines.      *)
NeverOversleeps ==
    at = "asleep" => ~renewed /\ left * TickLength - phase <= due - gap

(* A wake-up that came after the last pass began is never forgotten in a   *)
(* sleep, although the event is cleared by every wait and by a reset.      *)
NoLostWakeup == at = "asleep" /\ owed => event

MainlineIsSafe == TypeOK /\ TimeIsConserved /\ NeverOversleeps /\ NoLostWakeup
=============================================================================
