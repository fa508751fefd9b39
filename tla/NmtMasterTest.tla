---------------------------- MODULE NmtMasterTest ----------------------------
(***************************************************************************)
(* CO_demo_nmt_master.c: the node takes another node through a sequence of *)
(* NMT commands and watches it with a heartbeat consumer, for which it     *)
(* borrows an entry of 16#1016.  Meanwhile SDO clients write the entry,    *)
(* commands and heartbeats get lost, either node is commanded by others,   *)
(* and the node itself resets.                                             *)
(*                                                                         *)
(* A pass is CO_process(), which serves the heartbeat consumer, and then   *)
(* CO_demo_nmt_master_process().  The consumer is CANopenNode's.           *)
(***************************************************************************)
EXTENDS Integers, Sequences

CONSTANTS
    Timeout,     \* ...NMT_MASTER_TEST_STATE_TIMEOUT_MS
    MaxGap       \* bound: longest time co_main sleeps

NmtMasterTestAssumption == Timeout \in Nat \ {0} /\ MaxGap \in Nat \ {0}

Command(state, boot) == [state |-> state, boot |-> boot]

(* CO_demo_nmt_master_steps: START, STOP, PREOP, RESET_COMM, RESET_NODE,   *)
(* START, each with the state it ends in and whether a boot-up is required *)
Steps == << Command("operational", FALSE), Command("stopped", FALSE), Command("preop", FALSE),
            Command("preop", TRUE), Command("preop", TRUE), Command("operational", FALSE) >>
Prepare == 0
States  == {"preop", "operational", "stopped"}

VARIABLES
    phase,           \* "local", "online", "preop", "send", "state"
    step,            \* demo->step + 1
    resetObserved,
    elapsed,         \* nowMs - demo->referenceTimeMs
    verdict,         \* "none", "finished", "failed"
    override,        \* demo->hbOverrideActive, demo->hbConfigured
    original,        \* demo->hbConsumerOriginal
    config,          \* the entry of 16#1016: a value of others, or "applied"
    theirs,          \* what the entry holds by the will of others
    denied,          \* a borrowed entry could not be read or given back
    stage,           \* "idle", "demo" in a pass, "quit", "reset", "bind"
    canNormal,
    active, wasActive,  \* the node itself is pre-operational or operational, or it was
    hbState, nmtState,  \* of the heartbeat consumer
    heartbeat,       \* received and not yet processed: a state, "boot" or "none"
    remote,          \* the other node
    frame,           \* NMT command on its way: a step, Prepare or {}
    executed,        \* steps whose command the other node has carried out
    meddled          \* somebody else commanded or restarted one of the nodes

testVars == <<phase, step, resetObserved, elapsed, verdict>>
odVars   == <<override, original, config, theirs, denied>>
hbVars   == <<hbState, nmtState, heartbeat>>
netVars  == <<remote, frame, executed, meddled>>
nodeVars == <<stage, canNormal, active, wasActive>>
vars == <<testVars, odVars, hbVars, netVars, nodeVars>>

(* CO_demo_nmt_master_init() *)
Fresh == /\ phase = "local" /\ step = 1 /\ resetObserved = FALSE /\ elapsed = 0
         /\ verdict = "none"

Init ==
    /\ Fresh
    /\ override = FALSE /\ original = "none"
    /\ config = "mine" /\ theirs = "mine" /\ denied = FALSE
    /\ stage = "bind" /\ canNormal = TRUE /\ active = TRUE /\ wasActive = TRUE
    /\ hbState = "unknown" /\ nmtState = "none" /\ heartbeat = "none"
    /\ remote \in States /\ frame = {} /\ executed = {} /\ meddled = FALSE

-----------------------------------------------------------------------------
(* The other node, the bus and other masters                               *)

Outside == UNCHANGED <<testVars, odVars, nodeVars, hbState, nmtState>>

(* A reset ends with a boot-up message, and in pre-operational or, on its  *)
(* own, operational.                                                       *)
Boots == heartbeat' = "boot" /\ remote' \in {"preop", "operational"}

FrameArrives ==
    /\ verdict = "none"
    /\ frame # {} /\ frame' = {}
    /\ \E number \in frame :
        IF number = Prepare
        THEN remote' = "preop" /\ UNCHANGED <<heartbeat, executed>>
        ELSE /\ executed' = IF meddled THEN {} ELSE executed \cup {number}
             /\ IF Steps[number].boot
                THEN Boots
                ELSE remote' = Steps[number].state /\ UNCHANGED heartbeat
    /\ UNCHANGED meddled /\ Outside

FrameIsLost ==
    /\ verdict = "none"
    /\ frame # {} /\ frame' = {}
    /\ UNCHANGED <<remote, executed, meddled, heartbeat>> /\ Outside

(* An unprocessed heartbeat is overwritten by the next one.                *)
RemoteHeartbeat ==
    /\ verdict = "none"
    /\ heartbeat' = remote
    /\ UNCHANGED netVars /\ Outside

(* Another master commands the other node, or it restarts on its own.      *)
RemoteMeddled ==
    /\ verdict = "none" /\ ~meddled
    /\ Boots \/ (remote' \in States \ {remote} /\ UNCHANGED heartbeat)
    /\ meddled' = TRUE /\ executed' = {}
    /\ UNCHANGED frame /\ Outside

LocalNmt ==
    /\ stage = "idle" /\ verdict = "none"
    /\ active' = ~active
    /\ meddled' = TRUE /\ executed' = {}
    /\ UNCHANGED <<testVars, odVars, hbVars, remote, frame, stage, canNormal, wasActive>>

(* An SDO client writes the entry the test has borrowed.                   *)
ExternalWrite ==
    /\ stage = "idle"
    /\ config # "yours" /\ config' = "yours"
    /\ theirs' = config'
    /\ UNCHANGED <<testVars, override, original, denied, hbVars, netVars, nodeVars>>

-----------------------------------------------------------------------------
(* CO_HBconsumer_process(), called by CO_process().  It forgets what it    *)
(* knew when the node enters or leaves (pre-)operational.                  *)

ServeConsumer ==
    /\ heartbeat' = "none" /\ wasActive' = active
    /\ IF active /\ wasActive
       THEN \/ heartbeat = "boot" /\ hbState' = "unknown" /\ nmtState' = "none"
            \/ heartbeat \in States /\ hbState' = "active" /\ nmtState' = heartbeat
            \/ heartbeat = "none" /\ UNCHANGED <<hbState, nmtState>>
            \/ /\ heartbeat = "none" /\ hbState = "active"
               /\ hbState' = "timeout" /\ nmtState' = "none"
       ELSE \/ active # wasActive /\ hbState' = "unknown" /\ nmtState' = "none"
            \/ active = wasActive /\ UNCHANGED <<hbState, nmtState>>

(* CO_demo_nmt_master_update_timer_next() at the end of the last pass: how *)
(* long co_main may sleep, at most                                         *)
Least(a, b) == IF a < b THEN a ELSE b
TimerNext ==
    IF verdict # "none" \/ phase \in {"local", "online"} THEN MaxGap
    ELSE IF phase = "send" \/ elapsed >= Timeout THEN 0
    ELSE Least(MaxGap, Timeout - elapsed)

CoProcess(gap) ==
    /\ stage = "idle" /\ stage' = "demo"
    /\ gap <= TimerNext
    /\ elapsed' = IF phase \in {"preop", "state"} /\ verdict = "none"
                  THEN elapsed + gap ELSE 0
    /\ canNormal' \in BOOLEAN
    /\ ServeConsumer
    /\ UNCHANGED <<phase, step, resetObserved, verdict, odVars, netVars, active>>

-----------------------------------------------------------------------------
(* CO_demo_nmt_master_restore_hb_consumer(): the entry is given back,      *)
(* unless somebody else has written it or it cannot be accessed.           *)

AlwaysOurs == TRUE
Ours       == config = "applied"

Gone == override' = FALSE /\ original' = "none"

Returned ==
    /\ IF override /\ Ours THEN config' = original ELSE UNCHANGED config
    /\ Gone /\ UNCHANGED <<theirs, denied>>
NotReturned == override /\ denied' = TRUE /\ UNCHANGED <<override, original, config, theirs>>

Restores == Returned \/ NotReturned

(* "complete", "fail" and "cleanup" of CO_demo_nmt_master_process()        *)
End(outcome) ==
    /\ Restores
    /\ verdict' = IF override /\ (override' \/ ~Ours) THEN "failed" ELSE outcome

-----------------------------------------------------------------------------
Pass ==
    /\ stage = "demo" /\ stage' = "idle"
    /\ canNormal' = TRUE
    /\ UNCHANGED <<active, wasActive, hbVars, remote, executed, meddled>>

Goes(to, number) == phase' = to /\ step' = number
Stays  == UNCHANGED <<phase, step, resetObserved, elapsed, verdict, frame, odVars>>
Fails  == End("failed") /\ UNCHANGED <<phase, step, resetObserved, elapsed, frame>>

(* CO_NMT_sendCommand() succeeds; a refused frame fails the test.          *)
Sends(number) == frame' = {number} /\ elapsed' = 0

(* CO_demo_nmt_master_hb_consumer_owned() *)
Owned == override /\ Ours

Running == Pass /\ verdict = "none" /\ canNormal

Suspended == Pass /\ (verdict # "none" \/ ~canNormal) /\ Stays
Disowned  == Running /\ ~Owned /\ Fails

Known == hbState = "active"
At(p) == Running /\ Owned /\ phase = p

WaitLocalOperational ==
    /\ At("local")
    /\ \/ active /\ Goes("online", step) /\ UNCHANGED <<resetObserved, elapsed, verdict, frame, odVars>>
       \/ Stays

(* The other node is brought to a state in which START changes something.  *)
PreparesWith(observed) ==
    /\ Sends(Prepare) /\ Goes("preop", step)
    /\ resetObserved' = observed
    /\ UNCHANGED <<verdict, odVars>>

WaitRemoteOnline ==
    /\ At("online")
    /\ \/ ~Known /\ Stays
       \/ /\ Known /\ nmtState = "preop" /\ Goes("send", step)
          /\ UNCHANGED <<resetObserved, elapsed, verdict, frame, odVars>>
       \/ Known /\ nmtState # "preop" /\ (PreparesWith(FALSE) \/ Fails)

TimedOut == elapsed >= Timeout

BootRequired(number) == Steps[number].boot

Passed ==
    /\ Goes("send", step + 1) /\ resetObserved' = FALSE
    /\ UNCHANGED <<elapsed, verdict, frame, odVars>>

WaitRemotePreop ==
    /\ At("preop")
    /\ \/ TimedOut /\ Fails
       \/ ~TimedOut /\ ~(Known /\ nmtState = "preop") /\ Stays
       \/ /\ ~TimedOut /\ Known /\ nmtState = "preop"
          /\ IF resetObserved /\ step <= Len(Steps) /\ BootRequired(step)
             THEN Passed
             ELSE Goes("send", step) /\ UNCHANGED <<resetObserved, elapsed, verdict, frame, odVars>>

Complete ==
    /\ At("send") /\ step > Len(Steps)
    /\ End("finished")
    /\ UNCHANGED <<phase, step, resetObserved, elapsed, frame>>

SendCommand ==
    /\ At("send") /\ step <= Len(Steps)
    /\ \/ Fails
       \/ /\ Known /\ (BootRequired(step) \/ nmtState # Steps[step].state)
          /\ Sends(step) /\ Goes("state", step) /\ resetObserved' = FALSE
          /\ UNCHANGED <<verdict, odVars>>

ExpectsNothing == FALSE
ExpectsBoot    == BootRequired(step) /\ ~resetObserved

WaitRemoteState ==
    /\ At("state")
    /\ \/ TimedOut /\ Fails
       \/ /\ ~TimedOut /\ ExpectsBoot
          /\ resetObserved' = (hbState = "unknown")
          /\ UNCHANGED <<phase, step, elapsed, verdict, frame, odVars>>
       \/ /\ ~TimedOut /\ ~ExpectsBoot
          /\ \/ Known /\ nmtState = Steps[step].state /\ Passed
             \/ ~Known /\ Stays
             \/ /\ Known /\ nmtState # Steps[step].state
                /\ IF BootRequired(step) THEN PreparesWith(resetObserved) \/ Fails ELSE Stays

Demo ==
    \/ Suspended \/ Disowned \/ WaitLocalOperational \/ WaitRemoteOnline \/ WaitRemotePreop
    \/ Complete \/ SendCommand \/ WaitRemoteState

-----------------------------------------------------------------------------
(* A reset of the node: one more pass, CO_demo_reset() and CO_demo_bind(). *)
(* A behaviour is followed no further when the entry has been lost.        *)

ResetPass ==
    /\ stage = "idle" /\ stage' = "quit"
    /\ Restores
    /\ UNCHANGED <<testVars, hbVars, netVars, canNormal, active, wasActive>>

DemoReset ==
    /\ stage = "quit" /\ stage' = "bind"
    /\ (Returned \/ (override /\ Gone /\ denied' = TRUE /\ UNCHANGED <<config, theirs>>))
    /\ phase' = "local" /\ step' = 1 /\ resetObserved' = FALSE /\ elapsed' = 0
    /\ verdict' = "none"
    /\ frame' = {} /\ executed' = {} /\ meddled' = FALSE
    /\ active' = TRUE /\ wasActive' = TRUE
    /\ hbState' = "unknown" /\ nmtState' = "none" /\ heartbeat' = "none"
    /\ UNCHANGED <<remote, canNormal>>

DemoBind ==
    /\ stage = "bind" /\ stage' = "idle" /\ ~denied
    /\ \/ /\ original' = config /\ config' = "applied" /\ override' = TRUE
          /\ UNCHANGED verdict
       \/ verdict' = "failed" /\ UNCHANGED <<override, original, config>>
    /\ UNCHANGED <<phase, step, resetObserved, elapsed, theirs, denied, hbVars, netVars,
                   canNormal, active, wasActive>>

Next ==
    \/ FrameArrives \/ FrameIsLost \/ RemoteHeartbeat \/ RemoteMeddled
    \/ LocalNmt \/ ExternalWrite
    \/ \E gap \in 0 .. MaxGap : CoProcess(gap)
    \/ Demo
    \/ ResetPass \/ DemoReset \/ DemoBind

(* co_main sleeps no longer than it was told and sometimes as long, and    *)
(* the CAN interface is sometimes usable.                                  *)
OnTime == CoProcess(TimerNext) /\ canNormal'

Spec == Init /\ [][Next]_vars /\ WF_vars(Demo) /\ SF_vars(OnTime)
-----------------------------------------------------------------------------
(* The borrowed entry of 16#1016 holds, once the test is over in whichever *)
(* way, what others last put there, and is not overwritten when they write *)
(* it meanwhile, unless an access to the dictionary was refused.           *)
EntryIsReturned ==
    ~denied => IF override /\ config = "applied" THEN original = theirs ELSE config = theirs

(* The test is passed only by a node that has carried out every command,   *)
(* though commands and heartbeats are lost and stale ones are read, if no  *)
(* one else commands either node.                                          *)
PassIsEarned == verdict = "finished" /\ ~meddled => executed = DOMAIN Steps

(* co_main is not told to sleep through the end of a waiting time.         *)
EndIsNotSlept == elapsed <= Timeout

NmtTestIsSound == EntryIsReturned /\ PassIsEarned /\ EndIsNotSlept

(* A test that has found its partner ends, or the node resets.             *)
TestBegun == phase \in {"preop", "send", "state"}
TestOver  == verdict # "none" \/ stage \in {"quit", "bind"}
TestEnds  == TestBegun ~> TestOver
=============================================================================
