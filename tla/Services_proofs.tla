-------------------------- MODULE Services_proofs ---------------------------
(***************************************************************************)
(* Proofs about the receive path, the EEPROM storage and the test          *)
(* services, for every value of the constants.  Each has a section of its  *)
(* own: its inductive invariant, the lemmas about its steps, and what      *)
(* follows.                                                                *)
(***************************************************************************)
EXTENDS Services, Sequences, TLAPS

(* A behaviour starts in an initial state of every component. *)
LEMMA Starts ==
    Init => Rx!Init /\ Layout!Init /\ Eeprom!Init /\ Nmt!Init /\ Sdo!Init
            /\ Store!Init /\ Emcy!Init /\ Safety!Init /\ Block!Init
BY DEF Init

(* Every step is a step of each component or leaves it alone. *)
LEMMA Steps ==
    [Next]_vars =>
        /\ [Rx!Next]_(Rx!vars)
        /\ [Layout!Next]_(Layout!vars)
        /\ [Eeprom!Next]_(Eeprom!vars)
        /\ [Nmt!Next]_(Nmt!vars)
        /\ [Sdo!Next]_(Sdo!vars)
        /\ [Store!Next]_(Store!vars)
        /\ [Emcy!Next]_(Emcy!vars)
        /\ [Safety!Next]_(Safety!vars)
        /\ [Block!Next]_(Block!vars)
<1> SUFFICES ASSUME [Next]_vars
             PROVE  /\ [Rx!Next]_(Rx!vars)
                    /\ [Layout!Next]_(Layout!vars)
                    /\ [Eeprom!Next]_(Eeprom!vars)
                    /\ [Nmt!Next]_(Nmt!vars)
                    /\ [Sdo!Next]_(Sdo!vars)
                    /\ [Store!Next]_(Store!vars)
                    /\ [Emcy!Next]_(Emcy!vars)
                    /\ [Safety!Next]_(Safety!vars)
                    /\ [Block!Next]_(Block!vars)
  OBVIOUS
<1>1. UNCHANGED rxVars => UNCHANGED Rx!vars
  BY DEF rxVars, Rx!vars, Rx!flags, Rx!sems, Rx!device, Rx!frames, Rx!mainPc, Rx!rxPc
<1>2. UNCHANGED layoutVars => UNCHANGED Layout!vars
  BY DEF layoutVars, Layout!vars, Layout!configVars, Layout!areaVars
<1>3. UNCHANGED eepromVars => UNCHANGED Eeprom!vars
  BY DEF eepromVars, Eeprom!vars, Eeprom!entryVars
<1>4. UNCHANGED nmtVars => UNCHANGED Nmt!vars
  BY DEF nmtVars, Nmt!vars, Nmt!testVars, Nmt!odVars, Nmt!hbVars, Nmt!netVars, Nmt!nodeVars
<1>5. UNCHANGED sdoVars => UNCHANGED Sdo!vars
  BY DEF sdoVars, Sdo!vars, Sdo!requestVars, Sdo!seqVars, Sdo!moveVars, Sdo!seenVars
<1>6. UNCHANGED storageVars => UNCHANGED Store!vars
  BY DEF storageVars, Store!vars, Store!deviceVars, Store!backupVars, Store!requestVars
<1>7. UNCHANGED emcyVars => UNCHANGED Emcy!vars
  BY DEF emcyVars, Emcy!vars
<1>8. UNCHANGED safetyVars => UNCHANGED Safety!vars
  BY DEF safetyVars, Safety!vars
<1>9. UNCHANGED blockVars => UNCHANGED Block!vars
  BY DEF blockVars, Block!vars, Block!bufferVars, Block!streamVars
<1>10. CASE UNCHANGED vars
  BY <1>1, <1>2, <1>3, <1>4, <1>5, <1>6, <1>7, <1>8, <1>9, <1>10 DEF vars
<1>11. CASE Next
  BY <1>1, <1>2, <1>3, <1>4, <1>5, <1>6, <1>7, <1>8, <1>9, <1>11 DEF Next, In
<1> QED
  BY <1>10, <1>11

-----------------------------------------------------------------------------
(***************************************************************************)
(* Proofs about RxPath: with a co_rx that preempts co_main, for any batch  *)
(* size, device queue and semaphore range, the module is never detached    *)
(* under co_rx, no indicated frame is left behind, and the receive path    *)
(* implements RxDrain.  The slower co_rx refutes the first of these, in a  *)
(* run of its own.                                                         *)
(***************************************************************************)

Preempting == Rx!RxPathAssumption /\ TRUE

Starting == {"rxBind", "rxCreate", "rxStartup"}
Stopping == {"unbind", "check", "wake", "await"}
Serving  == {"while", "wait", "do", "read", "frame", "dispatch"}

(* What the fields of the module say of co_rx.                             *)
ThreadInv ==
    /\ rpc = "none" => ~rxRunning /\ (rxThread <=> mpc = "rxStartup")
    /\ rpc = "entry" => rxThread /\ ~rxRunning
    /\ rpc \in Serving => rxThread /\ rxRunning
    /\ rpc = "exit" => ~rxThread /\ ~rxRunning
    /\ rpc = "forget" => ~rxRunning
    /\ rpc = "dispatch" => left > 0

(* co_main starts co_rx from nothing, and is past nothing of the stop      *)
(* before co_rx is gone.                                                   *)
RxPhaseInv ==
    /\ mpc \in Starting \cup {"down", "detach"} => rpc = "none"
    /\ mpc \in Starting => ~rxStop /\ rxExitSem = 0
    /\ rxExitSem > 0 => rpc = "none"
    /\ module = "closed" <=> mpc = "down"

(* co_rx leaves only while co_main waits for it to.                        *)
LeaveInv ==
    /\ rxStop /\ rpc # "none" => mpc \in Stopping
    /\ rpc \in {"leave", "forget", "exit"} => rxStop

(* The interrupt finds the module only while co_rx can be woken.           *)
BoundInv ==
    /\ bound /\ rpc = "none" => mpc \in {"rxCreate", "rxStartup", "unbind"}
    /\ mpc \in {"check", "wake", "await", "detach"} => ~bound
    /\ mpc = "rxBind" => ~rxOwed

RxInv == Preempting /\ Rx!TypeOK /\ ThreadInv /\ RxPhaseInv /\ LeaveInv /\ BoundInv /\
    Rx!NoStrandedFrame

-----------------------------------------------------------------------------
(* co_main runs only when co_rx is blocked.                                *)
LEMMA MainAlone ==
    ASSUME RxInv, NEW p, Rx!MainAt(p)
    PROVE  mpc = p /\ (rpc \in {"none", "dispatch"} \/ (rpc = "wait" /\ rxSem = 0))
BY DEF RxInv, Preempting, Rx!MainAt, Rx!RxBlocked

(* A counting semaphore stays in its range.                                *)
LEMMA IncInRange ==
    ASSUME Preempting, NEW n \in 0..SemMax
    PROVE  Rx!Inc(n) \in 0..SemMax /\ Rx!Inc(n) > 0
BY DEF Preempting, Rx!RxPathAssumption, Rx!Inc

(* The interrupt keeps the invariant.                                      *)
LEMMA IndicateStep == RxInv /\ Rx!RxIndicate => RxInv'
<1> SUFFICES ASSUME RxInv, Rx!RxIndicate PROVE RxInv'
  OBVIOUS
<1> USE DEF RxInv, Rx!RxIndicate, Rx!flags, Rx!device, Rx!mainPc, Rx!rxPc
<1>1. Preempting' /\ ThreadInv' /\ RxPhaseInv' /\ LeaveInv'
  BY DEF Preempting, Rx!RxPathAssumption, ThreadInv, RxPhaseInv, LeaveInv
<1>2. rxSem' \in 0..SemMax /\ (rxSem > 0 => rxSem' > 0) /\ (bound /\ ~rxStop => rxSem' > 0)
  BY IncInRange DEF Rx!TypeOK
<1>3. fifo' \in 0..FifoMax /\ rxOwed' \in BOOLEAN
  <2>1. FifoMax \in Nat /\ fifo \in 0..FifoMax /\ rxOwed \in BOOLEAN
    BY DEF Rx!TypeOK, Preempting, Rx!RxPathAssumption
  <2>2. rxOwed' \in BOOLEAN
    BY <2>1
  <2>3. fifo' = IF fifo < FifoMax THEN fifo + 1 ELSE fifo
    OBVIOUS
  <2> QED
    BY <2>1, <2>2, <2>3
<1>4. Rx!TypeOK'
  BY <1>2, <1>3 DEF Rx!TypeOK
<1>5. Rx!NoStrandedFrame'
  BY <1>2 DEF Rx!NoStrandedFrame
<1>6. BoundInv'
  BY DEF BoundInv, RxPhaseInv, Starting
<1> QED
  BY <1>1, <1>4, <1>5, <1>6

(* So does every step of co_main.                                          *)
LEMMA MainStep == RxInv /\ Rx!MainSteps => RxInv'
<1> SUFFICES ASSUME RxInv, Rx!MainSteps PROVE RxInv'
  OBVIOUS
<1>0. Preempting'
  BY DEF RxInv, Preempting, Rx!RxPathAssumption
<1>1. Rx!TypeOK'
  <2>1. \A n \in 0..SemMax : Rx!Inc(n) \in 0..SemMax
    BY IncInRange DEF RxInv
  <2>2. SemMax \in Nat /\ FifoMax \in Nat
    BY DEF RxInv, Preempting, Rx!RxPathAssumption
  <2>0. 0 \in 0..SemMax /\ 0 \in 0..FifoMax
    BY <2>2
  <2> DEFINE
        Points == {"down", "up", "rxStart", "rxBind", "rxCreate", "rxStartup", "canStart",
                   "stop", "unbind", "check", "wake", "await", "detach"}
        Here == mpc \in Points /\ after \in {"up", "detach"}
        Flags == /\ module \in {"open", "closed"}
                 /\ rxCanNormal \in BOOLEAN /\ bound \in BOOLEAN
                 /\ rxThread \in BOOLEAN /\ rxRunning \in BOOLEAN /\ rxStop \in BOOLEAN
                 /\ rxOwed \in BOOLEAN /\ full \in BOOLEAN
                 /\ rpc \in {"none", "entry", "while", "wait", "do", "read", "frame",
                             "dispatch", "leave", "forget", "exit"}
        Counts == /\ rxSem \in 0..SemMax /\ rxExitSem \in 0..SemMax
                  /\ fifo \in 0..FifoMax /\ left \in 0..Batch
  <2>3. Here /\ Flags /\ Counts
    BY DEF RxInv, Rx!TypeOK
  <2> SUFFICES Here' /\ Flags' /\ Counts'
    BY DEF Rx!TypeOK
  <2> USE DEF Rx!MainTo, Rx!RxTo, Rx!flags, Rx!sems, Rx!device, Rx!frames, Rx!mainPc, Rx!rxPc
  <2>4. CASE Rx!CANmoduleInit
    <3>1. Here'
      BY <2>3, <2>4 DEF Rx!CANmoduleInit
    <3>2. Flags'
      BY <2>3, <2>4 DEF Rx!CANmoduleInit
    <3>3. Counts'
      BY <2>0, <2>3, <2>4 DEF Rx!CANmoduleInit
    <3> QED
      BY <3>1, <3>2, <3>3, Zenon
  <2>5. CASE Rx!SetNormalMode
    <3>1. Here'
      BY <2>3, <2>5 DEF Rx!SetNormalMode
    <3>2. Flags'
      BY <2>3, <2>5 DEF Rx!SetNormalMode
    <3>3. Counts'
      BY <2>0, <2>3, <2>5 DEF Rx!SetNormalMode
    <3> QED
      BY <3>1, <3>2, <3>3, Zenon
  <2>6. CASE Rx!RxStart
    <3>1. Here'
      BY <2>3, <2>6 DEF Rx!RxStart
    <3>2. Flags'
      <4>1. CASE rxThread \/ rxRunning
        BY <2>3, <2>6, <4>1 DEF Rx!RxStart
      <4>2. CASE ~(rxThread \/ rxRunning)
        BY <2>3, <2>6, <4>2 DEF Rx!RxStart
      <4> QED
        BY <4>1, <4>2
    <3>3. Counts'
      BY <2>0, <2>3, <2>6 DEF Rx!RxStart
    <3> QED
      BY <3>1, <3>2, <3>3, Zenon
  <2>7. CASE Rx!RxBind
    <3>1. Here'
      BY <2>3, <2>7 DEF Rx!RxBind
    <3>2. Flags'
      <4>1. bound' \in BOOLEAN
        BY <2>7 DEF Rx!RxBind
      <4> QED
        BY <2>3, <2>7, <4>1 DEF Rx!RxBind
    <3>3. Counts'
      BY <2>0, <2>3, <2>7 DEF Rx!RxBind
    <3> QED
      BY <3>1, <3>2, <3>3, Zenon
  <2>8. CASE Rx!RxCreate
    <3>1. Here'
      BY <2>3, <2>8 DEF Rx!RxCreate
    <3>2. Flags'
      BY <2>3, <2>8 DEF Rx!RxCreate
    <3>3. Counts'
      BY <2>0, <2>3, <2>8 DEF Rx!RxCreate
    <3> QED
      BY <3>1, <3>2, <3>3, Zenon
  <2>9. CASE Rx!RxStartup
    <3>1. Here'
      BY <2>3, <2>9 DEF Rx!RxStartup
    <3>2. Flags'
      BY <2>3, <2>9 DEF Rx!RxStartup
    <3>3. Counts'
      BY <2>0, <2>3, <2>9 DEF Rx!RxStartup
    <3> QED
      BY <3>1, <3>2, <3>3, Zenon
  <2>10. CASE Rx!CANstart
    <3>1. Here'
      BY <2>3, <2>10 DEF Rx!CANstart
    <3>2. Flags'
      <4>1. rxCanNormal' \in BOOLEAN
        BY <2>3, <2>10 DEF Rx!CANstart
      <4> QED
        BY <2>3, <2>10, <4>1 DEF Rx!CANstart
    <3>3. Counts'
      BY <2>0, <2>3, <2>10 DEF Rx!CANstart
    <3> QED
      BY <3>1, <3>2, <3>3, Zenon
  <2>11. CASE Rx!Disable
    <3>1. Here'
      BY <2>3, <2>11 DEF Rx!Disable
    <3>2. Flags'
      BY <2>3, <2>11 DEF Rx!Disable
    <3>3. Counts'
      BY <2>0, <2>3, <2>11 DEF Rx!Disable
    <3> QED
      BY <3>1, <3>2, <3>3, Zenon
  <2>12. CASE Rx!RxStopTell
    <3>1. Here'
      BY <2>3, <2>12 DEF Rx!RxStopTell
    <3>2. Flags'
      BY <2>3, <2>12 DEF Rx!RxStopTell
    <3>3. Counts'
      BY <2>0, <2>3, <2>12 DEF Rx!RxStopTell
    <3> QED
      BY <3>1, <3>2, <3>3, Zenon
  <2>13. CASE Rx!RxUnbind
    <3>1. Here'
      BY <2>3, <2>13 DEF Rx!RxUnbind
    <3>2. Flags'
      BY <2>3, <2>13 DEF Rx!RxUnbind
    <3>3. Counts'
      BY <2>0, <2>3, <2>13 DEF Rx!RxUnbind
    <3> QED
      BY <3>1, <3>2, <3>3, Zenon
  <2>14. CASE Rx!RxStopCheck
    <3>1. Here'
      BY <2>3, <2>14 DEF Rx!RxStopCheck
    <3>2. Flags'
      BY <2>3, <2>14 DEF Rx!RxStopCheck
    <3>3. Counts'
      BY <2>0, <2>3, <2>14 DEF Rx!RxStopCheck
    <3> QED
      BY <3>1, <3>2, <3>3, Zenon
  <2>15. CASE Rx!RxStopWake
    <3>1. Here'
      BY <2>3, <2>15 DEF Rx!RxStopWake, Rx!Wake
    <3>2. Flags'
      BY <2>3, <2>15 DEF Rx!RxStopWake, Rx!Wake
    <3>3. Counts'
      BY <2>1, <2>3, <2>15 DEF Rx!RxStopWake, Rx!Wake
    <3> QED
      BY <3>1, <3>2, <3>3, Zenon
  <2>16. CASE Rx!RxStopAwait
    <3>1. Here'
      BY <2>3, <2>16 DEF Rx!RxStopAwait
    <3>2. Flags'
      BY <2>3, <2>16 DEF Rx!RxStopAwait
    <3>3. Counts'
      BY <2>2, <2>3, <2>16 DEF Rx!RxStopAwait
    <3> QED
      BY <3>1, <3>2, <3>3, Zenon
  <2>17. CASE Rx!Detach
    <3>1. Here'
      BY <2>3, <2>17 DEF Rx!Detach
    <3>2. Flags'
      BY <2>3, <2>17 DEF Rx!Detach
    <3>3. Counts'
      BY <2>0, <2>3, <2>17 DEF Rx!Detach
    <3> QED
      BY <3>1, <3>2, <3>3, Zenon
  <2> QED
    BY <2>4, <2>5, <2>6, <2>7, <2>8, <2>9, <2>10, <2>11, <2>12, <2>13, <2>14, <2>15, <2>16, <2>17
    DEF Rx!MainSteps, Rx!StopSteps
<1> DEFINE Phases == ThreadInv /\ RxPhaseInv /\ LeaveInv /\ BoundInv /\ Rx!NoStrandedFrame
<1> SUFFICES Phases'
  BY <1>0, <1>1 DEF RxInv
<1> USE DEF RxInv, Rx!TypeOK, ThreadInv, RxPhaseInv, LeaveInv, BoundInv, Rx!NoStrandedFrame,
            Starting, Stopping, Serving, Rx!MainTo, Rx!RxTo, Rx!flags, Rx!sems, Rx!device,
                Rx!frames, Rx!mainPc, Rx!rxPc
<1>2. CASE Rx!CANmoduleInit
  BY <1>2, MainAlone DEF Rx!CANmoduleInit
<1>3. CASE Rx!SetNormalMode
  BY <1>3, MainAlone DEF Rx!SetNormalMode
<1>4. CASE Rx!RxStart
  BY <1>4, MainAlone DEF Rx!RxStart
<1>5. CASE Rx!RxBind
  BY <1>5, MainAlone DEF Rx!RxBind
<1>6. CASE Rx!RxCreate
  BY <1>6, MainAlone DEF Rx!RxCreate
<1>7. CASE Rx!RxStartup
  BY <1>7, MainAlone DEF Rx!RxStartup
<1>8. CASE Rx!CANstart
  BY <1>8, MainAlone DEF Rx!CANstart
<1>9. CASE Rx!Disable
  BY <1>9, MainAlone DEF Rx!Disable
<1>10. CASE Rx!RxStopTell
  BY <1>10, MainAlone DEF Rx!RxStopTell
<1>11. CASE Rx!RxUnbind
  BY <1>11, MainAlone DEF Rx!RxUnbind
<1>12. CASE Rx!RxStopCheck
  BY <1>12, MainAlone DEF Rx!RxStopCheck
<1>13. CASE Rx!RxStopWake
  <2>1. rxSem' > 0
    BY <1>13, IncInRange DEF Rx!RxStopWake, Rx!Wake
  <2> QED
    BY <1>13, <2>1, MainAlone DEF Rx!RxStopWake
<1>14. CASE Rx!RxStopAwait
  BY <1>14, MainAlone DEF Rx!RxStopAwait, Rx!ExitSeen
<1>15. CASE Rx!Detach
  BY <1>15, MainAlone DEF Rx!Detach
<1> QED
  BY <1>2, <1>3, <1>4, <1>5, <1>6, <1>7, <1>8, <1>9, <1>10, <1>11, <1>12, <1>13, <1>14, <1>15
     DEF Rx!MainSteps, Rx!StopSteps

(* And every step of co_rx.                                                *)
LEMMA RxStep == RxInv /\ Rx!RxSteps => RxInv'
<1> SUFFICES ASSUME RxInv, Rx!RxSteps PROVE RxInv'
  OBVIOUS
<1>0. /\ SemMax \in Nat /\ FifoMax \in Nat /\ Batch \in Nat \ {0}
      /\ Preempting'
  BY DEF RxInv, Preempting, Rx!RxPathAssumption
<1> USE DEF RxInv, Rx!TypeOK, ThreadInv, RxPhaseInv, LeaveInv, BoundInv, Rx!NoStrandedFrame,
            Starting, Stopping, Serving, Rx!MainTo, Rx!RxTo, Rx!flags, Rx!sems, Rx!device,
                Rx!frames, Rx!mainPc, Rx!rxPc
<1>1. CASE Rx!RxEntry
  BY <1>0, <1>1 DEF Rx!RxEntry
<1>2. CASE Rx!RxWhile
  BY <1>0, <1>2 DEF Rx!RxWhile
<1>3. CASE Rx!RxTake
  BY <1>0, <1>3 DEF Rx!RxTake
<1>4. CASE Rx!RxDo
  BY <1>0, <1>4 DEF Rx!RxDo
<1>5. CASE Rx!RxRead
  <2>1. /\ rpc = "read" /\ UNCHANGED <<Rx!device, Rx!flags, Rx!sems, Rx!mainPc>>
        /\ rpc' \in {"frame", "while"}
    BY <1>5 DEF Rx!RxRead
  <2>2. CASE /\ fifo > 0 /\ left' = (IF fifo < Batch THEN fifo ELSE Batch)
             /\ fifo' = fifo - left' /\ full' = (left' = Batch)
             /\ rpc' = "frame" /\ UNCHANGED rxOwed
    <3>1. fifo \in 0..FifoMax /\ FifoMax \in Nat /\ Batch \in Nat
      BY <1>0
    <3>2. left' \in 0..Batch /\ fifo' \in 0..FifoMax /\ (fifo' > 0 => left' = Batch)
      BY <2>2, <3>1, SMT
    <3>3. (left' = Batch) \in BOOLEAN
      BY SMT
    <3>4. full' \in BOOLEAN /\ rxOwed' \in BOOLEAN
      BY <2>2, <3>3
    <3>5. Rx!NoStrandedFrame'
      BY <2>2, <3>2
    <3>6. Rx!TypeOK'
      BY <2>1, <3>2, <3>4
    <3>7. ThreadInv' /\ RxPhaseInv' /\ LeaveInv' /\ BoundInv'
      BY <2>1, <2>2
    <3> QED
      BY <1>0, <3>5, <3>6, <3>7
  <2>3. CASE /\ rpc' = "while" /\ UNCHANGED <<left, full, fifo>>
             /\ rxOwed' = FALSE \/ (fifo = 0 /\ UNCHANGED rxOwed)
    <3>1. Rx!TypeOK'
      BY <2>1, <2>3
    <3>2. Rx!NoStrandedFrame'
      BY <2>3
    <3>3. ThreadInv' /\ RxPhaseInv' /\ LeaveInv' /\ BoundInv'
      BY <2>1, <2>3
    <3> QED
      BY <1>0, <3>1, <3>2, <3>3
  <2> QED
    BY <1>5, <2>2, <2>3 DEF Rx!RxRead
<1>6. CASE Rx!RxFrame
  BY <1>0, <1>6 DEF Rx!RxFrame
<1>7. CASE Rx!RxDispatch
  BY <1>0, <1>7 DEF Rx!RxDispatch
<1>8. CASE Rx!RxBatchDone
  <2>1. /\ rpc = "frame" /\ UNCHANGED <<Rx!device, Rx!flags, Rx!sems, Rx!frames, Rx!mainPc>>
        /\ rpc' \in {"do", "while"} /\ left' = 0 /\ full' = FALSE
        /\ full /\ ~rxStop => rpc' = "do"
    BY <1>8 DEF Rx!RxBatchDone, Rx!ReadAgain
  <2>2. Rx!TypeOK'
    <3>1. 0 \in 0..Batch
      BY <1>0
    <3> QED
      BY <2>1, <3>1
  <2>3. Rx!NoStrandedFrame'
    BY <2>1
  <2>4. ThreadInv' /\ RxPhaseInv' /\ LeaveInv' /\ BoundInv'
    BY <2>1
  <2> QED
    BY <1>0, <2>2, <2>3, <2>4
<1>9. CASE Rx!RxLeave
  BY <1>0, <1>9 DEF Rx!RxLeave
<1>10. CASE Rx!RxForget
  BY <1>0, <1>10 DEF Rx!RxForget
<1>11. CASE Rx!RxExit
  <2>1. rxExitSem' \in 0..SemMax
    BY <1>11, IncInRange DEF Rx!RxExit
  <2>2. Rx!TypeOK'
    BY <1>11, <2>1 DEF Rx!RxExit
  <2>3. /\ rpc = "exit" /\ rpc' = "none" /\ mpc \in Stopping
        /\ UNCHANGED <<Rx!device, Rx!flags, rxSem, Rx!frames, Rx!mainPc, left>>
    BY <1>11 DEF Rx!RxExit
  <2>4. ThreadInv' /\ RxPhaseInv' /\ LeaveInv' /\ BoundInv' /\ Rx!NoStrandedFrame'
    BY <2>3
  <2> QED
    BY <1>0, <2>2, <2>4
<1> QED
  BY <1>1, <1>2, <1>3, <1>4, <1>5, <1>6, <1>7, <1>8, <1>9, <1>10, <1>11 DEF Rx!RxSteps

(* The invariant holds throughout. *)
LEMMA Invariance == Spec => []RxInv
<1>0. Preempting
  BY ServicesAssumption DEF Preempting
<1>1. Rx!Init => RxInv
  <2>1. 0 \in 0..SemMax /\ 0 \in 0..FifoMax /\ 0 \in 0..Batch
    BY <1>0 DEF Preempting, Rx!RxPathAssumption
  <2> QED
    BY <1>0, <2>1 DEF Rx!Init, RxInv, Preempting, Rx!RxPathAssumption, Rx!TypeOK, ThreadInv,
       RxPhaseInv, LeaveInv,
         BoundInv, Rx!NoStrandedFrame, Starting, Stopping, Serving
<1>2. RxInv /\ UNCHANGED Rx!vars => RxInv'
  BY DEF RxInv, Preempting, Rx!RxPathAssumption, Rx!TypeOK, ThreadInv, RxPhaseInv, LeaveInv,
         BoundInv, Rx!NoStrandedFrame, Rx!vars, Rx!flags, Rx!sems, Rx!device, Rx!frames,
             Rx!mainPc, Rx!rxPc
<1>3. RxInv /\ [Rx!Next]_(Rx!vars) => RxInv'
  BY <1>2, IndicateStep, MainStep, RxStep DEF Rx!Next
<1> QED
  BY <1>1, <1>3, Starts, Steps, PTL DEF Spec

-----------------------------------------------------------------------------
(* co_rx works on an open module to its last instruction                   *)
(* (CO_driver_rtthread.c:846) and leaves no indicated frame in the device  *)
(* without a token to fetch it.                                            *)
THEOREM RxPathSafe == Spec => []Rx!RxPathIsSafe
<1>1. RxInv => Rx!RxPathIsSafe
  BY DEF RxInv, Rx!RxPathIsSafe, Rx!DetachAfterExit, RxPhaseInv, Rx!TypeOK
<1> QED
  BY <1>1, Invariance, PTL

(* A step of the receive path is a step of RxDrain or none.                *)
LEMMA DrainStep == RxInv /\ [Rx!Next]_(Rx!vars) => [Rx!Drain!Next]_(Rx!Drain!drainVars)
<1> SUFFICES ASSUME RxInv, [Rx!Next]_(Rx!vars) PROVE [Rx!Drain!Next]_(Rx!Drain!drainVars)
  OBVIOUS
<1> USE DEF RxInv, Rx!MainTo, Rx!RxTo, Rx!flags, Rx!sems, Rx!device, Rx!frames, Rx!mainPc,
    Rx!rxPc, Rx!Drain!drainVars
<1>1. CASE Rx!CANmoduleInit
  BY <1>1, MainAlone DEF Rx!CANmoduleInit, RxPhaseInv, Rx!Drain!Next, Rx!Drain!Open
<1>2. CASE Rx!RxStart
  <2>1. module = "open"
    BY <1>2, MainAlone DEF Rx!RxStart, RxPhaseInv, Rx!TypeOK
  <2>2. rpc = "none" \/ UNCHANGED <<module, rpc, rxStop>>
    BY <1>2, MainAlone DEF Rx!RxStart, ThreadInv, Serving
  <2> QED
    BY <1>2, <2>1, <2>2 DEF Rx!RxStart, Rx!Drain!Next, Rx!Drain!Start
<1>3. CASE Rx!RxStartup
  <2>1. module = "open" /\ rpc = "none" /\ ~rxStop
    BY <1>3, MainAlone DEF Rx!RxStartup, RxPhaseInv, Rx!TypeOK, Starting
  <2> QED
    BY <1>3, <2>1 DEF Rx!RxStartup, Rx!Drain!Next, Rx!Drain!Start, Rx!TypeOK
<1>4. CASE Rx!RxStopTell
  <2>1. module = "open"
    BY <1>4, MainAlone DEF Rx!RxStopTell, RxPhaseInv, Rx!TypeOK
  <2> QED
    BY <1>4, <2>1 DEF Rx!RxStopTell, Rx!Drain!Next, Rx!Drain!Tell
<1>5. CASE Rx!Detach
  BY <1>5, MainAlone DEF Rx!Detach, RxPhaseInv, Rx!Drain!Next, Rx!Drain!Close
<1>6. CASE Rx!RxRead
  BY <1>6 DEF Rx!RxRead, Rx!Drain!Next, Rx!Drain!Receive
<1>7. CASE Rx!RxBatchDone
  BY <1>7 DEF Rx!RxBatchDone, Rx!Drain!Next, Rx!Drain!Dispatched
<1>8. CASE Rx!RxExit
  BY <1>8 DEF Rx!RxExit, LeaveInv, Rx!Drain!Next, Rx!Drain!Exit
<1>9. CASE Rx!RxEntry \/ Rx!RxWhile \/ Rx!RxTake \/ Rx!RxDo \/ Rx!RxFrame \/ Rx!RxDispatch \/
    Rx!RxLeave \/ Rx!RxForget
  BY <1>9 DEF Rx!RxEntry, Rx!RxWhile, Rx!RxTake, Rx!RxDo, Rx!RxFrame, Rx!RxDispatch, Rx!RxLeave,
     Rx!RxForget
<1>10. CASE Rx!RxIndicate \/ Rx!SetNormalMode \/ Rx!RxBind \/ Rx!RxCreate \/ Rx!CANstart \/
    Rx!Disable
            \/ Rx!RxUnbind \/ Rx!RxStopCheck \/ Rx!RxStopWake \/ Rx!RxStopAwait
  BY <1>10 DEF Rx!RxIndicate, Rx!SetNormalMode, Rx!RxBind, Rx!RxCreate, Rx!CANstart, Rx!Disable,
     Rx!RxUnbind, Rx!RxStopCheck, Rx!RxStopWake, Rx!RxStopAwait
<1>11. CASE UNCHANGED Rx!vars
  BY <1>11 DEF Rx!vars
<1> QED
  BY <1>1, <1>2, <1>3, <1>4, <1>5, <1>6, <1>7, <1>8, <1>9, <1>10, <1>11
     DEF Rx!Next, Rx!MainSteps, Rx!StopSteps, Rx!RxSteps

(* The receive path keeps the promise on which the application's teardown  *)
(* relies: it is told, it leaves, and only then the module is closed.      *)
THEOREM ImplementsDrain == Spec => Rx!DrainSpec
<1>1. Rx!Init => Rx!Drain!Init
  BY DEF Rx!Init, Rx!Drain!Init
<1> QED
  BY <1>1, DrainStep, Invariance, Starts, Steps, PTL DEF Spec, Rx!DrainSpec, Rx!Drain!Spec

-----------------------------------------------------------------------------
(***************************************************************************)
(* The areas of the EEPROM.  The device is opened only for areas that were *)
(* computed from the configuration and found sound; a reset computes them  *)
(* again, to the same values.  Entries are placed one behind the other.    *)
(***************************************************************************)

Region == IF configured = 0 /\ storageOffset < size THEN size - storageOffset ELSE configured
Computed ==
    IF Region > Page
    THEN auxRegion = Page /\ storageRegion = Region - Page /\ auxOffset =
        storageOffset + Region - Page
    ELSE auxRegion = 0 /\ storageRegion = Region /\ auxOffset = 0

LayoutTypeOK ==
    /\ size \in Nat /\ storageOffset \in Nat /\ configured \in Nat
    /\ storageRegion \in Nat /\ auxOffset \in Nat /\ auxRegion \in Nat
    /\ nextAddress \in Nat
    /\ \A r \in taken : r[1] \in Nat /\ r[2] \in Nat

(* The areas, and the entries placed in the first one.                     *)
AreaInv ==
    /\ (storageRegion = 0 /\ auxRegion = 0 /\ auxOffset = 0) \/ Computed
    /\ opened => Computed /\ Layout!Sound
PlaceInv ==
    /\ taken # {} => opened /\ nextAddress <= Layout!RegionEnd
    /\ \A r \in taken : storageOffset <= r[1] /\ r[2] # 0 /\ r[1] + r[2] <= nextAddress
    /\ \A r, other \in taken : r # other => r[1] + r[2] <= other[1] \/ other[1] + other[2] <= r[1]

LayoutInv == LayoutTypeOK /\ AreaInv /\ PlaceInv

LEMMA RegionIsNat ==
    ASSUME LayoutTypeOK
    PROVE  Region \in Nat /\ Page \in Nat \ {0}
BY ServicesAssumption DEF LayoutTypeOK, Region, Layout!EepromLayoutAssumption

LEMMA Got ==
    ASSUME LayoutTypeOK, Layout!ModuleGet
    PROVE  /\ IF Region > Page
              THEN /\ auxRegion' = Page /\ storageRegion' = Region - Page
                   /\ auxOffset' = storageOffset + Region - Page
              ELSE auxRegion' = 0 /\ storageRegion' = Region /\ auxOffset' = 0
           /\ nextAddress' = storageOffset /\ taken' = {}
           /\ UNCHANGED <<size, storageOffset, configured, opened>>
BY DEF Layout!ModuleGet, Region, Layout!Reserved, Layout!configVars

LEMMA LayoutTypeOKStep ==
    ASSUME LayoutInv, [Layout!Next]_(Layout!vars)
    PROVE  LayoutTypeOK'
<1>1. CASE Layout!ModuleGet
  BY <1>1, Got, RegionIsNat DEF LayoutInv, LayoutTypeOK
<1>2. CASE Layout!DeviceInit
  BY <1>2 DEF Layout!DeviceInit, LayoutInv, LayoutTypeOK, Layout!configVars, Layout!areaVars
<1>3. ASSUME NEW length \in 1 .. MaxSize, Layout!GetAddr(length) PROVE LayoutTypeOK'
  BY <1>3, ServicesAssumption
  DEF Layout!GetAddr, Layout!Fits, LayoutInv, LayoutTypeOK, Layout!configVars, Layout!areaVars,
      Layout!EepromLayoutAssumption
<1>4. CASE UNCHANGED Layout!vars
  BY <1>4 DEF Layout!vars, LayoutInv, LayoutTypeOK, Layout!configVars, Layout!areaVars
<1>q. QED
  BY <1>1, <1>2, <1>3, <1>4 DEF Layout!Next

LEMMA AreaInvStep ==
    ASSUME LayoutInv, [Layout!Next]_(Layout!vars)
    PROVE  AreaInv'
<1>1. CASE Layout!ModuleGet
  <2>1. Computed'
    BY <1>1, Got DEF LayoutInv, Computed, Region
  <2>2. CASE opened
    <3>1. UNCHANGED <<storageRegion, auxRegion, auxOffset>>
      BY <1>1, <2>2, Got DEF LayoutInv, AreaInv, Computed
    <3>q. QED
      BY <1>1, <2>1, <2>2, <3>1, Got DEF LayoutInv, AreaInv, Layout!Sound
  <2>3. CASE ~opened
    BY <1>1, <2>1, <2>3, Got DEF LayoutInv, AreaInv
  <2>q. QED
    BY <2>2, <2>3
<1>2. CASE Layout!DeviceInit
  <2>1. Layout!Sound /\ UNCHANGED <<size, storageOffset, configured, storageRegion, auxOffset,
      auxRegion>>
    BY <1>2 DEF Layout!DeviceInit, Layout!configVars, Layout!areaVars
  <2>2. Computed
    BY <2>1 DEF Layout!Sound, LayoutInv, AreaInv
  <2>q. QED
    BY <2>1, <2>2 DEF AreaInv, Computed, Region, Layout!Sound
<1>3. CASE UNCHANGED <<Layout!configVars, Layout!areaVars, opened>>
  BY <1>3 DEF LayoutInv, AreaInv, Computed, Region, Layout!Sound, Layout!configVars, Layout!areaVars
<1>q. QED
  BY <1>1, <1>2, <1>3 DEF Layout!Next, Layout!GetAddr, Layout!vars

LEMMA PlaceInvStep ==
    ASSUME LayoutInv, [Layout!Next]_(Layout!vars)
    PROVE  PlaceInv'
<1>1. CASE Layout!ModuleGet
  BY <1>1, Got DEF LayoutInv, PlaceInv
<1>2. CASE Layout!DeviceInit
  BY <1>2 DEF Layout!DeviceInit, LayoutInv, PlaceInv, Layout!RegionEnd, Layout!configVars,
     Layout!areaVars
<1>3. ASSUME NEW length \in 1 .. MaxSize, Layout!GetAddr(length) PROVE PlaceInv'
  <2>1. length \in Nat \ {0}
    BY ServicesAssumption DEF Layout!EepromLayoutAssumption
  <2> DEFINE new == <<nextAddress, length>>
  <2>2. /\ taken' = taken \cup {new} /\ nextAddress' = nextAddress + length /\ opened
        /\ nextAddress + length <= Layout!RegionEnd /\ storageOffset <= nextAddress
        /\ UNCHANGED <<storageOffset, storageRegion, opened>>
    BY <1>3, <2>1 DEF Layout!GetAddr, Layout!Fits, Layout!RegionEnd, LayoutInv, LayoutTypeOK,
       Layout!configVars, Layout!areaVars
  <2>3. new[1] = nextAddress /\ new[2] = length
    OBVIOUS
  <2>4. \A r \in taken : r[1] \in Nat /\ r[2] \in Nat /\ storageOffset <= r[1] /\ r[2] # 0
                         /\ r[1] + r[2] <= nextAddress
    BY DEF LayoutInv, LayoutTypeOK, PlaceInv
  <2> HIDE DEF new
  <2>q. QED
    BY <2>1, <2>2, <2>3, <2>4 DEF LayoutInv, LayoutTypeOK, PlaceInv, Layout!RegionEnd
<1>4. CASE UNCHANGED Layout!vars
  BY <1>4 DEF Layout!vars, LayoutInv, PlaceInv, Layout!RegionEnd, Layout!configVars, Layout!areaVars
<1>q. QED
  BY <1>1, <1>2, <1>3, <1>4 DEF Layout!Next

LEMMA LayoutInvariant == Spec => []LayoutInv
<1>1. Layout!Init => LayoutInv
  BY ServicesAssumption DEF Layout!Init, LayoutInv, LayoutTypeOK, AreaInv, PlaceInv,
     Layout!EepromLayoutAssumption
<1>2. LayoutInv /\ [Layout!Next]_(Layout!vars) => LayoutInv'
  BY LayoutTypeOKStep, AreaInvStep, PlaceInvStep DEF LayoutInv
<1>q. QED
  BY <1>1, <1>2, Starts, Steps, PTL DEF Spec

(* An access the driver lets through is in its own area of the device.     *)
LEMMA Confined ==
    ASSUME LayoutInv
    PROVE  Layout!AccessIsConfined
<1> DEFINE Lengths == 0 .. MaxSize
           storage == UNION {Layout!Bytes(p[1], p[2]) : p \in {r \in Lengths \X Lengths :
               Layout!RangeValid(r[1], r[2])}}
           aux == UNION {Layout!Bytes(auxOffset + p[1], p[2]) :
                           p \in {r \in Lengths \X Lengths : Layout!AuxRangeValid(r[1], r[2])}}
<1>1. \A n \in Lengths : n \in Nat
  BY ServicesAssumption DEF Layout!EepromLayoutAssumption
<1>2. ASSUME NEW a \in Nat, NEW n \in Nat, Layout!RangeValid(a, n), NEW b \in Layout!Bytes(a, n)
      PROVE  b \in storageOffset .. size - 1 /\ b < storageOffset + storageRegion
  BY <1>2 DEF Layout!RangeValid, Layout!DeviceRangeValid, Layout!Bytes, Layout!RegionEnd,
     LayoutInv, LayoutTypeOK
<1>3. ASSUME NEW a \in Nat, NEW n \in Nat, Layout!AuxRangeValid(a, n),
    NEW b \in Layout!Bytes(auxOffset + a, n)
      PROVE  b \in storageOffset .. size - 1 /\ b >= storageOffset + storageRegion
  <2>1. opened /\ auxOffset + a < size /\ n <= size - (auxOffset + a)
    BY <1>3 DEF Layout!AuxRangeValid, Layout!DeviceRangeValid
  <2>2. auxOffset = storageOffset + storageRegion
    BY <2>1 DEF LayoutInv, AreaInv, Layout!Sound
  <2>q. QED
    BY <1>3, <2>1, <2>2 DEF Layout!Bytes, LayoutInv, LayoutTypeOK
<1>4. ASSUME NEW b \in storage
      PROVE  b \in storageOffset .. size - 1 /\ b < storageOffset + storageRegion
  <2>1. PICK p \in {r \in Lengths \X Lengths : Layout!RangeValid(r[1], r[2])} :
      b \in Layout!Bytes(p[1], p[2])
    BY <1>4
  <2>2. p[1] \in Nat /\ p[2] \in Nat /\ Layout!RangeValid(p[1], p[2])
    BY <1>1, <2>1
  <2>q. QED
    BY <1>2, <2>1, <2>2
<1>5. ASSUME NEW b \in aux
      PROVE  b \in storageOffset .. size - 1 /\ b >= storageOffset + storageRegion
  <2>1. PICK p \in {r \in Lengths \X Lengths : Layout!AuxRangeValid(r[1], r[2])} :
      b \in Layout!Bytes(auxOffset + p[1], p[2])
    BY <1>5
  <2>2. p[1] \in Nat /\ p[2] \in Nat /\ Layout!AuxRangeValid(p[1], p[2])
    BY <1>1, <2>1
  <2>q. QED
    BY <1>3, <2>1, <2>2
<1>6. storageOffset \in Nat /\ storageRegion \in Nat /\ size \in Nat
  BY DEF LayoutInv, LayoutTypeOK
<1>7. storage \cap aux = {} /\ storage \cup aux \subseteq storageOffset .. size - 1
  <2> HIDE DEF storage, aux
  <2>1. ASSUME NEW b \in storage, b \in aux PROVE FALSE
    BY <1>4, <1>5, <1>6, <2>1
  <2>q. QED
    BY <1>4, <1>5, <2>1
<1>q. QED
  BY <1>7 DEF Layout!AccessIsConfined

(* Whatever Kconfig says and whichever step of the set-up has failed: the  *)
(* two areas share no byte, no access leaves its area, and entries share   *)
(* no byte with one another (CO_storage_RTT_at24c.c).                      *)
THEOREM LayoutSound == Spec => []Layout!LayoutIsSound
<1>1. ASSUME LayoutInv PROVE Layout!EntriesAreApart
  <2>1. ASSUME NEW r \in taken PROVE Layout!RangeValid(r[1], r[2])
    BY <1>1, <2>1
    DEF LayoutInv, LayoutTypeOK, AreaInv, PlaceInv, Layout!Sound, Layout!RangeValid,
        Layout!DeviceRangeValid, Layout!RegionEnd
  <2>2. ASSUME NEW r \in taken, NEW other \in taken \ {r}
        PROVE  Layout!Bytes(r[1], r[2]) \cap Layout!Bytes(other[1], other[2]) = {}
    <3>1. /\ r[1] \in Nat /\ r[2] \in Nat /\ other[1] \in Nat /\ other[2] \in Nat
          /\ r[1] + r[2] <= other[1] \/ other[1] + other[2] <= r[1]
      BY <1>1 DEF LayoutInv, LayoutTypeOK, PlaceInv
    <3>q. QED
      BY <3>1 DEF Layout!Bytes
  <2>q. QED
    BY <2>1, <2>2 DEF Layout!EntriesAreApart
<1>2. LayoutInv => Layout!LayoutIsSound
  BY <1>1, Confined DEF Layout!LayoutIsSound
<1>q. QED
  BY <1>2, LayoutInvariant, PTL

-----------------------------------------------------------------------------
(***************************************************************************)
(* One storage entry on the EEPROM.  A store runs under the OD lock: RAM   *)
(* cannot move between the comparison of the CRCs and the report, and a    *)
(* byte or a signature is written only when no report stands.              *)
(***************************************************************************)

(* What is under way, and what it has established.                         *)
StoreInv ==
    /\ auto => pc \in {"idle", "saveAll", "sign"}
    /\ ~auto => pc \in {"idle", "payload", "readBack"}
    /\ pc # "idle" /\ ~auto => stored = Eeprom!Nothing
    /\ pc = "readBack" => ram \in {payload, Eeprom!Zeros}

EepromInv == StoreInv /\ Eeprom!StoreIsHonest

(* Every step keeps the order of a store.                                  *)
LEMMA StoreInvStep ==
    ASSUME EepromInv, [Eeprom!Next]_(Eeprom!vars)
    PROVE  StoreInv'
<1>0. CASE UNCHANGED Eeprom!vars
  BY <1>0 DEF Eeprom!vars, Eeprom!entryVars, StoreInv, Eeprom!Nothing, EepromInv
<1>1. CASE Eeprom!ChangeRam
  BY <1>1 DEF Eeprom!ChangeRam, StoreInv, Eeprom!Nothing, EepromInv
<1>2. CASE Eeprom!Store
  BY <1>2 DEF Eeprom!Store, Eeprom!Nothing, Eeprom!entryVars, StoreInv, EepromInv
<1>3. CASE Eeprom!StorePayload
  BY <1>3 DEF Eeprom!StorePayload, Eeprom!WriteByte, Eeprom!entryVars, StoreInv, Eeprom!Nothing,
     EepromInv
<1>4. CASE Eeprom!StoreSignature
  BY <1>4 DEF Eeprom!StoreSignature, Eeprom!CrcMatches, Eeprom!CrcRead,
     Eeprom!WriteSignature, Eeprom!entryVars,
     Eeprom!Torn, StoreInv,
     Eeprom!Nothing, EepromInv
<1>5. CASE Eeprom!StoreReadBack
  BY <1>5 DEF Eeprom!StoreReadBack, Eeprom!entryVars, StoreInv, Eeprom!Nothing, EepromInv
<1>6. CASE Eeprom!Restore
  BY <1>6 DEF Eeprom!Restore, Eeprom!WriteSignature, Eeprom!Erased, Eeprom!Nothing,
     Eeprom!entryVars, Eeprom!Torn, StoreInv, EepromInv
<1>7. CASE Eeprom!AutoProcess
  BY <1>7 DEF Eeprom!AutoProcess, Eeprom!UpdateByte, Eeprom!Onwards, Eeprom!UpdateUnread,
     Eeprom!Seen, Eeprom!WriteByte, StoreInv,
     Eeprom!Nothing, EepromInv
<1>8. CASE Eeprom!SaveAll
  BY <1>8 DEF Eeprom!SaveAll, Eeprom!entryVars, StoreInv, Eeprom!Nothing, EepromInv
<1>9. CASE Eeprom!SaveAllByte
  BY <1>9 DEF Eeprom!SaveAllByte, Eeprom!UpdateByte, Eeprom!UpdateUnread, Eeprom!Seen,
     Eeprom!WriteByte, StoreInv, Eeprom!Nothing,
     EepromInv
<1>10. CASE Eeprom!SaveAllDone
  BY <1>10 DEF Eeprom!SaveAllDone, Eeprom!entryVars, StoreInv, Eeprom!Nothing, EepromInv
<1>11. CASE Eeprom!Sign
  BY <1>11 DEF Eeprom!Sign, Eeprom!CrcMatches, Eeprom!CrcRead,
     Eeprom!WriteSignature, Eeprom!Torn, StoreInv,
     Eeprom!Nothing, EepromInv
<1>12. CASE Eeprom!PowerCycle
  BY <1>12 DEF Eeprom!PowerCycle, Eeprom!CrcMatches, Eeprom!CrcRead,
     Eeprom!WriteSignature, Eeprom!Nothing,
     Eeprom!Torn, StoreInv, EepromInv
<1>q. QED
  BY <1>0, <1>1, <1>2, <1>3, <1>4, <1>5, <1>6, <1>7, <1>8, <1>9, <1>10, <1>11, <1>12 DEF
     Eeprom!Next, Eeprom!Operations

(* No step takes away what was reported.                                   *)
LEMMA StoreIsHonestStep ==
    ASSUME EepromInv, [Eeprom!Next]_(Eeprom!vars)
    PROVE  Eeprom!StoreIsHonest'
<1>0. CASE UNCHANGED Eeprom!vars
  BY <1>0 DEF Eeprom!vars, Eeprom!entryVars, Eeprom!StoreIsHonest, Eeprom!Nothing, EepromInv,
     StoreInv
<1>1. CASE Eeprom!ChangeRam \/ Eeprom!SaveAll \/ Eeprom!SaveAllDone
  BY <1>1 DEF Eeprom!ChangeRam, Eeprom!SaveAll, Eeprom!SaveAllDone, Eeprom!entryVars,
     Eeprom!StoreIsHonest, Eeprom!Nothing, EepromInv,
     StoreInv
<1>2. CASE Eeprom!Store
  BY <1>2 DEF Eeprom!Store, Eeprom!Nothing, Eeprom!entryVars, Eeprom!StoreIsHonest, EepromInv,
     StoreInv
<1>3. CASE Eeprom!StorePayload
  BY <1>3 DEF Eeprom!StorePayload, Eeprom!WriteByte, Eeprom!entryVars, Eeprom!StoreIsHonest,
     Eeprom!Nothing, EepromInv, StoreInv
<1>4. CASE Eeprom!StoreSignature
  BY <1>4 DEF Eeprom!StoreSignature, Eeprom!CrcMatches, Eeprom!CrcRead,
     Eeprom!WriteSignature, Eeprom!entryVars,
     Eeprom!Torn,
     Eeprom!StoreIsHonest, Eeprom!Nothing, EepromInv, StoreInv
<1>5. CASE Eeprom!StoreReadBack
  BY <1>5 DEF Eeprom!StoreReadBack, Eeprom!entryVars, Eeprom!StoreIsHonest, Eeprom!Nothing,
     EepromInv, StoreInv
<1>6. CASE Eeprom!Restore
  BY <1>6 DEF Eeprom!Restore, Eeprom!WriteSignature, Eeprom!Erased, Eeprom!Nothing,
     Eeprom!entryVars, Eeprom!Torn, Eeprom!StoreIsHonest,
     EepromInv, StoreInv
<1>7. CASE Eeprom!AutoProcess
  BY <1>7 DEF Eeprom!AutoProcess, Eeprom!UpdateByte, Eeprom!Onwards, Eeprom!UpdateUnread,
     Eeprom!Seen, Eeprom!WriteByte,
     Eeprom!StoreIsHonest, Eeprom!Nothing, EepromInv, StoreInv
<1>8. CASE Eeprom!SaveAllByte
  BY <1>8 DEF Eeprom!SaveAllByte, Eeprom!UpdateByte, Eeprom!UpdateUnread, Eeprom!Seen,
     Eeprom!WriteByte, Eeprom!StoreIsHonest,
     Eeprom!Nothing, EepromInv, StoreInv
<1>9. CASE Eeprom!Sign
  BY <1>9 DEF Eeprom!Sign, Eeprom!CrcMatches, Eeprom!CrcRead, Eeprom!WriteSignature, Eeprom!Torn,
     Eeprom!StoreIsHonest, Eeprom!Nothing, EepromInv,
     StoreInv
<1>10. CASE Eeprom!PowerCycle
  BY <1>10 DEF Eeprom!PowerCycle, Eeprom!CrcMatches, Eeprom!CrcRead,
     Eeprom!WriteSignature, Eeprom!Nothing,
     Eeprom!Torn, Eeprom!StoreIsHonest,
     EepromInv, StoreInv
<1>q. QED
  BY <1>0, <1>1, <1>2, <1>3, <1>4, <1>5, <1>6, <1>7, <1>8, <1>9, <1>10 DEF Eeprom!Next,
     Eeprom!Operations

LEMMA EepromInvariant == Spec => []EepromInv
<1>1. Eeprom!Init => EepromInv
  BY DEF Eeprom!Init, EepromInv, StoreInv, Eeprom!StoreIsHonest
<1>2. EepromInv /\ [Eeprom!Next]_(Eeprom!vars) => EepromInv'
  BY StoreInvStep, StoreIsHonestStep DEF EepromInv
<1>q. QED
  BY <1>1, <1>2, Starts, Steps, PTL DEF Spec

(* What a store has reported is on the EEPROM, wherever reads and writes   *)
(* fail and power is lost, a payload of zeros excepted                     *)
(* (CO_storage_RTT_eeprom.c).                                              *)
THEOREM StoresAreHonest == Spec => []Eeprom!StoreIsHonest
<1>1. EepromInv => Eeprom!StoreIsHonest
  BY DEF EepromInv
<1>q. QED
  BY <1>1, EepromInvariant, PTL

-----------------------------------------------------------------------------
(***************************************************************************)
(* The NMT master test.  What the heartbeat consumer knows can be old, but *)
(* the state it is asked for is one the other node has not been in since   *)
(* before the command, or one it has booted into: when the consumer shows  *)
(* it, the command has been carried out and nothing is on its way.         *)
(***************************************************************************)

(* The types, and what the consumer tells of the other node.               *)
NmtTypeOK ==
    /\ phase \in {"local", "online", "preop", "send", "state"}
    /\ step \in 1 .. 7 /\ resetObserved \in BOOLEAN /\ elapsed \in 0 .. Timeout
    /\ verdict \in {"none", "finished", "failed"}
    /\ phase = "state" => step <= 6
    /\ remote \in Nmt!States /\ frame \subseteq 0 .. 6
    /\ heartbeat \in Nmt!States \cup {"boot", "none"} /\ nmtState \in Nmt!States \cup {"none"}
    /\ hbState = "active" <=> nmtState # "none"

(* The entry of the dictionary: the value of others is where it was left.  *)
EntryInv ==
    /\ theirs # "applied"
    /\ nmtStage = "bind" => ~override
    /\ Nmt!EntryIsReturned

(* The state in which the other node awaits step s.                        *)
From(s) == IF s = 1 THEN "preop" ELSE Nmt!Steps[s - 1].state
Done(n) == executed = 1 .. n

(* The consumer and the heartbeat on its way tell the truth.               *)
Truthful == heartbeat \in {"none", remote} /\ nmtState \in {"none", remote}

(* The state aimed at is not seen before it is reached.                    *)
Aims(target) ==
    /\ heartbeat # "boot"
    /\ heartbeat = target \/ nmtState = target => remote = target
    /\ nmtState = target => heartbeat \in {"none", target}

Waiting == step = 1 /\ ~resetObserved /\ Done(0) /\ frame = {} /\ Truthful

Preparing ==
    /\ Aims("preop")
    /\ remote = "preop" => frame = {}
    /\ frame \subseteq {Nmt!Prepare}
    /\ IF resetObserved THEN step <= 6 /\ Nmt!BootRequired(step) /\ Done(step)
                        ELSE step = 1 /\ Done(0)

Sending == ~resetObserved /\ frame = {} /\ Done(step - 1) /\ remote = From(step) /\ Truthful

(* The command of a step is on its way, lost, or carried out.              *)
CommandInv ==
    /\ frame \subseteq {step}
    /\ ~resetObserved
    /\ Aims(Nmt!Steps[step].state)
    /\ IF remote = Nmt!Steps[step].state THEN Done(step) /\ frame = {} ELSE Done(step - 1)

(* A boot-up has been seen only if there was one.                          *)
BootInv ==
    /\ frame \subseteq {step}
    /\ \/ ~resetObserved /\ Done(step - 1) /\ hbState # "unknown" /\ heartbeat # "boot"
       \/ /\ Done(step) /\ frame = {}
          /\ resetObserved \/ hbState = "unknown" => Truthful

TrackInv ==
    verdict = "none" /\ ~meddled =>
        /\ active /\ wasActive
        /\ phase \in {"local", "online"} => Waiting
        /\ phase = "preop" => Preparing
        /\ phase = "send" => Sending
        /\ phase = "state" => IF Nmt!BootRequired(step) THEN BootInv ELSE CommandInv

NmtInv == NmtTypeOK /\ EntryInv /\ TrackInv /\ Nmt!PassIsEarned

(* The commands: a boot-up ends in pre-operational.                        *)
LEMMA StepsAre == Len(Nmt!Steps) = 6 /\ DOMAIN Nmt!Steps = 1 .. 6
BY DEF Nmt!Steps

LEMMA StepState ==
    ASSUME NEW s \in 1 .. 6
    PROVE  Nmt!Steps[s].state \in Nmt!States
BY DEF Nmt!Steps, Nmt!Command, Nmt!States

LEMMA BootState ==
    ASSUME NEW s \in 1 .. 6, Nmt!BootRequired(s)
    PROVE  Nmt!Steps[s].state = "preop"
BY DEF Nmt!Steps, Nmt!Command, Nmt!BootRequired

(* The moves of the test in a pass.  Elsewhere in the node and on the bus  *)
(* nothing changes under it.                                               *)
World == UNCHANGED <<active, wasActive, hbState, nmtState, heartbeat, remote, executed, meddled>>
Still == UNCHANGED <<phase, step, resetObserved, elapsed, frame>>

Halted ==
    /\ Still
    /\ \/ verdict' = "failed"
       \/ verdict' = "finished" /\ phase = "send" /\ step > 6

ToOnline ==
    phase = "local" /\ phase' = "online" /\ UNCHANGED <<step, resetObserved, elapsed, frame>>

ToPrepare ==
    /\ phase' = "preop" /\ step' = step /\ frame' = {Nmt!Prepare} /\ elapsed' = 0
    /\ \/ phase = "online" /\ nmtState # "preop" /\ nmtState # "none" /\ resetObserved' = FALSE
       \/ /\ phase = "state" /\ Nmt!BootRequired(step) /\ resetObserved /\ resetObserved'
          /\ nmtState # Nmt!Steps[step].state /\ nmtState # "none"

ToSend ==
    /\ phase' = "send" /\ UNCHANGED <<step, resetObserved, elapsed, frame>>
    /\ nmtState = "preop"
    /\ \/ phase = "online"
       \/ phase = "preop" /\ ~(resetObserved /\ step <= 6 /\ Nmt!BootRequired(step))

Advance ==
    /\ phase' = "send" /\ step' = step + 1 /\ resetObserved' = FALSE
    /\ UNCHANGED <<elapsed, frame>>
    /\ \/ /\ phase = "preop" /\ nmtState = "preop" /\ resetObserved /\ step <= 6
          /\ Nmt!BootRequired(step)
       \/ phase = "state" /\ (Nmt!BootRequired(step) => resetObserved) /\ nmtState =
           Nmt!Steps[step].state

Sent ==
    /\ phase = "send" /\ step <= 6 /\ hbState = "active"
    /\ Nmt!BootRequired(step) \/ nmtState # Nmt!Steps[step].state
    /\ phase' = "state" /\ step' = step /\ frame' = {step} /\ resetObserved' = FALSE /\ elapsed' = 0

Observed ==
    /\ phase = "state" /\ Nmt!BootRequired(step) /\ ~resetObserved
    /\ resetObserved' = (hbState = "unknown")
    /\ UNCHANGED <<phase, step, elapsed, frame>>

Moves ==
    \/ Still /\ UNCHANGED verdict
    \/ verdict = "none" /\ Halted
    \/ /\ verdict = "none" /\ verdict' = "none"
       /\ ToOnline \/ ToPrepare \/ ToSend \/ Advance \/ Sent \/ Observed

LEMMA DemoWorld ==
    ASSUME Nmt!Demo
    PROVE  World
BY DEF Nmt!Demo, Nmt!Suspended, Nmt!Disowned, Nmt!WaitLocalOperational, Nmt!WaitRemoteOnline,
   Nmt!WaitRemotePreop,
     Nmt!Complete, Nmt!SendCommand, Nmt!WaitRemoteState, Nmt!At, Nmt!Running, Nmt!Pass, World,
         Nmt!hbVars

(* Every pass makes one of these moves.                                    *)
LEMMA DemoMoves ==
    ASSUME NmtInv, Nmt!Demo
    PROVE  Moves
<1>2. CASE Nmt!Suspended
  BY <1>2 DEF Nmt!Suspended, Nmt!Stays, Moves, Still
<1>f. Nmt!Fails /\ verdict = "none" => Moves
  BY DEF Nmt!Fails, Nmt!End, Moves, Halted, Still
<1>s. Nmt!Stays => Moves
  BY DEF Nmt!Stays, Moves, Still
<1>3. CASE Nmt!Disowned
  BY <1>3, <1>f DEF Nmt!Disowned, Nmt!Running
<1>4. CASE Nmt!WaitLocalOperational
  BY <1>4, <1>s DEF Nmt!WaitLocalOperational, Nmt!At, Nmt!Running, Nmt!Goes, Moves, ToOnline
<1>5. CASE Nmt!WaitRemoteOnline
  <2>1. phase = "online" /\ verdict = "none"
    BY <1>5 DEF Nmt!WaitRemoteOnline, Nmt!At, Nmt!Running
  <2>2. CASE Nmt!Known /\ nmtState = "preop" /\ Nmt!Goes("send", step)
             /\ UNCHANGED <<resetObserved, elapsed, verdict, frame, Nmt!odVars>>
    BY <2>1, <2>2 DEF Nmt!Goes, Moves, ToSend
  <2>3. CASE Nmt!Known /\ nmtState # "preop" /\ Nmt!PreparesWith(FALSE)
    BY <2>1, <2>3 DEF Nmt!Known, Nmt!PreparesWith, Nmt!Sends, Nmt!Goes, Moves, ToPrepare, NmtInv,
       NmtTypeOK
  <2>q. QED
    BY <1>5, <1>f, <1>s, <2>1, <2>2, <2>3 DEF Nmt!WaitRemoteOnline
<1>6. CASE Nmt!WaitRemotePreop
  <2>1. phase = "preop" /\ verdict = "none"
    BY <1>6 DEF Nmt!WaitRemotePreop, Nmt!At, Nmt!Running
  <2>2. CASE nmtState = "preop" /\ resetObserved /\ step <= Len(Nmt!Steps) /\
      Nmt!BootRequired(step) /\ Nmt!Passed
    BY <2>1, <2>2, StepsAre DEF Nmt!Passed, Nmt!Goes, Moves, Advance
  <2>3. CASE /\ nmtState = "preop" /\ ~(resetObserved /\ step <= Len(Nmt!Steps) /\
                Nmt!BootRequired(step))
             /\ Nmt!Goes("send", step) /\ UNCHANGED <<resetObserved, elapsed, verdict, frame,
                 Nmt!odVars>>
    BY <2>1, <2>3, StepsAre DEF Nmt!Goes, Moves, ToSend
  <2>q. QED
    BY <1>6, <1>f, <1>s, <2>1, <2>2, <2>3 DEF Nmt!WaitRemotePreop
<1>7. CASE Nmt!Complete
  <2>1. phase = "send" /\ verdict = "none" /\ step > 6
    BY <1>7, StepsAre DEF Nmt!Complete, Nmt!At, Nmt!Running
  <2>2. Still /\ verdict' \in {"failed", "finished"}
    BY <1>7 DEF Nmt!Complete, Nmt!End, Still
  <2>q. QED
    BY <2>1, <2>2 DEF Moves, Halted
<1>8. CASE Nmt!SendCommand
  <2>1. phase = "send" /\ verdict = "none" /\ step <= 6
    BY <1>8, StepsAre DEF Nmt!SendCommand, Nmt!At, Nmt!Running
  <2>2. CASE /\ Nmt!Known /\ (Nmt!BootRequired(step) \/ nmtState # Nmt!Steps[step].state)
             /\ Nmt!Sends(step) /\ Nmt!Goes("state", step) /\ resetObserved' = FALSE
             /\ UNCHANGED <<verdict, Nmt!odVars>>
    BY <2>1, <2>2 DEF Nmt!Known, Nmt!Sends, Nmt!Goes, Moves, Sent
  <2>q. QED
    BY <1>8, <1>f, <2>1, <2>2 DEF Nmt!SendCommand
<1>9. CASE Nmt!WaitRemoteState
  <2>1. phase = "state" /\ verdict = "none" /\ resetObserved \in BOOLEAN
    BY <1>9 DEF Nmt!WaitRemoteState, Nmt!At, Nmt!Running, NmtInv, NmtTypeOK
  <2>2. CASE Nmt!ExpectsBoot /\ resetObserved' = (hbState = "unknown")
             /\ UNCHANGED <<phase, step, elapsed, verdict, frame, Nmt!odVars>>
    BY <2>1, <2>2 DEF Nmt!ExpectsBoot, Moves, Observed
  <2>3. CASE ~Nmt!ExpectsBoot /\ nmtState = Nmt!Steps[step].state /\ Nmt!Passed
    BY <2>1, <2>3 DEF Nmt!ExpectsBoot, Nmt!Passed, Nmt!Goes, Moves, Advance
  <2>4. CASE ~Nmt!ExpectsBoot /\ Nmt!Known /\ nmtState # Nmt!Steps[step].state /\
      Nmt!BootRequired(step)
             /\ Nmt!PreparesWith(resetObserved)
    BY <2>1, <2>4 DEF Nmt!ExpectsBoot, Nmt!Known, Nmt!PreparesWith, Nmt!Sends, Nmt!Goes, Moves,
       ToPrepare, NmtInv, NmtTypeOK
  <2>q. QED
    BY <1>9, <1>f, <1>s, <2>1, <2>2, <2>3, <2>4 DEF Nmt!WaitRemoteState
<1>q. QED
  BY <1>2, <1>3, <1>4, <1>5, <1>6, <1>7, <1>8, <1>9 DEF Nmt!Demo

(* Every step keeps the types.                                             *)
LEMMA NmtTypeStep ==
    ASSUME NmtInv, [Nmt!Next]_(Nmt!vars)
    PROVE  NmtTypeOK'
<1>u. ASSUME UNCHANGED <<phase, step, resetObserved, elapsed, verdict, remote, frame, heartbeat,
                         nmtState, hbState>>
      PROVE  NmtTypeOK'
  BY <1>u DEF NmtInv, NmtTypeOK
<1>0. CASE UNCHANGED Nmt!vars
  BY <1>0, <1>u DEF Nmt!vars, Nmt!testVars, Nmt!odVars, Nmt!hbVars, Nmt!netVars, Nmt!nodeVars
<1>1. CASE Nmt!FrameArrives
  <2>1. PICK number \in frame :
          IF number = Nmt!Prepare
          THEN remote' = "preop" /\ UNCHANGED <<heartbeat, executed>>
          ELSE IF Nmt!Steps[number].boot THEN Nmt!Boots
               ELSE remote' = Nmt!Steps[number].state /\ UNCHANGED heartbeat
    BY <1>1 DEF Nmt!FrameArrives
  <2>2. number \in 0 .. 6
    BY DEF NmtInv, NmtTypeOK
  <2>3. remote' \in Nmt!States /\ heartbeat' \in {"boot", heartbeat}
    <3>1. CASE number = Nmt!Prepare
      BY <2>1, <3>1 DEF Nmt!States
    <3>2. CASE number # Nmt!Prepare
      <4>1. number \in 1 .. 6
        BY <2>2, <3>2 DEF Nmt!Prepare
      <4>2. Nmt!Steps[number].state \in Nmt!States
        BY <4>1, StepState, BootState
      <4>q. QED
        BY <2>1, <3>2, <4>2 DEF Nmt!Boots, Nmt!States
    <3>q. QED
      BY <3>1, <3>2
  <2>4. frame' = {} /\ UNCHANGED <<phase, step, resetObserved, elapsed, verdict, nmtState, hbState>>
    BY <1>1 DEF Nmt!FrameArrives, Nmt!Outside, Nmt!testVars
  <2>q. QED
    BY <2>3, <2>4 DEF NmtInv, NmtTypeOK
<1>2. CASE Nmt!FrameIsLost \/ Nmt!RemoteHeartbeat \/ Nmt!RemoteMeddled
  <2>1. /\ frame' \in {frame, {}} /\ remote' \in Nmt!States
        /\ heartbeat' \in Nmt!States \cup {"boot", "none"}
    BY <1>2 DEF Nmt!FrameIsLost, Nmt!RemoteHeartbeat, Nmt!RemoteMeddled, Nmt!Boots, Nmt!netVars,
       NmtInv, NmtTypeOK, Nmt!States
  <2>2. UNCHANGED <<phase, step, resetObserved, elapsed, verdict, nmtState, hbState>>
    BY <1>2 DEF Nmt!FrameIsLost, Nmt!RemoteHeartbeat, Nmt!RemoteMeddled, Nmt!Outside, Nmt!testVars
  <2>q. QED
    BY <2>1, <2>2 DEF NmtInv, NmtTypeOK
<1>3. CASE Nmt!LocalNmt \/ Nmt!ExternalWrite
  BY <1>3, <1>u DEF Nmt!LocalNmt, Nmt!ExternalWrite, Nmt!testVars, Nmt!hbVars, Nmt!netVars
<1>4. ASSUME NEW gap \in 0 .. MaxGap, Nmt!CoProcess(gap) PROVE NmtTypeOK'
  <2>1. UNCHANGED <<phase, step, resetObserved, verdict, remote, frame>>
    BY <1>4 DEF Nmt!CoProcess, Nmt!netVars
  <2>2. elapsed' \in 0 .. Timeout
    BY <1>4, ServicesAssumption
       DEF Nmt!CoProcess, Nmt!TimerNext, Nmt!Least, NmtInv, NmtTypeOK, Nmt!NmtMasterTestAssumption
  <2>3. /\ heartbeat' = "none" /\ nmtState' \in Nmt!States \cup {"none"}
        /\ hbState' = "active" <=> nmtState' # "none"
    BY <1>4 DEF Nmt!CoProcess, Nmt!ServeConsumer, NmtInv, NmtTypeOK, Nmt!States
  <2>q. QED
    BY <2>1, <2>2, <2>3 DEF NmtInv, NmtTypeOK
<1>5. CASE Nmt!Demo
  <2>1. World /\ Moves
    BY <1>5, DemoMoves, DemoWorld
  <2>2. CASE Still
    <3>1. verdict' \in {verdict, "none", "finished", "failed"}
      BY <2>1 DEF Moves, Halted
    <3>q. QED
      BY <2>1, <2>2, <3>1 DEF World, Still, NmtInv, NmtTypeOK
  <2>3. CASE ~Still
    <3>1. verdict' = "none" /\ (ToOnline \/ ToPrepare \/ ToSend \/ Advance \/ Sent \/ Observed)
      BY <2>1, <2>3 DEF Moves, Halted
    <3>2. /\ phase' \in {"local", "online", "preop", "send", "state"} /\ step' \in 1 .. 7
          /\ phase' = "state" => step' <= 6
      BY <3>1 DEF ToOnline, ToPrepare, ToSend, Advance, Sent, Observed, NmtInv, NmtTypeOK
    <3>3. elapsed' \in 0 .. Timeout /\ frame' \subseteq 0 .. 6
      <4>1. elapsed' = elapsed \/ elapsed' = 0
        BY <3>1 DEF ToOnline, ToPrepare, ToSend, Advance, Sent, Observed
      <4>2. 0 \in 0 .. Timeout
        BY ServicesAssumption DEF Nmt!NmtMasterTestAssumption
      <4>3. frame' = frame \/ frame' = {Nmt!Prepare} \/ (frame' = {step} /\ step <= 6)
        BY <3>1 DEF ToOnline, ToPrepare, ToSend, Advance, Sent, Observed
      <4>4. Nmt!Prepare \in 0 .. 6 /\ (step <= 6 => step \in 0 .. 6)
        BY DEF Nmt!Prepare, NmtInv, NmtTypeOK
      <4>q. QED
        BY <4>1, <4>2, <4>3, <4>4 DEF NmtInv, NmtTypeOK
    <3>4. resetObserved' \in BOOLEAN
      <4>1. CASE Observed
        BY <4>1 DEF Observed
      <4>2. CASE ~Observed
        <5>1. resetObserved' = resetObserved \/ resetObserved' = FALSE \/ resetObserved' = TRUE
          BY <3>1, <4>2, Zenon DEF ToOnline, ToPrepare, ToSend, Advance, Sent, NmtInv, NmtTypeOK
        <5>q. QED
          BY <5>1 DEF NmtInv, NmtTypeOK
      <4>q. QED
        BY <4>1, <4>2
    <3>q. QED
      BY <2>1, <3>1, <3>2, <3>3, <3>4 DEF World, NmtInv, NmtTypeOK
  <2>q. QED
    BY <2>2, <2>3
<1>6. CASE Nmt!ResetPass
  BY <1>6, <1>u DEF Nmt!ResetPass, Nmt!testVars, Nmt!hbVars, Nmt!netVars
<1>7. CASE Nmt!DemoReset
  <2>1. elapsed' = 0 /\ 0 \in 0 .. Timeout
    BY <1>7, ServicesAssumption DEF Nmt!DemoReset, Nmt!NmtMasterTestAssumption
  <2>2. /\ phase' = "local" /\ step' = 1 /\ resetObserved' = FALSE /\ verdict' = "none"
        /\ frame' = {} /\ remote' = remote
        /\ hbState' = "unknown" /\ nmtState' = "none" /\ heartbeat' = "none"
    BY <1>7 DEF Nmt!DemoReset
  <2>3. resetObserved' \in BOOLEAN
    BY <2>2, Zenon
  <2>q. QED
    BY <2>1, <2>2, <2>3 DEF NmtInv, NmtTypeOK
<1>8. CASE Nmt!DemoBind
  <2>1. verdict' \in {verdict, "failed"} /\ UNCHANGED <<phase, step, resetObserved, elapsed, remote,
             frame, heartbeat, nmtState, hbState>>
    BY <1>8 DEF Nmt!DemoBind, Nmt!hbVars, Nmt!netVars
  <2>q. QED
    BY <2>1 DEF NmtInv, NmtTypeOK
<1>q. QED
  BY <1>0, <1>1, <1>2, <1>3, <1>4, <1>5, <1>6, <1>7, <1>8 DEF Nmt!Next

(* Every step leaves the entry to those whose it is.                       *)
LEMMA EntryStep ==
    ASSUME NmtInv, [Nmt!Next]_(Nmt!vars)
    PROVE  EntryInv'
<1>u. ASSUME UNCHANGED Nmt!odVars, nmtStage' = "bind" => nmtStage = "bind" PROVE EntryInv'
  BY <1>u DEF Nmt!odVars, EntryInv, Nmt!EntryIsReturned, NmtInv
<1>r. ASSUME Nmt!Restores, nmtStage' # "bind" PROVE EntryInv'
  BY <1>r DEF Nmt!Restores, Nmt!Returned, Nmt!NotReturned, Nmt!Gone, Nmt!Ours, EntryInv,
     Nmt!EntryIsReturned, NmtInv
<1>0. CASE UNCHANGED Nmt!vars
  BY <1>0, <1>u DEF Nmt!vars, Nmt!nodeVars
<1>1. CASE Nmt!FrameArrives \/ Nmt!FrameIsLost \/ Nmt!RemoteHeartbeat \/ Nmt!RemoteMeddled
  BY <1>1, <1>u DEF Nmt!FrameArrives, Nmt!FrameIsLost, Nmt!RemoteHeartbeat, Nmt!RemoteMeddled,
     Nmt!Outside, Nmt!nodeVars
<1>2. CASE Nmt!LocalNmt
  BY <1>2, <1>u DEF Nmt!LocalNmt
<1>3. CASE Nmt!ExternalWrite
  BY <1>3 DEF Nmt!ExternalWrite, Nmt!nodeVars, EntryInv, Nmt!EntryIsReturned, NmtInv
<1>4. ASSUME NEW gap \in 0 .. MaxGap, Nmt!CoProcess(gap) PROVE EntryInv'
  BY <1>4, <1>u DEF Nmt!CoProcess
<1>5. CASE Nmt!Demo
  <2>1. nmtStage' = "idle"
    BY <1>5 DEF Nmt!Demo, Nmt!Suspended, Nmt!Disowned, Nmt!WaitLocalOperational,
       Nmt!WaitRemoteOnline, Nmt!WaitRemotePreop,
       Nmt!Complete, Nmt!SendCommand, Nmt!WaitRemoteState, Nmt!At, Nmt!Running, Nmt!Pass
  <2>2. UNCHANGED Nmt!odVars \/ Nmt!Restores
    BY <1>5 DEF Nmt!Demo, Nmt!Suspended, Nmt!Disowned, Nmt!WaitLocalOperational,
       Nmt!WaitRemoteOnline, Nmt!WaitRemotePreop,
       Nmt!Complete, Nmt!SendCommand, Nmt!WaitRemoteState, Nmt!Stays, Nmt!Fails, Nmt!End,
           Nmt!Passed, Nmt!PreparesWith
  <2>q. QED
    BY <2>1, <2>2, <1>u, <1>r
<1>6. CASE Nmt!ResetPass
  BY <1>6, <1>r DEF Nmt!ResetPass
<1>7. CASE Nmt!DemoReset
  BY <1>7 DEF Nmt!DemoReset, Nmt!Returned, Nmt!Gone, Nmt!Ours, EntryInv, Nmt!EntryIsReturned, NmtInv
<1>8. CASE Nmt!DemoBind
  BY <1>8 DEF Nmt!DemoBind, EntryInv, Nmt!EntryIsReturned, NmtInv
<1>q. QED
  BY <1>0, <1>1, <1>2, <1>3, <1>4, <1>5, <1>6, <1>7, <1>8 DEF Nmt!Next

(* Only the end of the last step passes the test.                          *)
LEMMA EarnedStep ==
    ASSUME NmtInv, [Nmt!Next]_(Nmt!vars)
    PROVE  Nmt!PassIsEarned'
<1>u. ASSUME UNCHANGED <<verdict, executed, meddled>> PROVE Nmt!PassIsEarned'
  BY <1>u DEF NmtInv, Nmt!PassIsEarned
<1>v. ASSUME verdict' # "finished" PROVE Nmt!PassIsEarned'
  BY <1>v DEF Nmt!PassIsEarned
<1>0. CASE UNCHANGED Nmt!vars
  BY <1>0, <1>u DEF Nmt!vars, Nmt!testVars, Nmt!netVars
<1>1. CASE Nmt!FrameArrives \/ Nmt!FrameIsLost \/ Nmt!RemoteHeartbeat \/ Nmt!RemoteMeddled \/
    Nmt!LocalNmt
  BY <1>1, <1>v DEF Nmt!FrameArrives, Nmt!FrameIsLost, Nmt!RemoteHeartbeat, Nmt!RemoteMeddled,
     Nmt!LocalNmt, Nmt!Outside,
     Nmt!testVars
<1>2. CASE Nmt!ExternalWrite \/ Nmt!ResetPass
  BY <1>2, <1>u DEF Nmt!ExternalWrite, Nmt!ResetPass, Nmt!testVars, Nmt!netVars
<1>3. ASSUME NEW gap \in 0 .. MaxGap, Nmt!CoProcess(gap) PROVE Nmt!PassIsEarned'
  BY <1>3, <1>u DEF Nmt!CoProcess, Nmt!netVars
<1>4. CASE Nmt!Demo
  <2>1. World /\ Moves
    BY <1>4, DemoMoves, DemoWorld
  <2>2. CASE verdict = "none" /\ verdict' = "finished" /\ phase = "send" /\ step > 6
    <3>1. ~meddled => executed = 1 .. 6
      <4>1. step = 7
        BY <2>2 DEF NmtInv, NmtTypeOK
      <4>2. ~meddled => Done(step - 1)
        BY <2>2 DEF NmtInv, TrackInv, Sending
      <4>q. QED
        BY <4>1, <4>2 DEF Done
    <3>q. QED
      BY <2>1, <3>1, StepsAre DEF World, Nmt!PassIsEarned
  <2>q. QED
    BY <2>1, <2>2, <1>u, <1>v DEF World, Moves, Halted
<1>5. CASE Nmt!DemoReset
  BY <1>5, <1>v DEF Nmt!DemoReset
<1>6. CASE Nmt!DemoBind
  BY <1>6, <1>u, <1>v DEF Nmt!DemoBind, Nmt!netVars
<1>q. QED
  BY <1>0, <1>1, <1>2, <1>3, <1>4, <1>5, <1>6 DEF Nmt!Next

(* What the invariant says in a phase.                                     *)
NmtPhaseInv ==
    /\ phase \in {"local", "online"} => Waiting
    /\ phase = "preop" => Preparing
    /\ phase = "send" => Sending
    /\ phase = "state" => IF Nmt!BootRequired(step) THEN BootInv ELSE CommandInv

(* A frame that arrives, one that is lost, and a heartbeat.                *)
LEMMA ArrivalStep ==
    ASSUME NmtInv, Nmt!FrameArrives, ~meddled, NmtPhaseInv
    PROVE  NmtPhaseInv'
<1>1. /\ frame # {} /\ frame' = {}
      /\ UNCHANGED <<phase, step, resetObserved, nmtState, hbState>>
  BY DEF Nmt!FrameArrives, Nmt!Outside, Nmt!testVars
<1>2. phase \in {"preop", "state"}
  BY <1>1 DEF NmtPhaseInv, NmtInv, NmtTypeOK, Waiting, Sending
<1>3. CASE phase = "preop"
  <2>1. frame = {Nmt!Prepare}
    BY <1>1, <1>3 DEF NmtPhaseInv, Preparing
  <2>2. remote' = "preop" /\ UNCHANGED <<heartbeat, executed>>
    BY <2>1 DEF Nmt!FrameArrives
  <2>q. QED
    BY <1>1, <1>3, <2>2 DEF NmtPhaseInv, Preparing, Aims, Done
<1>4. CASE phase = "state"
  <2>1. step \in 1 .. 6 /\ frame = {step} /\ step # Nmt!Prepare
    <3>1. step \in 1 .. 6 /\ step # Nmt!Prepare
      BY <1>4 DEF NmtInv, NmtTypeOK, Nmt!Prepare
    <3>2. frame \subseteq {step}
      BY <1>4 DEF NmtPhaseInv, CommandInv, BootInv
    <3>q. QED
      BY <1>1, <3>1, <3>2
  <2>2. /\ executed' = executed \cup {step}
        /\ IF Nmt!BootRequired(step) THEN Nmt!Boots
           ELSE remote' = Nmt!Steps[step].state /\ UNCHANGED heartbeat
    BY <2>1 DEF Nmt!FrameArrives, Nmt!BootRequired
  <2>3. /\ ~resetObserved /\ Done(step - 1)
        /\ Nmt!BootRequired(step) => hbState # "unknown"
    BY <1>1, <1>4, <2>1 DEF NmtPhaseInv, CommandInv, BootInv
  <2>4. Done(step)'
    <3>1. executed = 1 .. step - 1 /\ executed' = executed \cup {step} /\ step' = step
      BY <1>1, <2>2, <2>3 DEF Done
    <3>2. (1 .. step - 1) \cup {step} = 1 .. step
      BY <2>1
    <3>q. QED
      BY <3>1, <3>2 DEF Done
  <2>5. CASE Nmt!BootRequired(step)
    BY <1>1, <1>4, <2>3, <2>4, <2>5 DEF NmtPhaseInv, BootInv
  <2>6. CASE ~Nmt!BootRequired(step)
    <3>1. Aims(Nmt!Steps[step].state)'
      BY <1>1, <1>4, <2>2, <2>6 DEF NmtPhaseInv, CommandInv, Aims
    <3>q. QED
      BY <1>1, <1>4, <2>2, <2>3, <2>4, <2>6, <3>1 DEF NmtPhaseInv, CommandInv
  <2>q. QED
    BY <2>5, <2>6
<1>q. QED
  BY <1>2, <1>3, <1>4

LEMMA LossStep ==
    ASSUME NmtInv, Nmt!FrameIsLost, NmtPhaseInv
    PROVE  NmtPhaseInv'
<1>1. frame' = {} /\ UNCHANGED <<phase, step, resetObserved, nmtState, hbState, remote, executed,
                                 heartbeat>>
  BY DEF Nmt!FrameIsLost, Nmt!Outside, Nmt!testVars
<1>q. QED
  BY <1>1 DEF NmtPhaseInv, Waiting, Preparing, Sending, CommandInv, BootInv, Aims, Truthful,
     Done, From

LEMMA HeartbeatStep ==
    ASSUME NmtInv, Nmt!RemoteHeartbeat, NmtPhaseInv
    PROVE  NmtPhaseInv'
<1>1. heartbeat' = remote /\ UNCHANGED <<phase, step, resetObserved, nmtState, hbState, remote,
                                         executed, frame>>
  BY DEF Nmt!RemoteHeartbeat, Nmt!Outside, Nmt!testVars, Nmt!netVars
<1>2. remote # "boot" /\ remote # "none"
  BY DEF NmtInv, NmtTypeOK, Nmt!States
<1>q. QED
  BY <1>1, <1>2 DEF NmtPhaseInv, Waiting, Preparing, Sending, CommandInv, BootInv, Aims,
     Truthful, Done,
     From

(* The consumer takes what has been received.                              *)
LEMMA ServeStep ==
    ASSUME NmtInv, NEW gap \in 0 .. MaxGap, Nmt!CoProcess(gap), active, wasActive, NmtPhaseInv
    PROVE  NmtPhaseInv'
<1>1. heartbeat' = "none" /\ UNCHANGED <<phase, step, resetObserved, remote, executed, frame>>
  BY DEF Nmt!CoProcess, Nmt!ServeConsumer, Nmt!netVars
<1>2. \/ heartbeat = "boot" /\ nmtState' = "none"
      \/ heartbeat \in Nmt!States /\ nmtState' = heartbeat /\ hbState' = "active"
      \/ heartbeat = "none" /\ nmtState' \in {nmtState, "none"} /\ hbState' \in {hbState, "timeout"}
  BY DEF Nmt!CoProcess, Nmt!ServeConsumer
<1>3. /\ Truthful => Truthful'
      /\ remote \in Nmt!States /\ step \in 1 .. 7 /\ (phase = "state" => step \in 1 .. 6)
  BY <1>1, <1>2 DEF Truthful, NmtInv, NmtTypeOK, Nmt!States
<1>4. \A target \in Nmt!States : Aims(target) => Aims(target)'
  BY <1>1, <1>2 DEF Aims, Nmt!States
<1>5. CASE phase \in {"local", "online"}
  BY <1>1, <1>3, <1>5 DEF NmtPhaseInv, Waiting, Done
<1>6. CASE phase = "preop"
  BY <1>1, <1>4, <1>6 DEF NmtPhaseInv, Preparing, Done, Nmt!States
<1>7. CASE phase = "send"
  BY <1>1, <1>3, <1>7 DEF NmtPhaseInv, Sending, Done, From
<1>8. CASE phase = "state" /\ Nmt!BootRequired(step)
  <2>1. BootInv
    BY <1>8 DEF NmtPhaseInv
  <2>2. CASE ~resetObserved /\ Done(step - 1) /\ hbState # "unknown" /\ heartbeat # "boot"
    BY <1>1, <1>2, <1>8, <2>1, <2>2 DEF NmtPhaseInv, BootInv, Done
  <2>3. CASE Done(step) /\ frame = {} /\ (resetObserved \/ hbState = "unknown" => Truthful)
    <3>1. resetObserved' \/ hbState' = "unknown" => Truthful'
      <4>1. CASE heartbeat = "boot"
        BY <1>1, <1>2, <4>1, <1>3 DEF Truthful, Nmt!States
      <4>2. CASE heartbeat # "boot"
        BY <1>1, <1>2, <1>3, <2>3, <4>2
      <4>q. QED
        BY <4>1, <4>2
    <3>q. QED
      BY <1>1, <1>8, <2>3, <3>1 DEF NmtPhaseInv, BootInv, Done
  <2>q. QED
    BY <2>1, <2>2, <2>3 DEF BootInv
<1>9. CASE phase = "state" /\ ~Nmt!BootRequired(step)
  <2>1. CommandInv /\ Nmt!Steps[step].state \in Nmt!States
    BY <1>3, <1>9, StepState, BootState DEF NmtPhaseInv
  <2>2. Aims(Nmt!Steps[step].state)'
    BY <1>1, <1>4, <2>1 DEF CommandInv, Aims
  <2>q. QED
    BY <1>1, <1>9, <2>1, <2>2 DEF NmtPhaseInv, CommandInv, Done
<1>q. QED
  BY <1>1, <1>5, <1>6, <1>7, <1>8, <1>9 DEF NmtInv, NmtTypeOK

(* The moves of the test.                                                  *)
LEMMA MoveStep ==
    ASSUME NmtInv, World, NmtPhaseInv, ToOnline \/ ToPrepare \/ ToSend \/ Advance \/ Sent \/
        Observed
    PROVE  NmtPhaseInv'
<1>0. UNCHANGED <<hbState, nmtState, heartbeat, remote, executed>>
  BY DEF World
<1>t. /\ remote \in Nmt!States /\ nmtState \in Nmt!States \cup {"none"} /\ step \in 1 .. 7
      /\ phase = "state" => step \in 1 .. 6
      /\ hbState = "active" <=> nmtState # "none"
      /\ phase \in {"local", "online", "preop", "send", "state"} /\ resetObserved \in BOOLEAN
  BY DEF NmtInv, NmtTypeOK
<1>1. CASE ToOnline
  BY <1>0, <1>1 DEF ToOnline, NmtPhaseInv, Waiting, Truthful, Done
<1>2. CASE ToPrepare
  <2>1. CASE phase = "online"
    BY <1>0, <1>2, <2>1, <1>t
       DEF ToPrepare, NmtPhaseInv, Waiting, Truthful, Done, Preparing, Aims, Nmt!States
  <2>2. CASE phase = "state"
    <3>1. Nmt!BootRequired(step) /\ resetObserved /\ resetObserved' /\ BootInv
          /\ nmtState # "preop" /\ nmtState # "none"
      <4>1. Nmt!BootRequired(step) /\ resetObserved /\ resetObserved' /\
          nmtState # Nmt!Steps[step].state
            /\ nmtState # "none"
        BY <1>2, <2>2 DEF ToPrepare
      <4>2. Nmt!Steps[step].state = "preop"
        BY <1>t, <2>2, <4>1, StepState, BootState
      <4>q. QED
        BY <2>2, <4>1, <4>2 DEF NmtPhaseInv
    <3>2. Done(step) /\ Truthful
      BY <3>1 DEF BootInv
    <3>3. remote # "preop" /\ heartbeat # "preop" /\ heartbeat # "boot"
      BY <3>1, <3>2, <1>t DEF Truthful, Nmt!States
    <3>q. QED
      BY <1>0, <1>2, <1>t, <2>2, <3>1, <3>2, <3>3 DEF ToPrepare, NmtPhaseInv, Preparing, Aims, Done
  <2>q. QED
    BY <1>2, <2>1, <2>2 DEF ToPrepare
<1>3. CASE ToSend
  <2>1. CASE phase = "online"
    BY <1>0, <1>3, <2>1, <1>t DEF ToSend, NmtPhaseInv, Waiting, Truthful, Done, Sending, From,
       Nmt!States
  <2>2. CASE phase = "preop"
    <3>1. ~resetObserved /\ step = 1 /\ Done(0) /\ Aims("preop") /\ (remote = "preop" => frame = {})
      BY <1>3, <2>2 DEF ToSend, NmtPhaseInv, Preparing
    <3>2. remote = "preop" /\ frame = {} /\ Truthful
      BY <1>3, <3>1 DEF ToSend, Aims, Truthful
    <3>q. QED
      BY <1>0, <1>3, <2>2, <3>1, <3>2 DEF ToSend, NmtPhaseInv, Sending, From, Done, Truthful
  <2>q. QED
    BY <1>3, <2>1, <2>2 DEF ToSend
<1>4. CASE Advance
  <2>1. step \in 1 .. 6 /\ Done(step) /\ remote = Nmt!Steps[step].state /\ Truthful /\ frame = {}
    <3>1. CASE phase = "preop"
      <4>1. Nmt!BootRequired(step) /\ nmtState = "preop" /\ step \in 1 .. 6 /\ resetObserved
        BY <1>4, <3>1, <1>t DEF Advance
      <4>2. Done(step) /\ Aims("preop") /\ (remote = "preop" => frame = {})
        BY <3>1, <4>1 DEF NmtPhaseInv, Preparing
      <4>q. QED
        <5>1. Nmt!Steps[step].state = "preop"
          BY <4>1, StepState, BootState
        <5>q. QED
          BY <4>1, <4>2, <5>1 DEF Aims, Truthful
    <3>2. CASE phase = "state" /\ Nmt!BootRequired(step)
      <4>1. resetObserved /\ nmtState = Nmt!Steps[step].state /\ BootInv /\ nmtState # "none"
        <5>1. Nmt!Steps[step].state = "preop"
          BY <1>t, <3>2, StepState, BootState
        <5>q. QED
          BY <1>4, <3>2, <5>1 DEF Advance, NmtPhaseInv
      <4>q. QED
        BY <4>1, <3>2, <1>t DEF BootInv, Truthful
    <3>3. CASE phase = "state" /\ ~Nmt!BootRequired(step)
      <4>1. nmtState = Nmt!Steps[step].state /\ CommandInv
        BY <1>4, <3>3 DEF Advance, NmtPhaseInv
      <4>q. QED
        BY <4>1, <3>3, <1>t DEF CommandInv, Aims, Truthful
    <3>q. QED
      BY <1>4, <3>1, <3>2, <3>3 DEF Advance
  <2>2. phase' = "send" /\ step' = step + 1 /\ ~resetObserved' /\ frame' = {}
    BY <1>4, <2>1 DEF Advance
  <2>3. step' - 1 = step /\ step' # 1
    BY <2>1, <2>2
  <2>4. Done(step - 1)' /\ Truthful' /\ remote' = Nmt!Steps[step' - 1].state
    <3>1. Nmt!Steps[step' - 1].state = Nmt!Steps[step].state
      BY <2>3
    <3>2. executed' = 1 .. step
      BY <1>0, <2>1 DEF Done
    <3>3. Truthful' /\ remote' = Nmt!Steps[step].state
      BY <1>0, <2>1 DEF Truthful
    <3>q. QED
      BY <2>3, <3>1, <3>2, <3>3 DEF Done
  <2>5. From(step') = Nmt!Steps[step' - 1].state
    BY <2>3 DEF From
  <2>6. Sending'
    BY <2>2, <2>4, <2>5 DEF Sending, From
  <2>q. QED
    BY <2>2, <2>6 DEF NmtPhaseInv
<1>5. CASE Sent
  <2>1. Sending /\ step \in 1 .. 6 /\ hbState = "active" /\ nmtState \in Nmt!States /\
      nmtState = remote
    BY <1>5, <1>t DEF Sent, NmtPhaseInv, Sending, Truthful
  <2>2. CASE Nmt!BootRequired(step)
    BY <1>0, <1>5, <2>1, <2>2, <1>t
       DEF Sent, NmtPhaseInv, BootInv, Sending, Done, Truthful, Nmt!States
  <2>3. CASE ~Nmt!BootRequired(step)
    <3>1. nmtState # Nmt!Steps[step].state /\ heartbeat \in {"none", remote}
      BY <1>5, <2>1, <2>3 DEF Sent, Sending, Truthful
    <3>2. Aims(Nmt!Steps[step].state) /\ remote # Nmt!Steps[step].state
      <4>1. remote # Nmt!Steps[step].state /\ Nmt!Steps[step].state \in Nmt!States /\
          remote \in Nmt!States
        BY <2>1, <3>1, StepState, BootState
      <4>2. heartbeat # "boot" /\ heartbeat # Nmt!Steps[step].state
        BY <3>1, <4>1 DEF Nmt!States
      <4>q. QED
        BY <2>1, <3>1, <4>1, <4>2 DEF Aims
    <3>q. QED
      BY <1>0, <1>5, <2>1, <2>3, <3>2 DEF Sent, NmtPhaseInv, CommandInv, Sending, Done, Aims
  <2>q. QED
    BY <2>2, <2>3
<1>6. CASE Observed
  <2>1. BootInv /\ phase' = "state" /\ step' = step /\ frame' = frame /\ Nmt!BootRequired(step)
        /\ ~resetObserved /\ resetObserved' = (hbState = "unknown")
    BY <1>6 DEF Observed, NmtPhaseInv
  <2>2. BootInv'
    BY <1>0, <2>1 DEF BootInv, Done, Truthful
  <2>q. QED
    BY <2>1, <2>2 DEF NmtPhaseInv
<1>q. QED
  BY <1>1, <1>2, <1>3, <1>4, <1>5, <1>6

(* Every step keeps what is known true to what was done.                   *)
LEMMA TrackStep ==
    ASSUME NmtInv, [Nmt!Next]_(Nmt!vars)
    PROVE  TrackInv'
<1>v. ASSUME verdict' # "none" \/ meddled' PROVE TrackInv'
  BY <1>v DEF TrackInv
<1>u. ASSUME UNCHANGED <<verdict, meddled, active, wasActive, phase, step, resetObserved, frame,
                         heartbeat, nmtState, hbState, remote, executed>>
      PROVE  TrackInv'
  BY <1>u DEF NmtInv, TrackInv, Waiting, Preparing, Sending, CommandInv, BootInv, Aims, Truthful,
     Done,
     From
<1>p. ASSUME verdict = "none", ~meddled PROVE active /\ wasActive /\ NmtPhaseInv
  BY <1>p DEF NmtInv, TrackInv, NmtPhaseInv
<1>g. ASSUME active', wasActive', NmtPhaseInv' PROVE TrackInv'
  BY <1>g DEF TrackInv, NmtPhaseInv
<1>0. CASE UNCHANGED Nmt!vars
  BY <1>0, <1>u DEF Nmt!vars, Nmt!testVars, Nmt!odVars, Nmt!hbVars, Nmt!netVars, Nmt!nodeVars
<1>1. CASE Nmt!FrameArrives
  BY <1>1, <1>p, <1>g, <1>v, ArrivalStep DEF Nmt!FrameArrives, Nmt!Outside, Nmt!nodeVars
<1>2. CASE Nmt!FrameIsLost
  BY <1>2, <1>p, <1>g, <1>v, LossStep DEF Nmt!FrameIsLost, Nmt!Outside, Nmt!nodeVars
<1>3. CASE Nmt!RemoteHeartbeat
  BY <1>3, <1>p, <1>g, <1>v, HeartbeatStep
     DEF Nmt!RemoteHeartbeat, Nmt!Outside, Nmt!nodeVars, Nmt!netVars
<1>4. CASE Nmt!RemoteMeddled \/ Nmt!LocalNmt
  BY <1>4, <1>v DEF Nmt!RemoteMeddled, Nmt!LocalNmt
<1>5. CASE Nmt!ExternalWrite \/ Nmt!ResetPass
  BY <1>5, <1>u DEF Nmt!ExternalWrite, Nmt!ResetPass, Nmt!testVars, Nmt!hbVars, Nmt!netVars,
     Nmt!nodeVars
<1>6. ASSUME NEW gap \in 0 .. MaxGap, Nmt!CoProcess(gap) PROVE TrackInv'
  <2>1. UNCHANGED <<verdict, meddled, active>> /\ wasActive' = active
    BY <1>6 DEF Nmt!CoProcess, Nmt!ServeConsumer, Nmt!netVars
  <2>2. CASE verdict = "none" /\ ~meddled
    BY <1>6, <1>p, <1>g, <2>1, <2>2, ServeStep
  <2>q. QED
    BY <1>v, <2>1, <2>2
<1>7. CASE Nmt!Demo
  <2>1. World /\ Moves
    BY <1>7, DemoMoves, DemoWorld
  <2>2. CASE Still /\ UNCHANGED verdict
    BY <1>u, <2>1, <2>2 DEF World, Still
  <2>3. CASE Halted
    BY <1>v, <2>3 DEF Halted
  <2>4. CASE meddled
    BY <1>v, <2>1, <2>4 DEF World
  <2>5. CASE /\ verdict = "none" /\ ~meddled
             /\ ToOnline \/ ToPrepare \/ ToSend \/ Advance \/ Sent \/ Observed
    BY <1>p, <1>g, <2>1, <2>5, MoveStep DEF World
  <2>q. QED
    BY <2>1, <2>2, <2>3, <2>4, <2>5 DEF Moves
<1>8. CASE Nmt!DemoReset
  BY <1>8 DEF Nmt!DemoReset, TrackInv, Waiting, Truthful, Done
<1>9. CASE Nmt!DemoBind
  BY <1>9, <1>u, <1>v DEF Nmt!DemoBind, Nmt!hbVars, Nmt!netVars
<1>q. QED
  BY <1>0, <1>1, <1>2, <1>3, <1>4, <1>5, <1>6, <1>7, <1>8, <1>9 DEF Nmt!Next


LEMMA NmtStarts == Nmt!Init => NmtInv
<1> SUFFICES ASSUME Nmt!Init PROVE NmtInv
  OBVIOUS
<1>1. NmtTypeOK
  <2>1. elapsed = 0 /\ 0 \in 0 .. Timeout
    BY ServicesAssumption DEF Nmt!Init, Nmt!Fresh, Nmt!NmtMasterTestAssumption
  <2>2. /\ phase = "local" /\ step = 1 /\ resetObserved = FALSE /\ verdict = "none"
        /\ frame = {} /\ remote \in Nmt!States
        /\ hbState = "unknown" /\ nmtState = "none" /\ heartbeat = "none"
    BY DEF Nmt!Init, Nmt!Fresh
  <2>3. resetObserved \in BOOLEAN
    BY <2>2, Zenon
  <2>q. QED
    BY <2>1, <2>2, <2>3 DEF NmtTypeOK
<1>2. EntryInv
  BY DEF Nmt!Init, EntryInv, Nmt!EntryIsReturned
<1>3. TrackInv /\ Nmt!PassIsEarned
  BY DEF Nmt!Init, Nmt!Fresh, TrackInv, Waiting, Truthful, Done, Nmt!PassIsEarned
<1>q. QED
  BY <1>1, <1>2, <1>3 DEF NmtInv

LEMMA NmtInvariant == Spec => []NmtInv
<1>1. NmtInv /\ [Nmt!Next]_(Nmt!vars) => NmtInv'
  BY NmtTypeStep, EntryStep, TrackStep, EarnedStep DEF NmtInv
<1>q. QED
  BY <1>1, NmtStarts, Starts, Steps, PTL DEF Spec

(* A passed test was earned, the borrowed entry is given back, and co_main *)
(* is not told to sleep through the end of a waiting time                  *)
(* (CO_demo_nmt_master.c).                                                 *)
THEOREM NmtTestsAreSound == Spec => []Nmt!NmtTestIsSound
<1>1. NmtInv => Nmt!NmtTestIsSound
  BY ServicesAssumption
     DEF NmtInv, NmtTypeOK, EntryInv, Nmt!NmtTestIsSound, Nmt!EndIsNotSlept,
         Nmt!NmtMasterTestAssumption
<1>q. QED
  BY <1>1, NmtInvariant, PTL

-----------------------------------------------------------------------------
(***************************************************************************)
(* The SDO client test.  A request is consumed once, in the order in which *)
(* it was committed, and completed after it was begun: a number that is    *)
(* complete and newest belongs to the transfer that ended last.  Of the    *)
(* bytes of a transfer none is lost between the FIFO and the two ends.     *)
(***************************************************************************)

(* The numbers follow one another.                                         *)
OrderInv ==
    /\ sdoRequestSeq \in Nat /\ lastConsumed \in Nat /\ activeSeq \in Nat /\ sdoCompleteSeq \in Nat
    /\ sdoCompleteSeq <= activeSeq /\ activeSeq <= lastConsumed /\ lastConsumed <= sdoRequestSeq
    /\ running => sdoCompleteSeq < activeSeq
    /\ sdoStage \in {"reset", "bind"} => ~running

(* What 16#2303 shows is what is so.                                       *)
PublishedInv == sdoPublished = [active |-> activeSeq, complete |-> sdoCompleteSeq,
    result |-> sdoResult]

(* The bytes of a transfer: those one end has given are in the FIFO or at  *)
(* the other.                                                              *)
BytesInv ==
    /\ request \in Sdo!Kinds /\ latched \in Sdo!Kinds
    /\ byteOffset \in Nat /\ atServer \in Nat /\ announced \in Nat /\ inFifo \in 0 .. Fifo
    /\ latched = "upload" => byteOffset + inFifo = atServer
    /\ latched = "download" => atServer + inFifo = byteOffset /\ byteOffset <= Payload

(* A result is of the transfer that ended last, and true of it.            *)
OutcomeInv ==
    /\ running => latched \in {"upload", "download"}
    /\ ~running =>
        /\ sdoResult = "SUCCESS" => inFifo = 0 /\ byteOffset = atServer /\ Sdo!Agreed
        /\ sdoResult = "INTERNAL_ERROR" => ~Sdo!Agreed
        /\ sdoResult = "UNSUPPORTED" => latched = "unsupported"

(* What waits or runs was committed to this stack.                         *)
StackInv ==
    /\ sdoRequestSeq # lastConsumed => committedIn = generation
    /\ Sdo!NoReplay

SdoInv == OrderInv /\ PublishedInv /\ BytesInv /\ OutcomeInv /\ StackInv

LEMMA SdoConstants == Payload \in Nat \ {0} /\ Chunk \in Nat \ {0} /\ Fifo \in Nat \ {0}
BY ServicesAssumption DEF ServicesAssumption, Sdo!SdoClientTestAssumption

LEMMA NoneLeft ==
    ASSUME NEW given \in Nat, NEW passed \in Nat, NEW rest \in 0 .. Fifo, passed + rest = given
    PROVE  given = passed <=> rest = 0
BY SdoConstants

LEMMA AllPassed ==
    ASSUME NEW given \in Nat, NEW passed \in Nat, NEW rest \in 0 .. Fifo, passed + rest = given,
           given <= Payload, passed = Payload
    PROVE  given = Payload
BY SdoConstants

(* A step of a transfer: it goes on or ends, and leaves the requests alone. *)
LEMMA TransferStep ==
    ASSUME Sdo!UploadStep \/ Sdo!DownloadStep
    PROVE  /\ running /\ sdoStage \in {"pass", "first"} /\ sdoStage' = "pass"
           /\ UNCHANGED <<sdoRequestSeq, request, committedIn, lastConsumed, activeSeq, latched,
                          startedIn, generation, announced>>
           /\ \/ UNCHANGED <<running, sdoResult, sdoCompleteSeq>>
              \/ ~running' /\ sdoCompleteSeq' = activeSeq'
           /\ Sdo!Publish
<1>1. CASE Sdo!UploadStep
  <2>1. Sdo!Working("upload") /\ UNCHANGED announced /\ Sdo!Publish
    BY <1>1 DEF Sdo!UploadStep
  <2>2. \/ Sdo!GoesOn \/ Sdo!Breaks
        \/ \E outcome : Sdo!Finish(outcome)
    BY <1>1 DEF Sdo!UploadStep
  <2>3. \/ UNCHANGED <<running, sdoResult, sdoCompleteSeq>>
        \/ ~running' /\ sdoCompleteSeq' = activeSeq'
    BY <2>2 DEF Sdo!GoesOn, Sdo!Breaks, Sdo!Finish
  <2>4. /\ running /\ sdoStage \in {"pass", "first"} /\ sdoStage' = "pass"
        /\ UNCHANGED <<sdoRequestSeq, request, committedIn, lastConsumed, activeSeq, latched,
                       startedIn, generation, announced>>
    BY <2>1, SMT DEF Sdo!Working, Sdo!requestVars
  <2>q. QED
    BY <2>1, <2>3, <2>4, Zenon
<1>2. CASE Sdo!DownloadStep
  <2>1. Sdo!Working("download") /\ UNCHANGED announced /\ Sdo!Publish
    BY <1>2 DEF Sdo!DownloadStep
  <2>2. \/ Sdo!GoesOn \/ Sdo!Breaks
        \/ \E outcome : Sdo!Finish(outcome)
    BY <1>2 DEF Sdo!DownloadStep
  <2>3. \/ UNCHANGED <<running, sdoResult, sdoCompleteSeq>>
        \/ ~running' /\ sdoCompleteSeq' = activeSeq'
    BY <2>2 DEF Sdo!GoesOn, Sdo!Breaks, Sdo!Finish
  <2>4. /\ running /\ sdoStage \in {"pass", "first"} /\ sdoStage' = "pass"
        /\ UNCHANGED <<sdoRequestSeq, request, committedIn, lastConsumed, activeSeq, latched,
                       startedIn, generation, announced>>
    BY <2>1, SMT DEF Sdo!Working, Sdo!requestVars
  <2>q. QED
    BY <2>1, <2>3, <2>4, Zenon
<1>q. QED
  BY <1>1, <1>2

(* Every step keeps the order of the numbers.                              *)
LEMMA OrderStep ==
    ASSUME SdoInv, [Sdo!Next]_(Sdo!vars)
    PROVE  OrderInv'
<1>0. CASE UNCHANGED Sdo!vars
  BY <1>0 DEF Sdo!vars, Sdo!requestVars, Sdo!seqVars, Sdo!moveVars, Sdo!seenVars, OrderInv, SdoInv
<1>1. CASE Sdo!WriteField
  BY <1>1 DEF Sdo!WriteField, Sdo!seqVars, Sdo!moveVars, Sdo!seenVars, OrderInv, SdoInv
<1>2. CASE Sdo!Commit
  BY <1>2 DEF Sdo!Commit, Sdo!seqVars, Sdo!moveVars, Sdo!seenVars, OrderInv, SdoInv
<1>3. CASE Sdo!Latch
  BY <1>3 DEF Sdo!Latch, Sdo!Finish, Sdo!Publish, Sdo!requestVars, OrderInv, SdoInv
<1>4. CASE Sdo!UploadStep \/ Sdo!DownloadStep
  BY <1>4, TransferStep DEF OrderInv, SdoInv
<1>6. CASE Sdo!ResetPass
  BY <1>6 DEF Sdo!ResetPass, Sdo!Cancel, Sdo!Consume, Sdo!Publish, Sdo!requestVars, Sdo!moveVars,
     Sdo!Finish,
     Sdo!GoesOn, OrderInv, SdoInv
<1>7. CASE Sdo!Reset
  BY <1>7 DEF Sdo!Reset, Sdo!Cancel, Sdo!Consume, Sdo!Publish, Sdo!requestVars, Sdo!moveVars,
     Sdo!Finish, Sdo!GoesOn,
     OrderInv, SdoInv
<1>8. CASE Sdo!Bind
  BY <1>8 DEF Sdo!Bind, Sdo!Consume, Sdo!requestVars, Sdo!moveVars, Sdo!Publish, OrderInv, SdoInv
<1>q. QED
  BY <1>0, <1>1, <1>2, <1>3, <1>4, <1>6, <1>7, <1>8 DEF Sdo!Next

(* Every step publishes what it did.                                       *)
LEMMA PublishedStep ==
    ASSUME SdoInv, [Sdo!Next]_(Sdo!vars)
    PROVE  PublishedInv'
<1>0. CASE UNCHANGED Sdo!vars
  BY <1>0 DEF Sdo!vars, Sdo!requestVars, Sdo!seqVars, Sdo!moveVars, Sdo!seenVars, PublishedInv,
     SdoInv
<1>1. CASE Sdo!WriteField \/ Sdo!Commit
  BY <1>1 DEF Sdo!WriteField, Sdo!Commit, Sdo!seqVars, Sdo!moveVars, Sdo!seenVars, PublishedInv,
     SdoInv
<1>2. CASE Sdo!Latch
  BY <1>2 DEF Sdo!Latch, Sdo!Finish, Sdo!Publish, Sdo!requestVars, PublishedInv, SdoInv
<1>3. CASE Sdo!UploadStep \/ Sdo!DownloadStep
  BY <1>3, TransferStep DEF Sdo!Publish, PublishedInv, SdoInv
<1>5. CASE Sdo!ResetPass
  BY <1>5 DEF Sdo!ResetPass, Sdo!Cancel, Sdo!Consume, Sdo!Publish, Sdo!requestVars, Sdo!moveVars,
     Sdo!Finish,
     Sdo!GoesOn, PublishedInv, SdoInv
<1>6. CASE Sdo!Reset
  BY <1>6 DEF Sdo!Reset, Sdo!Cancel, Sdo!Consume, Sdo!Publish, Sdo!requestVars, Sdo!moveVars,
     Sdo!Finish, Sdo!GoesOn,
     PublishedInv, SdoInv
<1>7. CASE Sdo!Bind
  BY <1>7 DEF Sdo!Bind, Sdo!Consume, Sdo!requestVars, Sdo!moveVars, Sdo!Publish, PublishedInv,
     SdoInv
<1>q. QED
  BY <1>0, <1>1, <1>2, <1>3, <1>5, <1>6, <1>7 DEF Sdo!Next

(* No step loses a byte.                                                   *)
LEMMA BytesStep ==
    ASSUME SdoInv, [Sdo!Next]_(Sdo!vars)
    PROVE  BytesInv'
<1> USE SdoConstants
<1>0. CASE UNCHANGED Sdo!vars
  BY <1>0 DEF Sdo!vars, Sdo!requestVars, Sdo!seqVars, Sdo!moveVars, BytesInv, SdoInv
<1>1. CASE Sdo!WriteField \/ Sdo!Commit
  BY <1>1 DEF Sdo!WriteField, Sdo!Commit, Sdo!seqVars, Sdo!moveVars, BytesInv, SdoInv
<1>2. CASE Sdo!Latch
  <2>1. latched' = request /\ request' = request
    BY <1>2 DEF Sdo!Latch, Sdo!requestVars
  <2>2. byteOffset' = 0 /\ inFifo' = 0 /\ atServer' = 0
    BY <1>2 DEF Sdo!Latch
  <2>3. announced' \in Nat
    BY <1>2 DEF Sdo!Latch
  <2>q. QED
    BY <2>1, <2>2, <2>3 DEF BytesInv, SdoInv
<1>3. CASE Sdo!UploadStep
  <2>1. PICK bytes \in 0 .. Sdo!Least(Fifo - inFifo, Payload - atServer) :
      /\ atServer' = atServer + bytes
      /\ \/ inFifo' = inFifo + bytes /\ byteOffset' = byteOffset
         \/ byteOffset' = byteOffset + inFifo + bytes /\ inFifo' = 0
    BY <1>3 DEF Sdo!UploadStep, Sdo!Drained, Sdo!Least, BytesInv, SdoInv
  <2>2. /\ latched = "upload" /\ UNCHANGED <<latched, request, announced>>
    BY <1>3 DEF Sdo!UploadStep, Sdo!Working, Sdo!requestVars
  <2>3. bytes \in Nat /\ bytes <= Fifo - inFifo
    BY <2>1 DEF Sdo!Least, BytesInv, SdoInv
  <2>q. QED
    BY <2>1, <2>2, <2>3 DEF BytesInv, SdoInv
<1>4. CASE Sdo!DownloadStep
  <2> DEFINE added == Sdo!Least(Sdo!Least(Payload - byteOffset, Chunk), Fifo - inFifo)
  <2>1. latched = "download" /\ UNCHANGED <<latched, request, announced>>
    BY <1>4 DEF Sdo!DownloadStep, Sdo!Working, Sdo!requestVars
  <2>2. added \in Nat /\ added <= Payload - byteOffset /\ added <= Fifo - inFifo
    BY <2>1 DEF Sdo!Least, BytesInv, SdoInv
  <2>3. /\ byteOffset' = byteOffset + added
        /\ \E bytes \in 0 .. inFifo + added :
            atServer' = atServer + bytes /\ inFifo' = inFifo + added - bytes
    BY <1>4 DEF Sdo!DownloadStep
  <2> HIDE DEF added
  <2>q. QED
    BY <2>1, <2>2, <2>3 DEF BytesInv, SdoInv
<1>5. CASE Sdo!ResetPass \/ Sdo!Reset \/ Sdo!Bind
  BY <1>5 DEF Sdo!ResetPass, Sdo!Reset, Sdo!Bind, Sdo!requestVars, Sdo!moveVars, BytesInv, SdoInv
<1>q. QED
  BY <1>0, <1>1, <1>2, <1>3, <1>4, <1>5 DEF Sdo!Next

(* No step shows a result that is not so.                                  *)
LEMMA OutcomeStep ==
    ASSUME SdoInv, [Sdo!Next]_(Sdo!vars)
    PROVE  OutcomeInv'
<1> USE DEF Sdo!Agreed
<1>0. CASE UNCHANGED Sdo!vars
  BY <1>0 DEF Sdo!vars, Sdo!requestVars, Sdo!seqVars, Sdo!moveVars, OutcomeInv, SdoInv
<1>1. CASE Sdo!WriteField \/ Sdo!Commit
  BY <1>1 DEF Sdo!WriteField, Sdo!Commit, Sdo!seqVars, Sdo!moveVars, OutcomeInv, SdoInv
<1>2. CASE Sdo!Latch
  BY <1>2 DEF Sdo!Latch, Sdo!Finish, OutcomeInv, SdoInv
<1>3. CASE Sdo!UploadStep
  <2>1. /\ latched = "upload" /\ latched' = latched /\ announced' = announced
        /\ running /\ BytesInv'
    BY <1>3, BytesStep, TransferStep DEF Sdo!UploadStep, Sdo!Working
  <2>2. CASE Sdo!GoesOn \/ Sdo!Breaks
    BY <2>1, <2>2 DEF Sdo!GoesOn, Sdo!Breaks, Sdo!Finish, SdoInv, OutcomeInv
  <2>3. CASE ~(Sdo!GoesOn \/ Sdo!Breaks)
    <3>1. Sdo!Finish(IF Sdo!UploadFits THEN "SUCCESS" ELSE "INTERNAL_ERROR")
      BY <1>3, <2>3 DEF Sdo!UploadStep
    <3>2. inFifo' = 0
      <4>1. PICK bytes \in 0 .. Sdo!Least(Fifo - inFifo, Payload - atServer) :
          inFifo' = (inFifo + bytes) - Sdo!Drained(inFifo + bytes)
        BY <1>3, <2>3, Zenon DEF Sdo!UploadStep
      <4>q. QED
        BY <4>1, SdoConstants DEF Sdo!Drained, BytesInv, SdoInv
    <3>3. byteOffset' = atServer' /\ atServer' \in Nat /\ announced' \in Nat
      <4>1. /\ byteOffset' \in Nat /\ atServer' \in Nat /\ announced' \in Nat
            /\ inFifo' \in 0 .. Fifo /\ byteOffset' + inFifo' = atServer'
        BY <2>1 DEF BytesInv
      <4>q. QED
        BY <3>2, <4>1, NoneLeft, Zenon
    <3>4. ~running' /\ sdoResult' = IF Sdo!Agreed' THEN "SUCCESS" ELSE "INTERNAL_ERROR"
      BY <2>1, <3>1, <3>3 DEF Sdo!Finish, Sdo!UploadFits
    <3>q. QED
      BY <3>2, <3>3, <3>4 DEF OutcomeInv
  <2>q. QED
    BY <2>2, <2>3
<1>4. CASE Sdo!DownloadStep
  <2>1. latched = "download" /\ latched' = latched /\ running /\ BytesInv'
    BY <1>4, BytesStep, TransferStep DEF Sdo!DownloadStep, Sdo!Working
  <2>2. CASE Sdo!GoesOn \/ Sdo!Breaks
    BY <2>1, <2>2 DEF Sdo!GoesOn, Sdo!Breaks, Sdo!Finish, SdoInv, OutcomeInv
  <2>3. CASE ~(Sdo!GoesOn \/ Sdo!Breaks)
    <3>1. Sdo!Finish(IF Sdo!DownloadFits THEN "SUCCESS" ELSE "INTERNAL_ERROR")
      BY <1>4, <2>3 DEF Sdo!DownloadStep
    <3>2. Sdo!Agreed' <=> atServer' = Payload
      BY <2>1
    <3>3. /\ atServer' = Payload => byteOffset' = Payload
          /\ byteOffset' = atServer' => inFifo' = 0
      <4>1. /\ byteOffset' \in Nat /\ atServer' \in Nat /\ inFifo' \in 0 .. Fifo
            /\ atServer' + inFifo' = byteOffset' /\ byteOffset' <= Payload
        BY <2>1 DEF BytesInv
      <4>q. QED
        BY <4>1, NoneLeft, AllPassed, Zenon
    <3> HIDE DEF Sdo!Agreed
    <3>q. QED
      BY <3>1, <3>2, <3>3 DEF Sdo!Finish, Sdo!DownloadFits, OutcomeInv
  <2>q. QED
    BY <2>2, <2>3
<1>5. CASE Sdo!ResetPass \/ Sdo!Reset
  BY <1>5 DEF Sdo!ResetPass, Sdo!Reset, Sdo!Cancel, Sdo!moveVars, Sdo!Finish, Sdo!GoesOn,
     OutcomeInv, SdoInv
<1>6. CASE Sdo!Bind
  BY <1>6 DEF Sdo!Bind, Sdo!moveVars, OutcomeInv, SdoInv, OrderInv
<1>q. QED
  BY <1>0, <1>1, <1>2, <1>3, <1>4, <1>5, <1>6 DEF Sdo!Next

(* No step takes a request to another stack.                               *)
LEMMA StackStep ==
    ASSUME SdoInv, [Sdo!Next]_(Sdo!vars)
    PROVE  StackInv'
<1>0. CASE UNCHANGED Sdo!vars
  BY <1>0 DEF Sdo!vars, Sdo!requestVars, Sdo!seqVars, Sdo!moveVars, Sdo!seenVars, StackInv,
     Sdo!NoReplay, SdoInv,
     OrderInv
<1>1. CASE Sdo!WriteField
  BY <1>1 DEF Sdo!WriteField, Sdo!seqVars, Sdo!moveVars, Sdo!seenVars, StackInv, Sdo!NoReplay,
     SdoInv,
     OrderInv
<1>2. CASE Sdo!Commit
  BY <1>2 DEF Sdo!Commit, Sdo!seqVars, Sdo!moveVars, Sdo!seenVars, StackInv, Sdo!NoReplay,
     SdoInv, OrderInv
<1>3. CASE Sdo!Latch
  BY <1>3 DEF Sdo!Latch, Sdo!Finish, Sdo!Publish, Sdo!requestVars, StackInv, Sdo!NoReplay,
     SdoInv, OrderInv
<1>4. CASE Sdo!UploadStep \/ Sdo!DownloadStep
  BY <1>4, TransferStep DEF StackInv, Sdo!NoReplay, SdoInv, OrderInv
<1>6. CASE Sdo!ResetPass
  BY <1>6 DEF Sdo!ResetPass, Sdo!Cancel, Sdo!Consume, Sdo!Publish, Sdo!requestVars, Sdo!moveVars,
     Sdo!Finish,
     Sdo!GoesOn, StackInv, Sdo!NoReplay, SdoInv, OrderInv
<1>7. CASE Sdo!Reset
  BY <1>7 DEF Sdo!Reset, Sdo!Cancel, Sdo!Consume, Sdo!Publish, Sdo!requestVars, Sdo!moveVars,
     Sdo!Finish, Sdo!GoesOn,
     StackInv, Sdo!NoReplay, SdoInv, OrderInv
<1>8. CASE Sdo!Bind
  BY <1>8 DEF Sdo!Bind, Sdo!Consume, Sdo!requestVars, Sdo!moveVars, Sdo!Publish, StackInv,
     Sdo!NoReplay, SdoInv,
     OrderInv
<1>q. QED
  BY <1>0, <1>1, <1>2, <1>3, <1>4, <1>6, <1>7, <1>8 DEF Sdo!Next

LEMMA SdoStarts == Sdo!Init => SdoInv
BY ServicesAssumption
DEF Sdo!Init, SdoInv, OrderInv, PublishedInv, BytesInv, OutcomeInv, StackInv,
    Sdo!NoReplay, Sdo!SdoClientTestAssumption

LEMMA SdoInvariant == Spec => []SdoInv
<1>1. SdoInv /\ [Sdo!Next]_(Sdo!vars) => SdoInv'
  BY OrderStep, PublishedStep, BytesStep, OutcomeStep, StackStep DEF SdoInv
<1>q. QED
  BY <1>1, SdoStarts, Starts, Steps, PTL DEF Spec

(* A client that finds its request complete reads that request's result,   *)
(* and no request is carried out by a stack it was not committed to        *)
(* (CO_demo_sdo_client.c).                                                 *)
THEOREM SdoTestsAreSound == Spec => []Sdo!SdoTestIsSound
<1>1. SdoInv => Sdo!SdoTestIsSound
  <2> SUFFICES ASSUME SdoInv PROVE Sdo!SdoTestIsSound
    OBVIOUS
  <2>1. sdoPublished.complete = sdoCompleteSeq /\ sdoPublished.active = activeSeq
        /\ sdoPublished.result = sdoResult
    BY DEF SdoInv, PublishedInv
  <2>2. ASSUME sdoCompleteSeq = sdoRequestSeq PROVE activeSeq = sdoRequestSeq /\ ~running
    BY <2>2 DEF SdoInv, OrderInv
  <2>q. QED
    BY <2>1, <2>2 DEF SdoInv, OutcomeInv, StackInv, Sdo!SdoTestIsSound, Sdo!ResultIsOwn
<1>q. QED
  BY <1>1, SdoInvariant, PTL

-----------------------------------------------------------------------------
(***************************************************************************)
(* The storage test.  A back-up is valid only as it was taken: a read that *)
(* fails takes its validity with it, and nothing else writes the buffer.   *)
(***************************************************************************)

(* The bytes of the device and of the back-up, and the lengths.            *)
StoreTypeOK ==
    /\ eeprom \in [Store!Addresses -> 0 .. 1] /\ backupRaw \in [Store!Addresses -> 0 .. 1]
    /\ entryLength \in 0 .. Cells /\ backupLength \in 0 .. Cells
    /\ backupValid \in BOOLEAN /\ pending \in BOOLEAN /\ stale \in BOOLEAN
    /\ storageStage \in {"pass", "reset"}

(* A request waits only for the stack it was committed to.                 *)
RequestInv == pending => storageStage = "pass" /\ ~stale

TestInv == StoreTypeOK /\ RequestInv /\ Store!BackupIsBaseline

(* Every step keeps the types.                                             *)
LEMMA StoreTypeStep ==
    ASSUME TestInv, [Store!Next]_(Store!vars)
    PROVE  StoreTypeOK'
<1>0. CASE UNCHANGED Store!vars
  BY <1>0 DEF Store!vars, Store!deviceVars, Store!backupVars, Store!requestVars, StoreTypeOK,
     Store!Addresses, TestInv,
     Store!StorageTestAssumption
<1>1. CASE Store!Commit
  BY <1>1, ServicesAssumption DEF Store!Commit, Store!backupVars, StoreTypeOK, Store!Addresses,
     TestInv,
     Store!StorageTestAssumption
<1>2. CASE Store!OtherWrite
  <2>1. (eeprom \in [Store!Addresses -> 0 .. 1])'
    BY <1>2, ServicesAssumption
       DEF Store!OtherWrite, Store!Addresses, Store!backupVars, Store!requestVars,
       StoreTypeOK, TestInv, Store!StorageTestAssumption
  <2>2. (backupRaw \in [Store!Addresses -> 0 .. 1])'
    BY <1>2, ServicesAssumption
       DEF Store!OtherWrite, Store!Addresses, Store!backupVars, Store!requestVars,
       StoreTypeOK, TestInv, Store!StorageTestAssumption
  <2>3. (entryLength \in 0 .. Cells)'
    BY <1>2, ServicesAssumption
       DEF Store!OtherWrite, Store!Addresses, Store!backupVars, Store!requestVars,
       StoreTypeOK, TestInv, Store!StorageTestAssumption
  <2>4. (backupLength \in 0 .. Cells)'
    BY <1>2, ServicesAssumption
       DEF Store!OtherWrite, Store!Addresses, Store!backupVars, Store!requestVars,
       StoreTypeOK, TestInv, Store!StorageTestAssumption
  <2>5. (backupValid \in BOOLEAN)'
    BY <1>2, ServicesAssumption
       DEF Store!OtherWrite, Store!Addresses, Store!backupVars, Store!requestVars,
       StoreTypeOK, TestInv, Store!StorageTestAssumption
  <2>6. (pending \in BOOLEAN)'
    BY <1>2, ServicesAssumption
       DEF Store!OtherWrite, Store!Addresses, Store!backupVars, Store!requestVars,
       StoreTypeOK, TestInv, Store!StorageTestAssumption
  <2>7. (stale \in BOOLEAN)'
    BY <1>2, ServicesAssumption
       DEF Store!OtherWrite, Store!Addresses, Store!backupVars, Store!requestVars,
       StoreTypeOK, TestInv, Store!StorageTestAssumption
  <2>8. (storageStage \in {"pass", "reset"})'
    BY <1>2, ServicesAssumption
       DEF Store!OtherWrite, Store!Addresses, Store!backupVars, Store!requestVars,
       StoreTypeOK, TestInv, Store!StorageTestAssumption
  <2>q. QED
    BY <2>1, <2>2, <2>3, <2>4, <2>5, <2>6, <2>7, <2>8 DEF StoreTypeOK
<1>3. CASE Store!Refused
  BY <1>3, ServicesAssumption DEF Store!Refused, Store!Answer, Store!Untouched, Store!backupVars,
     StoreTypeOK,
     Store!Addresses, TestInv, Store!StorageTestAssumption
<1>4. CASE Store!Refresh
  BY <1>4, ServicesAssumption DEF Store!Refresh, Store!LayoutSound, Store!Answer,
     Store!Untouched, Store!backupVars,
     StoreTypeOK, Store!Addresses, TestInv, Store!StorageTestAssumption
<1>5. CASE Store!Backup
  <2>1. (eeprom \in [Store!Addresses -> 0 .. 1])'
    BY <1>5, ServicesAssumption
       DEF Store!Backup, Store!LayoutSound, Store!Addresses, Store!Area, Store!Answer,
       Store!Invalid, StoreTypeOK, TestInv, Store!StorageTestAssumption
  <2>2. (backupRaw \in [Store!Addresses -> 0 .. 1])'
    BY <1>5, ServicesAssumption
       DEF Store!Backup, Store!LayoutSound, Store!Addresses, Store!Area, Store!Answer,
       Store!Invalid, StoreTypeOK, TestInv, Store!StorageTestAssumption
  <2>3. (entryLength \in 0 .. Cells)'
    BY <1>5, ServicesAssumption
       DEF Store!Backup, Store!LayoutSound, Store!Addresses, Store!Area, Store!Answer,
       Store!Invalid, StoreTypeOK, TestInv, Store!StorageTestAssumption
  <2>4. (backupLength \in 0 .. Cells)'
    BY <1>5, ServicesAssumption
       DEF Store!Backup, Store!LayoutSound, Store!Addresses, Store!Area, Store!Answer,
       Store!Invalid, StoreTypeOK, TestInv, Store!StorageTestAssumption
  <2>5. (backupValid \in BOOLEAN)'
    BY <1>5, ServicesAssumption
       DEF Store!Backup, Store!LayoutSound, Store!Addresses, Store!Area, Store!Answer,
       Store!Invalid, StoreTypeOK, TestInv, Store!StorageTestAssumption
  <2>6. (pending \in BOOLEAN)'
    BY <1>5, ServicesAssumption
       DEF Store!Backup, Store!LayoutSound, Store!Addresses, Store!Area, Store!Answer,
       Store!Invalid, StoreTypeOK, TestInv, Store!StorageTestAssumption
  <2>7. (stale \in BOOLEAN)'
    BY <1>5, ServicesAssumption
       DEF Store!Backup, Store!LayoutSound, Store!Addresses, Store!Area, Store!Answer,
       Store!Invalid, StoreTypeOK, TestInv, Store!StorageTestAssumption
  <2>8. (storageStage \in {"pass", "reset"})'
    BY <1>5, ServicesAssumption
       DEF Store!Backup, Store!LayoutSound, Store!Addresses, Store!Area, Store!Answer,
       Store!Invalid, StoreTypeOK, TestInv, Store!StorageTestAssumption
  <2>q. QED
    BY <2>1, <2>2, <2>3, <2>4, <2>5, <2>6, <2>7, <2>8 DEF StoreTypeOK
<1>6. CASE Store!Restore
  <2>1. (eeprom \in [Store!Addresses -> 0 .. 1])'
    BY <1>6, ServicesAssumption
       DEF Store!Restore, Store!LayoutSound, Store!Usable, Store!Answer, Store!Written,
       Store!Verified, Store!backupVars, Store!Area, Store!Addresses, StoreTypeOK, TestInv,
           Store!StorageTestAssumption
  <2>2. (backupRaw \in [Store!Addresses -> 0 .. 1])'
    BY <1>6, ServicesAssumption
       DEF Store!Restore, Store!LayoutSound, Store!Usable, Store!Answer, Store!Written,
       Store!Verified, Store!backupVars, Store!Area, Store!Addresses, StoreTypeOK, TestInv,
           Store!StorageTestAssumption
  <2>3. (entryLength \in 0 .. Cells)'
    BY <1>6, ServicesAssumption
       DEF Store!Restore, Store!LayoutSound, Store!Usable, Store!Answer, Store!Written,
       Store!Verified, Store!backupVars, Store!Area, Store!Addresses, StoreTypeOK, TestInv,
           Store!StorageTestAssumption
  <2>4. (backupLength \in 0 .. Cells)'
    BY <1>6, ServicesAssumption
       DEF Store!Restore, Store!LayoutSound, Store!Usable, Store!Answer, Store!Written,
       Store!Verified, Store!backupVars, Store!Area, Store!Addresses, StoreTypeOK, TestInv,
           Store!StorageTestAssumption
  <2>5. (backupValid \in BOOLEAN)'
    BY <1>6, ServicesAssumption
       DEF Store!Restore, Store!LayoutSound, Store!Usable, Store!Answer, Store!Written,
       Store!Verified, Store!backupVars, Store!Area, Store!Addresses, StoreTypeOK, TestInv,
           Store!StorageTestAssumption
  <2>6. (pending \in BOOLEAN)'
    BY <1>6, ServicesAssumption
       DEF Store!Restore, Store!LayoutSound, Store!Usable, Store!Answer, Store!Written,
       Store!Verified, Store!backupVars, Store!Area, Store!Addresses, StoreTypeOK, TestInv,
           Store!StorageTestAssumption
  <2>7. (stale \in BOOLEAN)'
    BY <1>6, ServicesAssumption
       DEF Store!Restore, Store!LayoutSound, Store!Usable, Store!Answer, Store!Written,
       Store!Verified, Store!backupVars, Store!Area, Store!Addresses, StoreTypeOK, TestInv,
           Store!StorageTestAssumption
  <2>8. (storageStage \in {"pass", "reset"})'
    BY <1>6, ServicesAssumption
       DEF Store!Restore, Store!LayoutSound, Store!Usable, Store!Answer, Store!Written,
       Store!Verified, Store!backupVars, Store!Area, Store!Addresses, StoreTypeOK, TestInv,
           Store!StorageTestAssumption
  <2>q. QED
    BY <2>1, <2>2, <2>3, <2>4, <2>5, <2>6, <2>7, <2>8 DEF StoreTypeOK
<1>7. CASE Store!Change
  <2>0. \A n \in 0 .. 1 : 1 - n \in 0 .. 1
    OBVIOUS
  <2>1. (eeprom \in [Store!Addresses -> 0 .. 1])'
    <3>1. PICK a \in Store!Area(entryLength) : eeprom' \in {eeprom, [eeprom EXCEPT ![a] = 1 - @]}
      BY <1>7 DEF Store!Change
    <3>2. a \in Store!Addresses /\ eeprom \in [Store!Addresses -> 0 .. 1]
      BY ServicesAssumption DEF TestInv, StoreTypeOK, Store!Area, Store!Addresses,
         Store!StorageTestAssumption
    <3>q. QED
      BY <3>1, <3>2, <2>0
  <2>2. (backupRaw \in [Store!Addresses -> 0 .. 1])'
    BY <1>7, ServicesAssumption
       DEF Store!Change, Store!LayoutSound, Store!Area, Store!Answer, Store!backupVars,
       StoreTypeOK, TestInv, Store!StorageTestAssumption
  <2>3. (entryLength \in 0 .. Cells)'
    BY <1>7, ServicesAssumption
       DEF Store!Change, Store!LayoutSound, Store!Area, Store!Answer, Store!backupVars,
       StoreTypeOK, TestInv, Store!StorageTestAssumption
  <2>4. (backupLength \in 0 .. Cells)'
    BY <1>7, ServicesAssumption
       DEF Store!Change, Store!LayoutSound, Store!Area, Store!Answer, Store!backupVars,
       StoreTypeOK, TestInv, Store!StorageTestAssumption
  <2>5. (backupValid \in BOOLEAN)'
    BY <1>7, ServicesAssumption
       DEF Store!Change, Store!LayoutSound, Store!Area, Store!Answer, Store!backupVars,
       StoreTypeOK, TestInv, Store!StorageTestAssumption
  <2>6. (pending \in BOOLEAN)'
    BY <1>7, ServicesAssumption
       DEF Store!Change, Store!LayoutSound, Store!Area, Store!Answer, Store!backupVars,
       StoreTypeOK, TestInv, Store!StorageTestAssumption
  <2>7. (stale \in BOOLEAN)'
    BY <1>7, ServicesAssumption
       DEF Store!Change, Store!LayoutSound, Store!Area, Store!Answer, Store!backupVars,
       StoreTypeOK, TestInv, Store!StorageTestAssumption
  <2>8. (storageStage \in {"pass", "reset"})'
    BY <1>7, ServicesAssumption
       DEF Store!Change, Store!LayoutSound, Store!Area, Store!Answer, Store!backupVars,
       StoreTypeOK, TestInv, Store!StorageTestAssumption
  <2>q. QED
    BY <2>1, <2>2, <2>3, <2>4, <2>5, <2>6, <2>7, <2>8 DEF StoreTypeOK
<1>8. CASE Store!Clear
  <2>1. (eeprom \in [Store!Addresses -> 0 .. 1])'
    BY <1>8, ServicesAssumption DEF Store!Clear, Store!Answer, StoreTypeOK, TestInv,
       Store!StorageTestAssumption
  <2>2. (backupRaw \in [Store!Addresses -> 0 .. 1])'
    BY <1>8, ServicesAssumption DEF Store!Clear, Store!Answer, StoreTypeOK, TestInv,
       Store!StorageTestAssumption
  <2>3. (entryLength \in 0 .. Cells)'
    BY <1>8, ServicesAssumption DEF Store!Clear, Store!Answer, StoreTypeOK, TestInv,
       Store!StorageTestAssumption
  <2>4. (backupLength \in 0 .. Cells)'
    BY <1>8, ServicesAssumption DEF Store!Clear, Store!Answer, StoreTypeOK, TestInv,
       Store!StorageTestAssumption
  <2>5. (backupValid \in BOOLEAN)'
    BY <1>8, ServicesAssumption DEF Store!Clear, Store!Answer, StoreTypeOK, TestInv,
       Store!StorageTestAssumption
  <2>6. (pending \in BOOLEAN)'
    BY <1>8, ServicesAssumption DEF Store!Clear, Store!Answer, StoreTypeOK, TestInv,
       Store!StorageTestAssumption
  <2>7. (stale \in BOOLEAN)'
    BY <1>8, ServicesAssumption DEF Store!Clear, Store!Answer, StoreTypeOK, TestInv,
       Store!StorageTestAssumption
  <2>8. (storageStage \in {"pass", "reset"})'
    BY <1>8, ServicesAssumption DEF Store!Clear, Store!Answer, StoreTypeOK, TestInv,
       Store!StorageTestAssumption
  <2>q. QED
    BY <2>1, <2>2, <2>3, <2>4, <2>5, <2>6, <2>7, <2>8 DEF StoreTypeOK
<1>9. CASE Store!Reset
  BY <1>9, ServicesAssumption DEF Store!Reset, Store!Consumed, Store!deviceVars,
     Store!backupVars, StoreTypeOK,
     Store!Addresses, TestInv, Store!StorageTestAssumption
<1>10. CASE Store!OnBackendInit
  BY <1>10, ServicesAssumption DEF Store!OnBackendInit, Store!backupVars, StoreTypeOK,
     Store!Addresses,
     TestInv, Store!StorageTestAssumption
<1>q. QED
  BY <1>0, <1>1, <1>2, <1>3, <1>4, <1>5, <1>6, <1>7, <1>8, <1>9, <1>10 DEF Store!Next, Store!Process

(* Every step keeps requests with their stack.                             *)
LEMMA RequestStep ==
    ASSUME TestInv, [Store!Next]_(Store!vars)
    PROVE  RequestInv'
<1>0. CASE UNCHANGED Store!vars
  BY <1>0 DEF Store!vars, Store!deviceVars, Store!backupVars, Store!requestVars, RequestInv,
     TestInv, StoreTypeOK,
     Store!StorageTestAssumption
<1>1. CASE Store!OtherWrite
  BY <1>1 DEF Store!OtherWrite, Store!backupVars, Store!requestVars, RequestInv, TestInv,
     StoreTypeOK,
     Store!StorageTestAssumption
<1>2. CASE Store!Commit
  BY <1>2, ServicesAssumption DEF Store!Commit, Store!backupVars, RequestInv, TestInv, StoreTypeOK,
     Store!StorageTestAssumption
<1>3. CASE Store!Refused
  BY <1>3, ServicesAssumption DEF Store!Refused, Store!Answer, Store!Untouched, Store!backupVars,
     RequestInv,
     TestInv, StoreTypeOK, Store!StorageTestAssumption
<1>4. CASE Store!Refresh
  BY <1>4, ServicesAssumption DEF Store!Refresh, Store!LayoutSound, Store!Answer,
     Store!Untouched, Store!backupVars,
     RequestInv, TestInv, StoreTypeOK, Store!StorageTestAssumption
<1>5. CASE Store!Backup
  BY <1>5, ServicesAssumption DEF Store!Backup, Store!LayoutSound, Store!Addresses, Store!Area,
     Store!Answer, Store!Invalid,
     RequestInv, TestInv, StoreTypeOK, Store!StorageTestAssumption
<1>6. CASE Store!Restore
  BY <1>6, ServicesAssumption DEF Store!Restore, Store!LayoutSound, Store!Usable, Store!Answer,
     Store!Written,
     Store!Verified, Store!backupVars, Store!Area, Store!Addresses, RequestInv, TestInv,
         StoreTypeOK,
     Store!StorageTestAssumption
<1>7. CASE Store!Change
  BY <1>7, ServicesAssumption DEF Store!Change, Store!LayoutSound, Store!Area, Store!Answer,
     Store!backupVars,
     RequestInv, TestInv, StoreTypeOK, Store!StorageTestAssumption
<1>8. CASE Store!Clear
  BY <1>8, ServicesAssumption DEF Store!Clear, Store!Answer, RequestInv, TestInv, StoreTypeOK,
     Store!StorageTestAssumption
<1>9. CASE Store!Reset
  BY <1>9, ServicesAssumption DEF Store!Reset, Store!Consumed, Store!deviceVars,
     Store!backupVars, RequestInv,
     TestInv, StoreTypeOK, Store!StorageTestAssumption
<1>10. CASE Store!OnBackendInit
  BY <1>10, ServicesAssumption DEF Store!OnBackendInit, Store!backupVars, RequestInv, TestInv,
     StoreTypeOK, Store!StorageTestAssumption
<1>q. QED
  BY <1>0, <1>1, <1>2, <1>3, <1>4, <1>5, <1>6, <1>7, <1>8, <1>9, <1>10 DEF Store!Next, Store!Process

(* No step spoils a valid back-up.                                         *)
LEMMA BackupStep ==
    ASSUME TestInv, [Store!Next]_(Store!vars)
    PROVE  Store!BackupIsBaseline'
<1>0. CASE UNCHANGED Store!vars
  BY <1>0 DEF Store!vars, Store!deviceVars, Store!backupVars, Store!requestVars,
     Store!BackupIsBaseline, Store!Area, TestInv,
     StoreTypeOK, Store!StorageTestAssumption
<1>1. CASE Store!Commit
  BY <1>1 DEF Store!Commit, Store!Answer, Store!Refused, Store!Untouched, Store!Refresh,
     Store!Reset, Store!OnBackendInit, Store!backupVars, Store!deviceVars,
     Store!requestVars, Store!BackupIsBaseline, TestInv, Store!Area
<1>2. CASE Store!OtherWrite
  BY <1>2 DEF Store!OtherWrite, Store!Answer, Store!Refused, Store!Untouched, Store!Refresh,
     Store!Reset, Store!OnBackendInit, Store!backupVars, Store!deviceVars,
     Store!requestVars, Store!BackupIsBaseline, TestInv, Store!Area
<1>3. CASE Store!Refused
  BY <1>3 DEF Store!Refused, Store!Answer, Store!Refused, Store!Untouched, Store!Refresh,
     Store!Reset, Store!OnBackendInit, Store!backupVars, Store!deviceVars,
     Store!requestVars, Store!BackupIsBaseline, TestInv, Store!Area
<1>4. CASE Store!Refresh
  BY <1>4 DEF Store!Refresh, Store!Answer, Store!Refused, Store!Untouched, Store!Refresh,
     Store!Reset, Store!OnBackendInit, Store!backupVars, Store!deviceVars,
     Store!requestVars, Store!BackupIsBaseline, TestInv, Store!Area
<1>5. CASE Store!Backup
  BY <1>5, ServicesAssumption DEF Store!Backup, Store!LayoutSound, Store!Addresses, Store!Area,
     Store!Answer, Store!Invalid,
     Store!BackupIsBaseline, TestInv, StoreTypeOK, Store!StorageTestAssumption
<1>6. CASE Store!Restore
  BY <1>6 DEF Store!Restore, Store!Answer, Store!Refused, Store!Untouched, Store!Refresh,
     Store!Reset, Store!OnBackendInit, Store!backupVars, Store!deviceVars,
     Store!requestVars, Store!BackupIsBaseline, TestInv, Store!Area
<1>7. CASE Store!Change
  BY <1>7 DEF Store!Change, Store!Answer, Store!Refused, Store!Untouched, Store!Refresh,
     Store!Reset, Store!OnBackendInit, Store!backupVars, Store!deviceVars,
     Store!requestVars, Store!BackupIsBaseline, TestInv, Store!Area
<1>8. CASE Store!Clear
  BY <1>8, ServicesAssumption DEF Store!Clear, Store!Answer, Store!BackupIsBaseline, Store!Area,
     TestInv,
     StoreTypeOK, Store!StorageTestAssumption
<1>9. CASE Store!Reset
  BY <1>9 DEF Store!Reset, Store!Answer, Store!Refused, Store!Untouched, Store!Refresh,
     Store!Reset, Store!OnBackendInit, Store!backupVars, Store!deviceVars,
     Store!requestVars, Store!BackupIsBaseline, TestInv, Store!Area
<1>10. CASE Store!OnBackendInit
  BY <1>10 DEF Store!OnBackendInit, Store!Answer, Store!Refused, Store!Untouched, Store!Refresh,
     Store!Reset, Store!OnBackendInit, Store!backupVars, Store!deviceVars,
     Store!requestVars, Store!BackupIsBaseline, TestInv, Store!Area
<1>q. QED
  BY <1>0, <1>1, <1>2, <1>3, <1>4, <1>5, <1>6, <1>7, <1>8, <1>9, <1>10 DEF Store!Next, Store!Process

LEMMA StoreStarts == Store!Init => TestInv
<1> SUFFICES ASSUME Store!Init PROVE TestInv
  OBVIOUS
<1>1. eeprom \in [Store!Addresses -> 0 .. 1] /\ backupRaw \in [Store!Addresses -> 0 .. 1]
  BY DEF Store!Init
<1>2. 0 \in 0 .. Cells
  BY ServicesAssumption DEF Store!StorageTestAssumption
<1>3. StoreTypeOK
  BY <1>1, <1>2 DEF Store!Init, StoreTypeOK
<1>q. QED
  BY <1>3 DEF Store!Init, TestInv, RequestInv, Store!BackupIsBaseline

LEMMA StoreInvariant == Spec => []TestInv
<1>1. TestInv /\ [Store!Next]_(Store!vars) => TestInv'
  BY StoreTypeStep, RequestStep, BackupStep DEF TestInv
<1>q. QED
  BY <1>1, StoreStarts, Starts, Steps, PTL DEF Spec

(* A valid back-up is what the EEPROM held when the client was told so,    *)
(* and nothing is carried out for a client of the old stack                *)
(* (CO_demo_storage.c).                                                    *)
THEOREM BackupsAreTrue == Spec => [](Store!BackupIsBaseline /\ Store!NothingIsReplayed)
<1>1. TestInv => Store!BackupIsBaseline /\ Store!NothingIsReplayed
  BY DEF TestInv, RequestInv, Store!NothingIsReplayed
<1>q. QED
  BY <1>1, StoreInvariant, PTL

(* A restore that reports success has brought that back-up back, and       *)
(* touches no byte outside the entry (CO_demo_storage_restore()).          *)
THEOREM RestoresAreHonest == Spec => Store!RestoreIsHonest
<1>1. TestInv /\ [Store!Next]_(Store!vars) =>
        [Store!Restore =>
           /\ storageResult' = "SUCCESS" => [a \in Store!Area(entryLength) |-> eeprom'[a]] =
               baseline
           /\ \A a \in Store!Addresses \ Store!Area(entryLength) : eeprom'[a] =
               eeprom[a]]_(Store!vars)
  <2> SUFFICES ASSUME TestInv, Store!Restore
               PROVE  /\ storageResult' = "SUCCESS" =>
                         [a \in Store!Area(entryLength) |-> eeprom'[a]] = baseline
                      /\ \A a \in Store!Addresses \ Store!Area(entryLength) : eeprom'[a] = eeprom[a]
    OBVIOUS
  <2>1. CASE ~Store!Usable
    BY <2>1 DEF Store!Restore, Store!Answer
  <2>2. CASE Store!Usable
    <3>1. Store!Written(backupLength) /\ (Store!Verified \/ storageResult' # "SUCCESS")
      BY <2>2 DEF Store!Restore, Store!Answer
    <3>2. backupLength = entryLength
          /\ baseline = [a \in Store!Area(backupLength) |-> backupRaw[a]]
      BY <2>2 DEF Store!Usable, TestInv, Store!BackupIsBaseline
    <3>3. \A a \in Store!Addresses \ Store!Area(entryLength) : eeprom'[a] = eeprom[a]
      BY <3>1, <3>2 DEF Store!Written
    <3>4. Store!Verified => [a \in Store!Area(entryLength) |-> eeprom'[a]] = baseline
      BY <3>2 DEF Store!Verified
    <3>q. QED
      BY <3>1, <3>3, <3>4
  <2>q. QED
    BY <2>1, <2>2
<1>q. QED
  BY <1>1, StoreInvariant, Starts, Steps, PTL DEF Spec, Store!RestoreIsHonest

-----------------------------------------------------------------------------
(***************************************************************************)
(* The EMCY diagnostic.  The sequence number counts the messages twice:    *)
(* it is odd while the receive thread is between two words, and each word  *)
(* holds the newest message or the one before it.  A copy that began at an *)
(* even number, and ends while that number stands, is of one message.      *)
(***************************************************************************)

(* co_rx is between the two increments of the sequence number.             *)
Busy == recording["co_rx"] # 0

(* Only co_rx records, and only while a stack receives.                    *)
RecorderInv ==
    /\ recording["co_main"] = 0
    /\ Busy => receiving /\ messages > 0 /\ message["co_rx"] = messages
    /\ sequence = IF Busy THEN 2 * messages - 1 ELSE 2 * messages

(* The words that have been stored are of the newest message, the others   *)
(* of the message before it.                                               *)
WordInv ==
    \A w \in Emcy!WordIds : word[w] = IF ~Busy \/
        w < recording["co_rx"] THEN messages ELSE messages - 1

(* The copies are of the newest message as long as the number stands.      *)
CopyInv ==
    reading # 0 => /\ attempt > 0
                   /\ before <= sequence
                   /\ before = sequence =>
                        ~Busy /\ \A w \in Emcy!WordIds : w < reading => copy[w] = messages

EmcyInv == Emcy!TypeOK /\ RecorderInv /\ WordInv /\ CopyInv /\ Emcy!ShownIsOneMessage

(* An odd number is not even.                                              *)
LEMMA OddIsNotEven ==
    ASSUME NEW n \in Nat \ {0}
    PROVE  ~Emcy!Even(2 * n - 1)
BY DEF Emcy!Even

(* Every step keeps the types.                                             *)
LEMMA EmcyTypeStep ==
    ASSUME EmcyInv, [Emcy!Next]_(Emcy!vars)
    PROVE  Emcy!TypeOK'
<1>0. CASE UNCHANGED Emcy!vars
  BY <1>0 DEF Emcy!vars, Emcy!TypeOK, Emcy!WordIds, Emcy!Threads, EmcyInv, RecorderInv, Busy,
     Emcy!EmcyDiagnosticAssumption, Emcy!Nothing
<1>1. CASE Emcy!RemoteEmcy
  <2>1. (sequence \in 0 .. 2 * MaxMessages)'
    BY <1>1, ServicesAssumption
       DEF Emcy!RemoteEmcy, Emcy!Callback, Emcy!Recorded, Emcy!TypeOK, Emcy!WordIds,
       Emcy!Threads, EmcyInv, RecorderInv, Busy, Emcy!EmcyDiagnosticAssumption, Emcy!Nothing
  <2>2. (messages \in 0 .. MaxMessages)'
    BY <1>1, ServicesAssumption
       DEF Emcy!RemoteEmcy, Emcy!Callback, Emcy!Recorded, Emcy!TypeOK, Emcy!WordIds,
       Emcy!Threads, EmcyInv, RecorderInv, Busy, Emcy!EmcyDiagnosticAssumption, Emcy!Nothing
  <2>3. (word \in [Emcy!WordIds -> 0 .. MaxMessages])'
    BY <1>1, ServicesAssumption
       DEF Emcy!RemoteEmcy, Emcy!Callback, Emcy!Recorded, Emcy!TypeOK, Emcy!WordIds,
       Emcy!Threads, EmcyInv, RecorderInv, Busy, Emcy!EmcyDiagnosticAssumption, Emcy!Nothing
  <2>4. (copy \in [Emcy!WordIds -> 0 .. MaxMessages])'
    BY <1>1, ServicesAssumption
       DEF Emcy!RemoteEmcy, Emcy!Callback, Emcy!Recorded, Emcy!TypeOK, Emcy!WordIds,
       Emcy!Threads, EmcyInv, RecorderInv, Busy, Emcy!EmcyDiagnosticAssumption, Emcy!Nothing
  <2>5. (shown \in [Emcy!WordIds -> 0 .. MaxMessages])'
    BY <1>1, ServicesAssumption
       DEF Emcy!RemoteEmcy, Emcy!Callback, Emcy!Recorded, Emcy!TypeOK, Emcy!WordIds,
       Emcy!Threads, EmcyInv, RecorderInv, Busy, Emcy!EmcyDiagnosticAssumption, Emcy!Nothing
  <2>6. (recording \in [Emcy!Threads -> 0 .. Words + 1])'
    BY <1>1, ServicesAssumption
       DEF Emcy!RemoteEmcy, Emcy!Callback, Emcy!Recorded, Emcy!TypeOK, Emcy!WordIds,
       Emcy!Threads, EmcyInv, RecorderInv, Busy, Emcy!EmcyDiagnosticAssumption, Emcy!Nothing
  <2>7. (message \in [Emcy!Threads -> 0 .. MaxMessages])'
    BY <1>1, ServicesAssumption
       DEF Emcy!RemoteEmcy, Emcy!Callback, Emcy!Recorded, Emcy!TypeOK, Emcy!WordIds,
       Emcy!Threads, EmcyInv, RecorderInv, Busy, Emcy!EmcyDiagnosticAssumption, Emcy!Nothing
  <2>8. (receiving \in BOOLEAN)'
    BY <1>1, ServicesAssumption
       DEF Emcy!RemoteEmcy, Emcy!Callback, Emcy!Recorded, Emcy!TypeOK, Emcy!WordIds,
       Emcy!Threads, EmcyInv, RecorderInv, Busy, Emcy!EmcyDiagnosticAssumption, Emcy!Nothing
  <2>9. (attempt \in 0 .. MaxRetries)'
    BY <1>1, ServicesAssumption
       DEF Emcy!RemoteEmcy, Emcy!Callback, Emcy!Recorded, Emcy!TypeOK, Emcy!WordIds,
       Emcy!Threads, EmcyInv, RecorderInv, Busy, Emcy!EmcyDiagnosticAssumption, Emcy!Nothing
  <2>10. (before \in 0 .. 2 * MaxMessages)'
    BY <1>1, ServicesAssumption
       DEF Emcy!RemoteEmcy, Emcy!Callback, Emcy!Recorded, Emcy!TypeOK, Emcy!WordIds,
       Emcy!Threads, EmcyInv, RecorderInv, Busy, Emcy!EmcyDiagnosticAssumption, Emcy!Nothing
  <2>11. (reading \in 0 .. Words + 1)'
    BY <1>1, ServicesAssumption
       DEF Emcy!RemoteEmcy, Emcy!Callback, Emcy!Recorded, Emcy!TypeOK, Emcy!WordIds,
       Emcy!Threads, EmcyInv, RecorderInv, Busy, Emcy!EmcyDiagnosticAssumption, Emcy!Nothing
  <2>q. QED
    BY <2>1, <2>2, <2>3, <2>4, <2>5, <2>6, <2>7, <2>8, <2>9, <2>10, <2>11 DEF Emcy!TypeOK
<1>2. CASE Emcy!LocalEmcy
  BY <1>2, ServicesAssumption DEF Emcy!LocalEmcy, Emcy!MainIdle, Emcy!Callback, Emcy!Recorded,
     Emcy!TypeOK,
     Emcy!WordIds, Emcy!Threads, EmcyInv, RecorderInv, Busy, Emcy!EmcyDiagnosticAssumption,
         Emcy!Nothing
<1>3. ASSUME NEW t \in Emcy!Threads, Emcy!StoreWord(t) PROVE Emcy!TypeOK'
  <2>1. (sequence \in 0 .. 2 * MaxMessages)'
    BY <1>3, ServicesAssumption
       DEF Emcy!StoreWord, Emcy!WordIds, Emcy!TypeOK, Emcy!Threads, EmcyInv,
       RecorderInv, Busy, Emcy!EmcyDiagnosticAssumption, Emcy!Nothing
  <2>2. (messages \in 0 .. MaxMessages)'
    BY <1>3, ServicesAssumption
       DEF Emcy!StoreWord, Emcy!WordIds, Emcy!TypeOK, Emcy!Threads, EmcyInv,
       RecorderInv, Busy, Emcy!EmcyDiagnosticAssumption, Emcy!Nothing
  <2>3. (word \in [Emcy!WordIds -> 0 .. MaxMessages])'
    BY <1>3, ServicesAssumption
       DEF Emcy!StoreWord, Emcy!WordIds, Emcy!TypeOK, Emcy!Threads, EmcyInv,
       RecorderInv, Busy, Emcy!EmcyDiagnosticAssumption, Emcy!Nothing
  <2>4. (copy \in [Emcy!WordIds -> 0 .. MaxMessages])'
    BY <1>3, ServicesAssumption
       DEF Emcy!StoreWord, Emcy!WordIds, Emcy!TypeOK, Emcy!Threads, EmcyInv,
       RecorderInv, Busy, Emcy!EmcyDiagnosticAssumption, Emcy!Nothing
  <2>5. (shown \in [Emcy!WordIds -> 0 .. MaxMessages])'
    BY <1>3, ServicesAssumption
       DEF Emcy!StoreWord, Emcy!WordIds, Emcy!TypeOK, Emcy!Threads, EmcyInv,
       RecorderInv, Busy, Emcy!EmcyDiagnosticAssumption, Emcy!Nothing
  <2>6. (recording \in [Emcy!Threads -> 0 .. Words + 1])'
    <3>1. recording[t] \in 1 .. Words /\ recording' = [recording EXCEPT ![t] = recording[t] + 1]
      BY <1>3 DEF Emcy!StoreWord, Emcy!WordIds
    <3>2. recording \in [Emcy!Threads -> 0 .. Words + 1] /\ Words \in Nat
      BY ServicesAssumption DEF Emcy!TypeOK, EmcyInv, Emcy!EmcyDiagnosticAssumption
    <3>3. recording[t] + 1 \in 0 .. Words + 1
      BY <3>1, <3>2
    <3>q. QED
      BY <3>1, <3>2, <3>3
  <2>7. (message \in [Emcy!Threads -> 0 .. MaxMessages])'
    BY <1>3, ServicesAssumption
       DEF Emcy!StoreWord, Emcy!WordIds, Emcy!TypeOK, Emcy!Threads, EmcyInv,
       RecorderInv, Busy, Emcy!EmcyDiagnosticAssumption, Emcy!Nothing
  <2>8. (receiving \in BOOLEAN)'
    BY <1>3, ServicesAssumption
       DEF Emcy!StoreWord, Emcy!WordIds, Emcy!TypeOK, Emcy!Threads, EmcyInv,
       RecorderInv, Busy, Emcy!EmcyDiagnosticAssumption, Emcy!Nothing
  <2>9. (attempt \in 0 .. MaxRetries)'
    BY <1>3, ServicesAssumption
       DEF Emcy!StoreWord, Emcy!WordIds, Emcy!TypeOK, Emcy!Threads, EmcyInv,
       RecorderInv, Busy, Emcy!EmcyDiagnosticAssumption, Emcy!Nothing
  <2>10. (before \in 0 .. 2 * MaxMessages)'
    BY <1>3, ServicesAssumption
       DEF Emcy!StoreWord, Emcy!WordIds, Emcy!TypeOK, Emcy!Threads, EmcyInv,
       RecorderInv, Busy, Emcy!EmcyDiagnosticAssumption, Emcy!Nothing
  <2>11. (reading \in 0 .. Words + 1)'
    BY <1>3, ServicesAssumption
       DEF Emcy!StoreWord, Emcy!WordIds, Emcy!TypeOK, Emcy!Threads, EmcyInv,
       RecorderInv, Busy, Emcy!EmcyDiagnosticAssumption, Emcy!Nothing
  <2>q. QED
    BY <2>1, <2>2, <2>3, <2>4, <2>5, <2>6, <2>7, <2>8, <2>9, <2>10, <2>11 DEF Emcy!TypeOK
<1>4. ASSUME NEW t \in Emcy!Threads, Emcy!EndRecording(t) PROVE Emcy!TypeOK'
  <2>1. (sequence \in 0 .. 2 * MaxMessages)'
    BY <1>4, ServicesAssumption
       DEF Emcy!EndRecording, Emcy!TypeOK, Emcy!WordIds, Emcy!Threads, EmcyInv,
       RecorderInv, Busy, Emcy!EmcyDiagnosticAssumption, Emcy!Nothing
  <2>2. (messages \in 0 .. MaxMessages)'
    BY <1>4, ServicesAssumption
       DEF Emcy!EndRecording, Emcy!TypeOK, Emcy!WordIds, Emcy!Threads, EmcyInv,
       RecorderInv, Busy, Emcy!EmcyDiagnosticAssumption, Emcy!Nothing
  <2>3. (word \in [Emcy!WordIds -> 0 .. MaxMessages])'
    BY <1>4, ServicesAssumption
       DEF Emcy!EndRecording, Emcy!TypeOK, Emcy!WordIds, Emcy!Threads, EmcyInv,
       RecorderInv, Busy, Emcy!EmcyDiagnosticAssumption, Emcy!Nothing
  <2>4. (copy \in [Emcy!WordIds -> 0 .. MaxMessages])'
    BY <1>4, ServicesAssumption
       DEF Emcy!EndRecording, Emcy!TypeOK, Emcy!WordIds, Emcy!Threads, EmcyInv,
       RecorderInv, Busy, Emcy!EmcyDiagnosticAssumption, Emcy!Nothing
  <2>5. (shown \in [Emcy!WordIds -> 0 .. MaxMessages])'
    BY <1>4, ServicesAssumption
       DEF Emcy!EndRecording, Emcy!TypeOK, Emcy!WordIds, Emcy!Threads, EmcyInv,
       RecorderInv, Busy, Emcy!EmcyDiagnosticAssumption, Emcy!Nothing
  <2>6. (recording \in [Emcy!Threads -> 0 .. Words + 1])'
    BY <1>4, ServicesAssumption
       DEF Emcy!EndRecording, Emcy!TypeOK, Emcy!WordIds, Emcy!Threads, EmcyInv,
       RecorderInv, Busy, Emcy!EmcyDiagnosticAssumption, Emcy!Nothing
  <2>7. (message \in [Emcy!Threads -> 0 .. MaxMessages])'
    BY <1>4, ServicesAssumption
       DEF Emcy!EndRecording, Emcy!TypeOK, Emcy!WordIds, Emcy!Threads, EmcyInv,
       RecorderInv, Busy, Emcy!EmcyDiagnosticAssumption, Emcy!Nothing
  <2>8. (receiving \in BOOLEAN)'
    BY <1>4, ServicesAssumption
       DEF Emcy!EndRecording, Emcy!TypeOK, Emcy!WordIds, Emcy!Threads, EmcyInv,
       RecorderInv, Busy, Emcy!EmcyDiagnosticAssumption, Emcy!Nothing
  <2>9. (attempt \in 0 .. MaxRetries)'
    BY <1>4, ServicesAssumption
       DEF Emcy!EndRecording, Emcy!TypeOK, Emcy!WordIds, Emcy!Threads, EmcyInv,
       RecorderInv, Busy, Emcy!EmcyDiagnosticAssumption, Emcy!Nothing
  <2>10. (before \in 0 .. 2 * MaxMessages)'
    BY <1>4, ServicesAssumption
       DEF Emcy!EndRecording, Emcy!TypeOK, Emcy!WordIds, Emcy!Threads, EmcyInv,
       RecorderInv, Busy, Emcy!EmcyDiagnosticAssumption, Emcy!Nothing
  <2>11. (reading \in 0 .. Words + 1)'
    BY <1>4, ServicesAssumption
       DEF Emcy!EndRecording, Emcy!TypeOK, Emcy!WordIds, Emcy!Threads, EmcyInv,
       RecorderInv, Busy, Emcy!EmcyDiagnosticAssumption, Emcy!Nothing
  <2>q. QED
    BY <2>1, <2>2, <2>3, <2>4, <2>5, <2>6, <2>7, <2>8, <2>9, <2>10, <2>11 DEF Emcy!TypeOK
<1>5. CASE Emcy!BeginSnapshot
  BY <1>5, ServicesAssumption DEF Emcy!BeginSnapshot, Emcy!MainIdle, Emcy!TypeOK, Emcy!WordIds,
     Emcy!Threads,
     EmcyInv, RecorderInv, Busy, Emcy!EmcyDiagnosticAssumption, Emcy!Nothing
<1>6. CASE Emcy!ReadBefore
  <2>1. (sequence \in 0 .. 2 * MaxMessages)'
    BY <1>6, ServicesAssumption
       DEF Emcy!ReadBefore, Emcy!Again, Emcy!TypeOK, Emcy!WordIds, Emcy!Threads, EmcyInv,
       RecorderInv, Busy, Emcy!EmcyDiagnosticAssumption, Emcy!Nothing
  <2>2. (messages \in 0 .. MaxMessages)'
    BY <1>6, ServicesAssumption
       DEF Emcy!ReadBefore, Emcy!Again, Emcy!TypeOK, Emcy!WordIds, Emcy!Threads, EmcyInv,
       RecorderInv, Busy, Emcy!EmcyDiagnosticAssumption, Emcy!Nothing
  <2>3. (word \in [Emcy!WordIds -> 0 .. MaxMessages])'
    BY <1>6, ServicesAssumption
       DEF Emcy!ReadBefore, Emcy!Again, Emcy!TypeOK, Emcy!WordIds, Emcy!Threads, EmcyInv,
       RecorderInv, Busy, Emcy!EmcyDiagnosticAssumption, Emcy!Nothing
  <2>4. (copy \in [Emcy!WordIds -> 0 .. MaxMessages])'
    BY <1>6, ServicesAssumption
       DEF Emcy!ReadBefore, Emcy!Again, Emcy!TypeOK, Emcy!WordIds, Emcy!Threads, EmcyInv,
       RecorderInv, Busy, Emcy!EmcyDiagnosticAssumption, Emcy!Nothing
  <2>5. (shown \in [Emcy!WordIds -> 0 .. MaxMessages])'
    BY <1>6, ServicesAssumption
       DEF Emcy!ReadBefore, Emcy!Again, Emcy!TypeOK, Emcy!WordIds, Emcy!Threads, EmcyInv,
       RecorderInv, Busy, Emcy!EmcyDiagnosticAssumption, Emcy!Nothing
  <2>6. (recording \in [Emcy!Threads -> 0 .. Words + 1])'
    BY <1>6, ServicesAssumption
       DEF Emcy!ReadBefore, Emcy!Again, Emcy!TypeOK, Emcy!WordIds, Emcy!Threads, EmcyInv,
       RecorderInv, Busy, Emcy!EmcyDiagnosticAssumption, Emcy!Nothing
  <2>7. (message \in [Emcy!Threads -> 0 .. MaxMessages])'
    BY <1>6, ServicesAssumption
       DEF Emcy!ReadBefore, Emcy!Again, Emcy!TypeOK, Emcy!WordIds, Emcy!Threads, EmcyInv,
       RecorderInv, Busy, Emcy!EmcyDiagnosticAssumption, Emcy!Nothing
  <2>8. (receiving \in BOOLEAN)'
    BY <1>6, ServicesAssumption
       DEF Emcy!ReadBefore, Emcy!Again, Emcy!TypeOK, Emcy!WordIds, Emcy!Threads, EmcyInv,
       RecorderInv, Busy, Emcy!EmcyDiagnosticAssumption, Emcy!Nothing
  <2>9. (attempt \in 0 .. MaxRetries)'
    BY <1>6, ServicesAssumption
       DEF Emcy!ReadBefore, Emcy!Again, Emcy!TypeOK, Emcy!WordIds, Emcy!Threads, EmcyInv,
       RecorderInv, Busy, Emcy!EmcyDiagnosticAssumption, Emcy!Nothing
  <2>10. (before \in 0 .. 2 * MaxMessages)'
    BY <1>6, ServicesAssumption
       DEF Emcy!ReadBefore, Emcy!Again, Emcy!TypeOK, Emcy!WordIds, Emcy!Threads, EmcyInv,
       RecorderInv, Busy, Emcy!EmcyDiagnosticAssumption, Emcy!Nothing
  <2>11. (reading \in 0 .. Words + 1)'
    BY <1>6, ServicesAssumption
       DEF Emcy!ReadBefore, Emcy!Again, Emcy!TypeOK, Emcy!WordIds, Emcy!Threads, EmcyInv,
       RecorderInv, Busy, Emcy!EmcyDiagnosticAssumption, Emcy!Nothing
  <2>q. QED
    BY <2>1, <2>2, <2>3, <2>4, <2>5, <2>6, <2>7, <2>8, <2>9, <2>10, <2>11 DEF Emcy!TypeOK
<1>7. CASE Emcy!CopyWord
  <2>1. (sequence \in 0 .. 2 * MaxMessages)'
    BY <1>7, ServicesAssumption DEF Emcy!CopyWord, Emcy!WordIds, Emcy!TypeOK, Emcy!Threads, EmcyInv,
       RecorderInv, Busy, Emcy!EmcyDiagnosticAssumption, Emcy!Nothing
  <2>2. (messages \in 0 .. MaxMessages)'
    BY <1>7, ServicesAssumption DEF Emcy!CopyWord, Emcy!WordIds, Emcy!TypeOK, Emcy!Threads, EmcyInv,
       RecorderInv, Busy, Emcy!EmcyDiagnosticAssumption, Emcy!Nothing
  <2>3. (word \in [Emcy!WordIds -> 0 .. MaxMessages])'
    BY <1>7, ServicesAssumption DEF Emcy!CopyWord, Emcy!WordIds, Emcy!TypeOK, Emcy!Threads, EmcyInv,
       RecorderInv, Busy, Emcy!EmcyDiagnosticAssumption, Emcy!Nothing
  <2>4. (copy \in [Emcy!WordIds -> 0 .. MaxMessages])'
    BY <1>7, ServicesAssumption DEF Emcy!CopyWord, Emcy!WordIds, Emcy!TypeOK, Emcy!Threads, EmcyInv,
       RecorderInv, Busy, Emcy!EmcyDiagnosticAssumption, Emcy!Nothing
  <2>5. (shown \in [Emcy!WordIds -> 0 .. MaxMessages])'
    BY <1>7, ServicesAssumption DEF Emcy!CopyWord, Emcy!WordIds, Emcy!TypeOK, Emcy!Threads, EmcyInv,
       RecorderInv, Busy, Emcy!EmcyDiagnosticAssumption, Emcy!Nothing
  <2>6. (recording \in [Emcy!Threads -> 0 .. Words + 1])'
    BY <1>7, ServicesAssumption DEF Emcy!CopyWord, Emcy!WordIds, Emcy!TypeOK, Emcy!Threads, EmcyInv,
       RecorderInv, Busy, Emcy!EmcyDiagnosticAssumption, Emcy!Nothing
  <2>7. (message \in [Emcy!Threads -> 0 .. MaxMessages])'
    BY <1>7, ServicesAssumption DEF Emcy!CopyWord, Emcy!WordIds, Emcy!TypeOK, Emcy!Threads, EmcyInv,
       RecorderInv, Busy, Emcy!EmcyDiagnosticAssumption, Emcy!Nothing
  <2>8. (receiving \in BOOLEAN)'
    BY <1>7, ServicesAssumption DEF Emcy!CopyWord, Emcy!WordIds, Emcy!TypeOK, Emcy!Threads, EmcyInv,
       RecorderInv, Busy, Emcy!EmcyDiagnosticAssumption, Emcy!Nothing
  <2>9. (attempt \in 0 .. MaxRetries)'
    BY <1>7, ServicesAssumption DEF Emcy!CopyWord, Emcy!WordIds, Emcy!TypeOK, Emcy!Threads, EmcyInv,
       RecorderInv, Busy, Emcy!EmcyDiagnosticAssumption, Emcy!Nothing
  <2>10. (before \in 0 .. 2 * MaxMessages)'
    BY <1>7, ServicesAssumption DEF Emcy!CopyWord, Emcy!WordIds, Emcy!TypeOK, Emcy!Threads, EmcyInv,
       RecorderInv, Busy, Emcy!EmcyDiagnosticAssumption, Emcy!Nothing
  <2>11. (reading \in 0 .. Words + 1)'
    BY <1>7, ServicesAssumption DEF Emcy!CopyWord, Emcy!WordIds, Emcy!TypeOK, Emcy!Threads, EmcyInv,
       RecorderInv, Busy, Emcy!EmcyDiagnosticAssumption, Emcy!Nothing
  <2>q. QED
    BY <2>1, <2>2, <2>3, <2>4, <2>5, <2>6, <2>7, <2>8, <2>9, <2>10, <2>11 DEF Emcy!TypeOK
<1>8. CASE Emcy!ReadAfter
  <2>1. (sequence \in 0 .. 2 * MaxMessages)'
    BY <1>8, ServicesAssumption
       DEF Emcy!ReadAfter, Emcy!Stable, Emcy!Again, Emcy!TypeOK, Emcy!WordIds, Emcy!Threads,
       EmcyInv, RecorderInv, Busy, Emcy!EmcyDiagnosticAssumption, Emcy!Nothing
  <2>2. (messages \in 0 .. MaxMessages)'
    BY <1>8, ServicesAssumption
       DEF Emcy!ReadAfter, Emcy!Stable, Emcy!Again, Emcy!TypeOK, Emcy!WordIds, Emcy!Threads,
       EmcyInv, RecorderInv, Busy, Emcy!EmcyDiagnosticAssumption, Emcy!Nothing
  <2>3. (word \in [Emcy!WordIds -> 0 .. MaxMessages])'
    BY <1>8, ServicesAssumption
       DEF Emcy!ReadAfter, Emcy!Stable, Emcy!Again, Emcy!TypeOK, Emcy!WordIds, Emcy!Threads,
       EmcyInv, RecorderInv, Busy, Emcy!EmcyDiagnosticAssumption, Emcy!Nothing
  <2>4. (copy \in [Emcy!WordIds -> 0 .. MaxMessages])'
    BY <1>8, ServicesAssumption
       DEF Emcy!ReadAfter, Emcy!Stable, Emcy!Again, Emcy!TypeOK, Emcy!WordIds, Emcy!Threads,
       EmcyInv, RecorderInv, Busy, Emcy!EmcyDiagnosticAssumption, Emcy!Nothing
  <2>5. (shown \in [Emcy!WordIds -> 0 .. MaxMessages])'
    BY <1>8, ServicesAssumption
       DEF Emcy!ReadAfter, Emcy!Stable, Emcy!Again, Emcy!TypeOK, Emcy!WordIds, Emcy!Threads,
       EmcyInv, RecorderInv, Busy, Emcy!EmcyDiagnosticAssumption, Emcy!Nothing
  <2>6. (recording \in [Emcy!Threads -> 0 .. Words + 1])'
    BY <1>8, ServicesAssumption
       DEF Emcy!ReadAfter, Emcy!Stable, Emcy!Again, Emcy!TypeOK, Emcy!WordIds, Emcy!Threads,
       EmcyInv, RecorderInv, Busy, Emcy!EmcyDiagnosticAssumption, Emcy!Nothing
  <2>7. (message \in [Emcy!Threads -> 0 .. MaxMessages])'
    BY <1>8, ServicesAssumption
       DEF Emcy!ReadAfter, Emcy!Stable, Emcy!Again, Emcy!TypeOK, Emcy!WordIds, Emcy!Threads,
       EmcyInv, RecorderInv, Busy, Emcy!EmcyDiagnosticAssumption, Emcy!Nothing
  <2>8. (receiving \in BOOLEAN)'
    BY <1>8, ServicesAssumption
       DEF Emcy!ReadAfter, Emcy!Stable, Emcy!Again, Emcy!TypeOK, Emcy!WordIds, Emcy!Threads,
       EmcyInv, RecorderInv, Busy, Emcy!EmcyDiagnosticAssumption, Emcy!Nothing
  <2>9. (attempt \in 0 .. MaxRetries)'
    <3>1. attempt' = 0 \/ attempt' = IF attempt < MaxRetries THEN attempt + 1 ELSE 0
      BY <1>8 DEF Emcy!ReadAfter, Emcy!Again
    <3>2. attempt \in 0 .. MaxRetries /\ MaxRetries \in Nat
      BY ServicesAssumption DEF Emcy!TypeOK, EmcyInv, Emcy!EmcyDiagnosticAssumption
    <3>q. QED
      BY <3>1, <3>2
  <2>10. (before \in 0 .. 2 * MaxMessages)'
    BY <1>8, ServicesAssumption
       DEF Emcy!ReadAfter, Emcy!Stable, Emcy!Again, Emcy!TypeOK, Emcy!WordIds, Emcy!Threads,
       EmcyInv, RecorderInv, Busy, Emcy!EmcyDiagnosticAssumption, Emcy!Nothing
  <2>11. (reading \in 0 .. Words + 1)'
    BY <1>8, ServicesAssumption
       DEF Emcy!ReadAfter, Emcy!Stable, Emcy!Again, Emcy!TypeOK, Emcy!WordIds, Emcy!Threads,
       EmcyInv, RecorderInv, Busy, Emcy!EmcyDiagnosticAssumption, Emcy!Nothing
  <2>q. QED
    BY <2>1, <2>2, <2>3, <2>4, <2>5, <2>6, <2>7, <2>8, <2>9, <2>10, <2>11 DEF Emcy!TypeOK
<1>9. CASE Emcy!StopReceiving
  BY <1>9, ServicesAssumption DEF Emcy!StopReceiving, Emcy!MainIdle, Emcy!TypeOK, Emcy!WordIds,
     Emcy!Threads,
     EmcyInv, RecorderInv, Busy, Emcy!EmcyDiagnosticAssumption, Emcy!Nothing
<1>10. CASE Emcy!Bind
  BY <1>10, ServicesAssumption DEF Emcy!Bind, Emcy!MainIdle, Emcy!TypeOK, Emcy!WordIds,
     Emcy!Threads, EmcyInv,
     RecorderInv, Busy, Emcy!EmcyDiagnosticAssumption, Emcy!Nothing
<1>11. CASE Emcy!InitAgain
  BY <1>11, ServicesAssumption DEF Emcy!InitAgain, Emcy!MainIdle, Emcy!Nothing, Emcy!WordIds,
     Emcy!TypeOK,
     Emcy!Threads, EmcyInv, RecorderInv, Busy, Emcy!EmcyDiagnosticAssumption
<1>q. QED
  BY <1>0, <1>1, <1>2, <1>3, <1>4, <1>5, <1>6, <1>7, <1>8, <1>9, <1>10, <1>11 DEF Emcy!Next,
     Emcy!Pass, Emcy!Record

(* Every step keeps the count of the sequence.                             *)
LEMMA RecorderStep ==
    ASSUME EmcyInv, [Emcy!Next]_(Emcy!vars)
    PROVE  RecorderInv'
<1>0. CASE UNCHANGED Emcy!vars
  BY <1>0 DEF Emcy!vars, RecorderInv, Busy, EmcyInv, Emcy!TypeOK, Emcy!EmcyDiagnosticAssumption,
     Emcy!Threads,
     Emcy!WordIds, Emcy!Nothing
<1>1. CASE Emcy!BeginSnapshot \/ Emcy!ReadBefore \/ Emcy!CopyWord \/ Emcy!ReadAfter
  BY <1>1 DEF Emcy!BeginSnapshot, Emcy!ReadBefore, Emcy!CopyWord, Emcy!ReadAfter, RecorderInv,
     Busy, EmcyInv,
     Emcy!TypeOK, Emcy!EmcyDiagnosticAssumption, Emcy!Threads, Emcy!WordIds, Emcy!Nothing
<1>2. CASE Emcy!RemoteEmcy
  BY <1>2, ServicesAssumption DEF Emcy!RemoteEmcy, Emcy!Callback, Emcy!Recorded, RecorderInv, Busy,
     EmcyInv, Emcy!TypeOK, Emcy!EmcyDiagnosticAssumption, Emcy!Threads, Emcy!WordIds, Emcy!Nothing
<1>3. CASE Emcy!LocalEmcy
  BY <1>3, ServicesAssumption DEF Emcy!LocalEmcy, Emcy!MainIdle, Emcy!Callback, Emcy!Recorded,
     RecorderInv,
     Busy, EmcyInv, Emcy!TypeOK, Emcy!EmcyDiagnosticAssumption, Emcy!Threads, Emcy!WordIds,
         Emcy!Nothing
<1>4. ASSUME NEW t \in Emcy!Threads, Emcy!StoreWord(t) PROVE RecorderInv'
  <2>1. /\ recording[t] \in 1 .. Words /\ recording' = [recording EXCEPT ![t] = recording[t] + 1]
        /\ UNCHANGED <<sequence, message, messages, receiving>>
    BY <1>4 DEF Emcy!StoreWord, Emcy!WordIds
  <2>2. recording \in [Emcy!Threads -> 0 .. Words + 1] /\ Words \in Nat
    BY ServicesAssumption DEF Emcy!TypeOK, EmcyInv, Emcy!EmcyDiagnosticAssumption
  <2>3. t = "co_rx" /\ recording["co_main"] = 0
    BY <2>1 DEF EmcyInv, RecorderInv, Emcy!Threads
  <2>4. recording'["co_main"] = 0 /\ recording'["co_rx"] # 0 /\ recording["co_rx"] # 0
    BY <2>1, <2>2, <2>3 DEF Emcy!Threads
  <2>q. QED
    BY <2>1, <2>4 DEF EmcyInv, RecorderInv, Busy
<1>5. ASSUME NEW t \in Emcy!Threads, Emcy!EndRecording(t) PROVE RecorderInv'
  BY <1>5, ServicesAssumption DEF Emcy!EndRecording, RecorderInv, Busy, EmcyInv, Emcy!TypeOK,
     Emcy!EmcyDiagnosticAssumption, Emcy!Threads, Emcy!WordIds, Emcy!Nothing
<1>6. CASE Emcy!StopReceiving
  BY <1>6, ServicesAssumption DEF Emcy!StopReceiving, Emcy!MainIdle, RecorderInv, Busy, EmcyInv,
     Emcy!TypeOK, Emcy!EmcyDiagnosticAssumption, Emcy!Threads, Emcy!WordIds, Emcy!Nothing
<1>7. CASE Emcy!Bind
  BY <1>7, ServicesAssumption DEF Emcy!Bind, Emcy!MainIdle, RecorderInv, Busy, EmcyInv, Emcy!TypeOK,
     Emcy!EmcyDiagnosticAssumption, Emcy!Threads, Emcy!WordIds, Emcy!Nothing
<1>8. CASE Emcy!InitAgain
  BY <1>8, ServicesAssumption DEF Emcy!InitAgain, Emcy!MainIdle, Emcy!Nothing, Emcy!WordIds,
     RecorderInv,
     Busy, EmcyInv, Emcy!TypeOK, Emcy!EmcyDiagnosticAssumption, Emcy!Threads
<1>q. QED
  BY <1>0, <1>1, <1>2, <1>3, <1>4, <1>5, <1>6, <1>7, <1>8 DEF Emcy!Next, Emcy!Pass, Emcy!Record

(* Every step keeps the words of two messages at most.                     *)
LEMMA WordStep ==
    ASSUME EmcyInv, [Emcy!Next]_(Emcy!vars)
    PROVE  WordInv'
<1>0. CASE UNCHANGED Emcy!vars
  BY <1>0 DEF Emcy!vars, WordInv, Emcy!WordIds, Busy, EmcyInv, Emcy!TypeOK, RecorderInv,
     Emcy!EmcyDiagnosticAssumption, Emcy!Threads, Emcy!Nothing
<1>1. CASE Emcy!BeginSnapshot \/ Emcy!ReadBefore \/ Emcy!CopyWord \/ Emcy!ReadAfter \/
    Emcy!StopReceiving \/ Emcy!Bind
  BY <1>1 DEF Emcy!BeginSnapshot, Emcy!ReadBefore, Emcy!CopyWord, Emcy!ReadAfter,
     Emcy!StopReceiving, Emcy!Bind,
     WordInv, Emcy!WordIds, Busy, EmcyInv, Emcy!TypeOK, RecorderInv, Emcy!EmcyDiagnosticAssumption,
     Emcy!Threads, Emcy!Nothing
<1>2. CASE Emcy!RemoteEmcy
  BY <1>2, ServicesAssumption DEF Emcy!RemoteEmcy, Emcy!Callback, Emcy!Recorded, WordInv,
     Emcy!WordIds,
     Busy, EmcyInv, Emcy!TypeOK, RecorderInv, Emcy!EmcyDiagnosticAssumption, Emcy!Threads,
         Emcy!Nothing
<1>3. CASE Emcy!LocalEmcy
  BY <1>3, ServicesAssumption DEF Emcy!LocalEmcy, Emcy!MainIdle, Emcy!Callback, Emcy!Recorded,
     WordInv,
     Emcy!WordIds, Busy, EmcyInv, Emcy!TypeOK, RecorderInv, Emcy!EmcyDiagnosticAssumption,
         Emcy!Threads,
     Emcy!Nothing
<1>4. ASSUME NEW t \in Emcy!Threads, Emcy!StoreWord(t) PROVE WordInv'
  <2>1. t = "co_rx" /\ recording[t] \in Emcy!WordIds
    BY <1>4 DEF Emcy!StoreWord, Emcy!Threads, EmcyInv, RecorderInv, Emcy!WordIds
  <2>2. word' = [word EXCEPT ![recording[t]] = messages]
    <3>1. Busy
      BY <2>1, ServicesAssumption DEF Busy, Emcy!WordIds, Emcy!EmcyDiagnosticAssumption
    <3>2. message[t] = messages
      BY <3>1, <2>1 DEF EmcyInv, RecorderInv
    <3>q. QED
      BY <1>4, <3>2 DEF Emcy!StoreWord
  <2>3. recording'["co_rx"] = recording["co_rx"] + 1 /\ messages' = messages
    BY <1>4, <2>1 DEF Emcy!StoreWord, EmcyInv, Emcy!TypeOK, Emcy!Threads
  <2>4. Busy /\ Busy'
    BY <2>1, <2>3, ServicesAssumption DEF Busy, Emcy!WordIds, Emcy!EmcyDiagnosticAssumption
  <2>5. messages \in Nat /\ word \in [Emcy!WordIds -> 0 .. MaxMessages]
    BY ServicesAssumption DEF EmcyInv, Emcy!TypeOK, Emcy!EmcyDiagnosticAssumption
  <2>q. QED
    BY <2>1, <2>2, <2>3, <2>4, <2>5, ServicesAssumption
       DEF WordInv, EmcyInv, Emcy!WordIds, Emcy!EmcyDiagnosticAssumption
<1>5. ASSUME NEW t \in Emcy!Threads, Emcy!EndRecording(t) PROVE WordInv'
  BY <1>5, ServicesAssumption DEF Emcy!EndRecording, WordInv, Emcy!WordIds, Busy, EmcyInv,
     Emcy!TypeOK,
     RecorderInv, Emcy!EmcyDiagnosticAssumption, Emcy!Threads, Emcy!Nothing
<1>6. CASE Emcy!InitAgain
  BY <1>6, ServicesAssumption DEF Emcy!InitAgain, Emcy!MainIdle, Emcy!Nothing, Emcy!WordIds,
     WordInv, Busy,
     EmcyInv, Emcy!TypeOK, RecorderInv, Emcy!EmcyDiagnosticAssumption, Emcy!Threads
<1>q. QED
  BY <1>0, <1>1, <1>2, <1>3, <1>4, <1>5, <1>6 DEF Emcy!Next, Emcy!Pass, Emcy!Record

(* No step leaves a mixed copy under an unchanged number.                  *)
LEMMA CopyStep ==
    ASSUME EmcyInv, [Emcy!Next]_(Emcy!vars)
    PROVE  CopyInv'
<1>0. CASE UNCHANGED Emcy!vars
  BY <1>0 DEF Emcy!vars, CopyInv, Busy, Emcy!WordIds, EmcyInv, Emcy!TypeOK, RecorderInv,
     Emcy!EmcyDiagnosticAssumption, Emcy!Threads, Emcy!Nothing, WordInv
<1>1. CASE Emcy!StopReceiving \/ Emcy!Bind
  BY <1>1 DEF Emcy!StopReceiving, Emcy!Bind, CopyInv, Busy, Emcy!WordIds, EmcyInv, Emcy!TypeOK,
     RecorderInv,
     Emcy!EmcyDiagnosticAssumption, Emcy!Threads, Emcy!Nothing, WordInv
<1>2. CASE Emcy!RemoteEmcy
  BY <1>2, OddIsNotEven, ServicesAssumption
     DEF Emcy!RemoteEmcy, Emcy!Callback, Emcy!Recorded, CopyInv,
     Busy, Emcy!WordIds, EmcyInv, Emcy!TypeOK, RecorderInv, Emcy!EmcyDiagnosticAssumption,
         Emcy!Threads,
     Emcy!Nothing, WordInv
<1>3. CASE Emcy!LocalEmcy
  BY <1>3, OddIsNotEven, ServicesAssumption
     DEF Emcy!LocalEmcy, Emcy!MainIdle, Emcy!Callback, Emcy!Recorded,
     CopyInv, Busy, Emcy!WordIds, EmcyInv, Emcy!TypeOK, RecorderInv, Emcy!EmcyDiagnosticAssumption,
     Emcy!Threads, Emcy!Nothing, WordInv
<1>4. ASSUME NEW t \in Emcy!Threads, Emcy!StoreWord(t) PROVE CopyInv'
  BY <1>4, OddIsNotEven, ServicesAssumption
     DEF Emcy!StoreWord, Emcy!WordIds, CopyInv, Busy, EmcyInv,
     Emcy!TypeOK, RecorderInv, Emcy!EmcyDiagnosticAssumption, Emcy!Threads, Emcy!Nothing, WordInv
<1>5. ASSUME NEW t \in Emcy!Threads, Emcy!EndRecording(t) PROVE CopyInv'
  BY <1>5, OddIsNotEven, ServicesAssumption DEF Emcy!EndRecording, CopyInv, Busy, Emcy!WordIds,
     EmcyInv, Emcy!TypeOK, RecorderInv, Emcy!EmcyDiagnosticAssumption, Emcy!Threads,
         Emcy!Nothing, WordInv
<1>6. CASE Emcy!BeginSnapshot
  BY <1>6, OddIsNotEven, ServicesAssumption DEF Emcy!BeginSnapshot, Emcy!MainIdle, CopyInv, Busy,
     Emcy!WordIds, EmcyInv, Emcy!TypeOK, RecorderInv, Emcy!EmcyDiagnosticAssumption,
         Emcy!Threads, Emcy!Nothing,
     WordInv
<1>7. CASE Emcy!ReadBefore
  BY <1>7, OddIsNotEven, ServicesAssumption DEF Emcy!ReadBefore, Emcy!Again, CopyInv, Busy,
     Emcy!WordIds, EmcyInv, Emcy!TypeOK, RecorderInv, Emcy!EmcyDiagnosticAssumption,
         Emcy!Threads, Emcy!Nothing,
     WordInv
<1>8. CASE Emcy!CopyWord
  BY <1>8, OddIsNotEven, ServicesAssumption DEF Emcy!CopyWord, Emcy!WordIds, CopyInv, Busy, EmcyInv,
     Emcy!TypeOK, RecorderInv, Emcy!EmcyDiagnosticAssumption, Emcy!Threads, Emcy!Nothing, WordInv
<1>9. CASE Emcy!ReadAfter
  BY <1>9, OddIsNotEven, ServicesAssumption
     DEF Emcy!ReadAfter, Emcy!Stable, Emcy!Again, CopyInv, Busy,
     Emcy!WordIds, EmcyInv, Emcy!TypeOK, RecorderInv, Emcy!EmcyDiagnosticAssumption,
         Emcy!Threads, Emcy!Nothing,
     WordInv
<1>10. CASE Emcy!InitAgain
  BY <1>10, OddIsNotEven, ServicesAssumption
     DEF Emcy!InitAgain, Emcy!MainIdle, Emcy!Nothing, Emcy!WordIds,
     CopyInv, Busy, EmcyInv, Emcy!TypeOK, RecorderInv, Emcy!EmcyDiagnosticAssumption, Emcy!Threads,
     WordInv
<1>q. QED
  BY <1>0, <1>1, <1>2, <1>3, <1>4, <1>5, <1>6, <1>7, <1>8, <1>9, <1>10 DEF Emcy!Next, Emcy!Pass,
     Emcy!Record

(* What is shown is of one message.                                        *)
LEMMA ShownStep ==
    ASSUME EmcyInv, [Emcy!Next]_(Emcy!vars)
    PROVE  Emcy!ShownIsOneMessage'
<1>0. CASE UNCHANGED Emcy!vars
  BY <1>0 DEF Emcy!vars, Emcy!ShownIsOneMessage, Emcy!TypeOK, Emcy!WordIds, Emcy!Threads,
     EmcyInv, RecorderInv,
     Busy, Emcy!EmcyDiagnosticAssumption, Emcy!Nothing, WordInv, CopyInv
<1>1. CASE Emcy!RemoteEmcy
  BY <1>1, EmcyTypeStep, ServicesAssumption DEF Emcy!RemoteEmcy, Emcy!Callback, Emcy!Recorded,
     Emcy!ShownIsOneMessage, Emcy!TypeOK, Emcy!WordIds, Emcy!Threads, EmcyInv, RecorderInv, Busy,
     Emcy!EmcyDiagnosticAssumption, Emcy!Nothing, WordInv, CopyInv
<1>2. CASE Emcy!LocalEmcy
  BY <1>2, EmcyTypeStep, ServicesAssumption
     DEF Emcy!LocalEmcy, Emcy!MainIdle, Emcy!Callback, Emcy!Recorded,
     Emcy!ShownIsOneMessage, Emcy!TypeOK, Emcy!WordIds, Emcy!Threads, EmcyInv, RecorderInv, Busy,
     Emcy!EmcyDiagnosticAssumption, Emcy!Nothing, WordInv, CopyInv
<1>3. ASSUME NEW t \in Emcy!Threads, Emcy!StoreWord(t) PROVE Emcy!ShownIsOneMessage'
  BY <1>3, EmcyTypeStep, ServicesAssumption
     DEF Emcy!StoreWord, Emcy!WordIds, Emcy!ShownIsOneMessage,
     Emcy!TypeOK, Emcy!Threads, EmcyInv, RecorderInv, Busy, Emcy!EmcyDiagnosticAssumption,
         Emcy!Nothing,
     WordInv, CopyInv
<1>4. ASSUME NEW t \in Emcy!Threads, Emcy!EndRecording(t) PROVE Emcy!ShownIsOneMessage'
  BY <1>4, EmcyTypeStep, ServicesAssumption
     DEF Emcy!EndRecording, Emcy!ShownIsOneMessage, Emcy!TypeOK,
     Emcy!WordIds, Emcy!Threads, EmcyInv, RecorderInv, Busy, Emcy!EmcyDiagnosticAssumption,
         Emcy!Nothing,
     WordInv, CopyInv
<1>5. CASE Emcy!BeginSnapshot
  BY <1>5, EmcyTypeStep, ServicesAssumption
     DEF Emcy!BeginSnapshot, Emcy!MainIdle, Emcy!ShownIsOneMessage,
     Emcy!TypeOK, Emcy!WordIds, Emcy!Threads, EmcyInv, RecorderInv, Busy,
         Emcy!EmcyDiagnosticAssumption,
     Emcy!Nothing, WordInv, CopyInv
<1>6. CASE Emcy!ReadBefore
  BY <1>6, EmcyTypeStep, ServicesAssumption DEF Emcy!ReadBefore, Emcy!Again, Emcy!ShownIsOneMessage,
     Emcy!TypeOK, Emcy!WordIds, Emcy!Threads, EmcyInv, RecorderInv, Busy,
         Emcy!EmcyDiagnosticAssumption,
     Emcy!Nothing, WordInv, CopyInv
<1>7. CASE Emcy!CopyWord
  BY <1>7, EmcyTypeStep, ServicesAssumption DEF Emcy!CopyWord, Emcy!WordIds, Emcy!ShownIsOneMessage,
     Emcy!TypeOK, Emcy!Threads, EmcyInv, RecorderInv, Busy, Emcy!EmcyDiagnosticAssumption,
         Emcy!Nothing,
     WordInv, CopyInv
<1>8. CASE Emcy!ReadAfter
  <2>1. Emcy!TypeOK'
    BY EmcyTypeStep
  <2>2. CASE before = sequence
    <3>1. \A w \in Emcy!WordIds : copy[w] = messages
      BY <1>8, <2>2, ServicesAssumption
         DEF Emcy!ReadAfter, EmcyInv, Emcy!TypeOK, CopyInv, Emcy!WordIds,
             Emcy!EmcyDiagnosticAssumption
    <3>2. \A v, w \in Emcy!WordIds : shown'[v] = shown'[w]
      <4>1. shown' = copy \/ shown' = shown
        BY <1>8 DEF Emcy!ReadAfter
      <4>2. QED
        BY <3>1, <4>1 DEF EmcyInv, Emcy!ShownIsOneMessage
    <3>q. QED
      BY <2>1, <3>2 DEF Emcy!ShownIsOneMessage
  <2>3. CASE before # sequence
    BY <1>8, <2>1, <2>3 DEF Emcy!ReadAfter, Emcy!Stable, EmcyInv, Emcy!ShownIsOneMessage
  <2>q. QED
    BY <2>2, <2>3
<1>9. CASE Emcy!StopReceiving
  BY <1>9, EmcyTypeStep, ServicesAssumption
     DEF Emcy!StopReceiving, Emcy!MainIdle, Emcy!ShownIsOneMessage,
     Emcy!TypeOK, Emcy!WordIds, Emcy!Threads, EmcyInv, RecorderInv, Busy,
         Emcy!EmcyDiagnosticAssumption,
     Emcy!Nothing, WordInv, CopyInv
<1>10. CASE Emcy!Bind
  BY <1>10, EmcyTypeStep, ServicesAssumption
     DEF Emcy!Bind, Emcy!MainIdle, Emcy!ShownIsOneMessage, Emcy!TypeOK,
     Emcy!WordIds, Emcy!Threads, EmcyInv, RecorderInv, Busy, Emcy!EmcyDiagnosticAssumption,
         Emcy!Nothing,
     WordInv, CopyInv
<1>11. CASE Emcy!InitAgain
  BY <1>11, EmcyTypeStep, ServicesAssumption
     DEF Emcy!InitAgain, Emcy!MainIdle, Emcy!Nothing, Emcy!WordIds,
     Emcy!ShownIsOneMessage, Emcy!TypeOK, Emcy!Threads, EmcyInv, RecorderInv, Busy,
     Emcy!EmcyDiagnosticAssumption, WordInv, CopyInv
<1>q. QED
  BY <1>0, <1>1, <1>2, <1>3, <1>4, <1>5, <1>6, <1>7, <1>8, <1>9, <1>10, <1>11 DEF Emcy!Next,
     Emcy!Pass, Emcy!Record

LEMMA EmcyStarts == Emcy!Init => EmcyInv
BY ServicesAssumption DEF Emcy!Init, EmcyInv, Emcy!TypeOK, RecorderInv, WordInv, CopyInv,
   Emcy!ShownIsOneMessage,
   Busy, Emcy!Nothing, Emcy!Threads, Emcy!WordIds, Emcy!EmcyDiagnosticAssumption

LEMMA EmcyInvariant == Spec => []EmcyInv
<1>1. EmcyInv /\ [Emcy!Next]_(Emcy!vars) => EmcyInv'
  BY EmcyTypeStep, RecorderStep, WordStep, CopyStep, ShownStep DEF EmcyInv
<1>q. QED
  BY <1>1, EmcyStarts, Starts, Steps, PTL DEF Spec

(* Object 16#2301 shows the words of one message                           *)
(* (CO_demo_emcy_consumer.c:33).                                           *)
THEOREM OneMessageIsShown == Spec => []Emcy!ShownIsOneMessage
<1>1. EmcyInv => Emcy!ShownIsOneMessage
  BY DEF EmcyInv
<1>q. QED
  BY <1>1, EmcyInvariant, PTL

-----------------------------------------------------------------------------
(***************************************************************************)
(* The safety tests.  A request that differs from the answer was written   *)
(* to the stack that runs: the resets consume what is older.               *)
(***************************************************************************)

(* A running stack owes exactly the requests that wait, and a stack that   *)
(* does not run owes none.                                                 *)
OwedInv ==
    \A t \in Safety!Tests : safetyOwed[t] <=> (safetyStage = "running" /\ Safety!Pending(t))

SafetyInv == Safety!NothingStaleIsSent /\ OwedInv

(* Every step keeps the types.                                             *)
LEMMA SafetyTypeStep ==
    ASSUME SafetyInv, [Safety!Next]_(Safety!vars)
    PROVE  Safety!TypeOK'
<1>0. CASE UNCHANGED Safety!vars
  BY <1>0 DEF Safety!vars, Safety!TypeOK, Safety!Tests, Safety!Seqs, Safety!Results,
     Safety!States, Safety!srdo, SafetyInv,
     Safety!NothingStaleIsSent, Safety!SafetyTestsAssumption
<1>1. ASSUME NEW t \in Safety!Tests, NEW seq \in Safety!Seqs, Safety!Request(t,
    seq) PROVE Safety!TypeOK'
  BY <1>1, ServicesAssumption DEF Safety!Request, Safety!Nothing, Safety!srdo, Safety!Tests,
     Safety!TypeOK, Safety!Seqs, Safety!Results,
     Safety!States, SafetyInv, Safety!NothingStaleIsSent, Safety!SafetyTestsAssumption
<1>2. CASE Safety!SpoilValue
  BY <1>2, ServicesAssumption DEF Safety!SpoilValue, Safety!Nothing, Safety!requests,
     Safety!Tests, Safety!srdo, Safety!TypeOK,
     Safety!Seqs, Safety!Results, Safety!States, SafetyInv, Safety!NothingStaleIsSent,
         Safety!SafetyTestsAssumption
<1>3. CASE Safety!SrdoMoves
  BY <1>3, ServicesAssumption DEF Safety!SrdoMoves, Safety!States, Safety!Nothing,
     Safety!requests, Safety!Tests, Safety!srdo,
     Safety!TypeOK, Safety!Seqs, Safety!Results, SafetyInv, Safety!NothingStaleIsSent,
         Safety!SafetyTestsAssumption
<1>4. ASSUME NEW reply \in [Safety!Tests -> Safety!Results],
    Safety!Process(reply) PROVE Safety!TypeOK'
  BY <1>4, ServicesAssumption DEF Safety!Process, Safety!Answer, Safety!PublishStates,
     Safety!Tests, Safety!Pending, Safety!srdo,
     Safety!TypeOK, Safety!Seqs, Safety!Results, Safety!States, SafetyInv,
         Safety!NothingStaleIsSent, Safety!SafetyTestsAssumption
<1>5. CASE Safety!Reset
  BY <1>5, ServicesAssumption DEF Safety!Reset, Safety!ConsumeRequests, Safety!SrdoIdle,
     Safety!Tests, Safety!Nothing,
     Safety!Unknown, Safety!srdo, Safety!TypeOK, Safety!Seqs, Safety!Results, Safety!States,
         SafetyInv, Safety!NothingStaleIsSent,
     Safety!SafetyTestsAssumption
<1>6. CASE Safety!Rebuild
  BY <1>6, ServicesAssumption DEF Safety!Rebuild, Safety!Nothing, Safety!requests, Safety!Tests,
     Safety!srdo, Safety!TypeOK, Safety!Seqs,
     Safety!Results, Safety!States, SafetyInv, Safety!NothingStaleIsSent,
         Safety!SafetyTestsAssumption
<1>7. CASE Safety!Bind
  BY <1>7, ServicesAssumption DEF Safety!Bind, Safety!ConsumeRequests, Safety!SrdoIdle,
     Safety!RestoreValue, Safety!Tests,
     Safety!Nothing, Safety!srdo, Safety!TypeOK, Safety!Seqs, Safety!Results, Safety!States,
         SafetyInv, Safety!NothingStaleIsSent,
     Safety!SafetyTestsAssumption
<1>8. CASE Safety!Restart
  <2>1. (safetyStage \in {"running", "reset", "rebuilt"})'
    BY <1>8, ServicesAssumption
       DEF Safety!Restart, Safety!srdo, Safety!Tests, Safety!Unknown, Safety!Nothing, Safety!TypeOK,
       Safety!Seqs, Safety!Results, Safety!States, SafetyInv, Safety!NothingStaleIsSent,
           Safety!SafetyTestsAssumption
  <2>2. (safetyRequestSeq \in [Safety!Tests -> Safety!Seqs])'
    BY <1>8, ServicesAssumption
       DEF Safety!Restart, Safety!srdo, Safety!Tests, Safety!Unknown, Safety!Nothing, Safety!TypeOK,
       Safety!Seqs, Safety!Results, Safety!States, SafetyInv, Safety!NothingStaleIsSent,
           Safety!SafetyTestsAssumption
  <2>3. (safetyCompleteSeq \in [Safety!Tests -> Safety!Seqs])'
    BY <1>8, ServicesAssumption
       DEF Safety!Restart, Safety!srdo, Safety!Tests, Safety!Unknown, Safety!Nothing, Safety!TypeOK,
       Safety!Seqs, Safety!Results, Safety!States, SafetyInv, Safety!NothingStaleIsSent,
           Safety!SafetyTestsAssumption
  <2>4. (safetyResult \in [Safety!Tests -> Safety!Results \cup {"idle"}])'
    BY <1>8, ServicesAssumption
       DEF Safety!Restart, Safety!srdo, Safety!Tests, Safety!Unknown, Safety!Nothing, Safety!TypeOK,
       Safety!Seqs, Safety!Results, Safety!States, SafetyInv, Safety!NothingStaleIsSent,
           Safety!SafetyTestsAssumption
  <2>5. (safetyOwed \in [Safety!Tests -> BOOLEAN])'
    BY <1>8, ServicesAssumption
       DEF Safety!Restart, Safety!srdo, Safety!Tests, Safety!Unknown, Safety!Nothing, Safety!TypeOK,
       Safety!Seqs, Safety!Results, Safety!States, SafetyInv, Safety!NothingStaleIsSent,
           Safety!SafetyTestsAssumption
  <2>6. (lastSent \in [Safety!Tests -> {"nothing", "owed", "stale"}])'
    BY <1>8, ServicesAssumption
       DEF Safety!Restart, Safety!srdo, Safety!Tests, Safety!Unknown, Safety!Nothing, Safety!TypeOK,
       Safety!Seqs, Safety!Results, Safety!States, SafetyInv, Safety!NothingStaleIsSent,
           Safety!SafetyTestsAssumption
  <2>7. (rxState \in Safety!States)'
    BY <1>8, ServicesAssumption
       DEF Safety!Restart, Safety!srdo, Safety!Tests, Safety!Unknown, Safety!Nothing, Safety!TypeOK,
       Safety!Seqs, Safety!Results, Safety!States, SafetyInv, Safety!NothingStaleIsSent,
           Safety!SafetyTestsAssumption
  <2>8. (txState \in Safety!States)'
    BY <1>8, ServicesAssumption
       DEF Safety!Restart, Safety!srdo, Safety!Tests, Safety!Unknown, Safety!Nothing, Safety!TypeOK,
       Safety!Seqs, Safety!Results, Safety!States, SafetyInv, Safety!NothingStaleIsSent,
           Safety!SafetyTestsAssumption
  <2>9. (safetyPublished \in Safety!States \X Safety!States)'
    BY <1>8, ServicesAssumption
       DEF Safety!Restart, Safety!srdo, Safety!Tests, Safety!Unknown, Safety!Nothing, Safety!TypeOK,
       Safety!Seqs, Safety!Results, Safety!States, SafetyInv, Safety!NothingStaleIsSent,
           Safety!SafetyTestsAssumption
  <2>10. (stateChanged \in BOOLEAN)'
    BY <1>8, ServicesAssumption
       DEF Safety!Restart, Safety!srdo, Safety!Tests, Safety!Unknown, Safety!Nothing, Safety!TypeOK,
       Safety!Seqs, Safety!Results, Safety!States, SafetyInv, Safety!NothingStaleIsSent,
           Safety!SafetyTestsAssumption
  <2>11. (txPair \in BOOLEAN)'
    BY <1>8, ServicesAssumption
       DEF Safety!Restart, Safety!srdo, Safety!Tests, Safety!Unknown, Safety!Nothing, Safety!TypeOK,
       Safety!Seqs, Safety!Results, Safety!States, SafetyInv, Safety!NothingStaleIsSent,
           Safety!SafetyTestsAssumption
  <2>q. QED
    BY <2>1, <2>2, <2>3, <2>4, <2>5, <2>6, <2>7, <2>8, <2>9, <2>10, <2>11 DEF Safety!TypeOK
<1>q. QED
  BY <1>0, <1>1, <1>2, <1>3, <1>4, <1>5, <1>6, <1>7, <1>8 DEF Safety!Next

(* Every step keeps what is owed.                                          *)
LEMMA OwedStep ==
    ASSUME SafetyInv, [Safety!Next]_(Safety!vars)
    PROVE  OwedInv'
<1>0. CASE UNCHANGED Safety!vars
  BY <1>0 DEF Safety!vars, OwedInv, Safety!Tests, Safety!Pending, Safety!srdo, SafetyInv,
     Safety!NothingStaleIsSent, Safety!TypeOK,
     Safety!SafetyTestsAssumption
<1>1. ASSUME NEW t \in Safety!Tests, NEW seq \in Safety!Seqs, Safety!Request(t, seq) PROVE OwedInv'
  BY <1>1, ServicesAssumption DEF Safety!Request, Safety!Nothing, Safety!srdo, Safety!Tests,
     OwedInv, Safety!Pending, SafetyInv,
     Safety!NothingStaleIsSent, Safety!TypeOK, Safety!SafetyTestsAssumption
<1>2. CASE Safety!SpoilValue
  BY <1>2, ServicesAssumption DEF Safety!SpoilValue, Safety!Nothing, Safety!requests,
     Safety!Tests, Safety!srdo, OwedInv,
     Safety!Pending, SafetyInv, Safety!NothingStaleIsSent, Safety!TypeOK,
         Safety!SafetyTestsAssumption
<1>3. CASE Safety!SrdoMoves
  BY <1>3, ServicesAssumption DEF Safety!SrdoMoves, Safety!States, Safety!Nothing,
     Safety!requests, Safety!Tests, Safety!srdo,
     OwedInv, Safety!Pending, SafetyInv, Safety!NothingStaleIsSent, Safety!TypeOK,
         Safety!SafetyTestsAssumption
<1>4. ASSUME NEW reply \in [Safety!Tests -> Safety!Results], Safety!Process(reply) PROVE OwedInv'
  BY <1>4, ServicesAssumption DEF Safety!Process, Safety!Answer, Safety!PublishStates,
     Safety!Tests, Safety!Pending, Safety!srdo,
     OwedInv, SafetyInv, Safety!NothingStaleIsSent, Safety!TypeOK, Safety!SafetyTestsAssumption
<1>5. CASE Safety!Reset
  BY <1>5, ServicesAssumption DEF Safety!Reset, Safety!ConsumeRequests, Safety!SrdoIdle,
     Safety!Tests, Safety!Nothing,
     Safety!Unknown, Safety!srdo, OwedInv, Safety!Pending, SafetyInv, Safety!NothingStaleIsSent,
         Safety!TypeOK,
     Safety!SafetyTestsAssumption
<1>6. CASE Safety!Rebuild
  BY <1>6, ServicesAssumption DEF Safety!Rebuild, Safety!Nothing, Safety!requests, Safety!Tests,
     Safety!srdo, OwedInv,
     Safety!Pending, SafetyInv, Safety!NothingStaleIsSent, Safety!TypeOK,
         Safety!SafetyTestsAssumption
<1>7. CASE Safety!Bind
  BY <1>7, ServicesAssumption DEF Safety!Bind, Safety!ConsumeRequests, Safety!SrdoIdle,
     Safety!RestoreValue, Safety!Tests,
     Safety!Nothing, Safety!srdo, OwedInv, Safety!Pending, SafetyInv, Safety!NothingStaleIsSent,
         Safety!TypeOK,
     Safety!SafetyTestsAssumption
<1>8. CASE Safety!Restart
  BY <1>8, ServicesAssumption DEF Safety!Restart, Safety!srdo, Safety!Tests, Safety!Unknown,
     Safety!Nothing, OwedInv,
     Safety!Pending, SafetyInv, Safety!NothingStaleIsSent, Safety!TypeOK,
         Safety!SafetyTestsAssumption
<1>q. QED
  BY <1>0, <1>1, <1>2, <1>3, <1>4, <1>5, <1>6, <1>7, <1>8 DEF Safety!Next

(* No step sends what is not owed.                                         *)
LEMMA SentStep ==
    ASSUME SafetyInv, [Safety!Next]_(Safety!vars)
    PROVE  Safety!NothingStaleIsSent'
<1>0. CASE UNCHANGED Safety!vars
  BY <1>0 DEF Safety!vars, Safety!NothingStaleIsSent, Safety!TypeOK, Safety!Tests,
     Safety!Pending, Safety!Seqs, Safety!Results, Safety!States,
     Safety!srdo, SafetyInv, Safety!SafetyTestsAssumption, OwedInv
<1>1. ASSUME NEW t \in Safety!Tests, NEW seq \in Safety!Seqs, Safety!Request(t, seq) PROVE
   Safety!NothingStaleIsSent'
  BY <1>1, SafetyTypeStep, ServicesAssumption
     DEF Safety!Request, Safety!Nothing, Safety!srdo, Safety!Tests,
     Safety!NothingStaleIsSent, Safety!TypeOK, Safety!Pending, Safety!Seqs, Safety!Results,
         Safety!States, SafetyInv,
     Safety!SafetyTestsAssumption, OwedInv
<1>2. CASE Safety!SpoilValue
  BY <1>2, SafetyTypeStep, ServicesAssumption
     DEF Safety!SpoilValue, Safety!Nothing, Safety!requests, Safety!Tests, Safety!srdo,
     Safety!NothingStaleIsSent, Safety!TypeOK, Safety!Pending, Safety!Seqs, Safety!Results,
         Safety!States, SafetyInv,
     Safety!SafetyTestsAssumption, OwedInv
<1>3. CASE Safety!SrdoMoves
  BY <1>3, SafetyTypeStep, ServicesAssumption
     DEF Safety!SrdoMoves, Safety!States, Safety!Nothing, Safety!requests, Safety!Tests,
     Safety!srdo, Safety!NothingStaleIsSent, Safety!TypeOK, Safety!Pending, Safety!Seqs,
         Safety!Results, SafetyInv,
     Safety!SafetyTestsAssumption, OwedInv
<1>4. ASSUME NEW reply \in [Safety!Tests -> Safety!Results], Safety!Process(reply) PROVE
   Safety!NothingStaleIsSent'
  BY <1>4, SafetyTypeStep, ServicesAssumption
     DEF Safety!Process, Safety!Answer, Safety!PublishStates, Safety!Tests,
     Safety!Pending, Safety!srdo, Safety!NothingStaleIsSent, Safety!TypeOK, Safety!Seqs,
         Safety!Results, Safety!States, SafetyInv,
     Safety!SafetyTestsAssumption, OwedInv
<1>5. CASE Safety!Reset
  BY <1>5, SafetyTypeStep, ServicesAssumption
     DEF Safety!Reset, Safety!ConsumeRequests, Safety!SrdoIdle, Safety!Tests,
     Safety!Nothing, Safety!Unknown, Safety!srdo, Safety!NothingStaleIsSent, Safety!TypeOK,
         Safety!Pending, Safety!Seqs, Safety!Results, Safety!States,
     SafetyInv, Safety!SafetyTestsAssumption, OwedInv
<1>6. CASE Safety!Rebuild
  BY <1>6, SafetyTypeStep, ServicesAssumption
     DEF Safety!Rebuild, Safety!Nothing, Safety!requests, Safety!Tests, Safety!srdo,
     Safety!NothingStaleIsSent, Safety!TypeOK, Safety!Pending, Safety!Seqs, Safety!Results,
         Safety!States, SafetyInv,
     Safety!SafetyTestsAssumption, OwedInv
<1>7. CASE Safety!Bind
  BY <1>7, SafetyTypeStep, ServicesAssumption
     DEF Safety!Bind, Safety!ConsumeRequests, Safety!SrdoIdle,
     Safety!RestoreValue, Safety!Tests, Safety!Nothing, Safety!srdo, Safety!NothingStaleIsSent,
         Safety!TypeOK, Safety!Pending, Safety!Seqs,
     Safety!Results, Safety!States, SafetyInv, Safety!SafetyTestsAssumption, OwedInv
<1>8. CASE Safety!Restart
  BY <1>8, SafetyTypeStep, ServicesAssumption
     DEF Safety!Restart, Safety!srdo, Safety!Tests, Safety!Unknown, Safety!Nothing,
     Safety!NothingStaleIsSent, Safety!TypeOK, Safety!Pending, Safety!Seqs, Safety!Results,
         Safety!States, SafetyInv,
     Safety!SafetyTestsAssumption, OwedInv
<1>q. QED
  BY <1>0, <1>1, <1>2, <1>3, <1>4, <1>5, <1>6, <1>7, <1>8 DEF Safety!Next

LEMMA SafetyStarts == Safety!Init => SafetyInv
<1> SUFFICES ASSUME Safety!Init PROVE SafetyInv
  OBVIOUS
<1>1. safetyRequestSeq \in [Safety!Tests -> Safety!Seqs] /\
    safetyCompleteSeq \in [Safety!Tests -> Safety!Seqs]
  BY ServicesAssumption DEF Safety!Init, Safety!Seqs, Safety!SafetyTestsAssumption
<1>2. safetyResult \in [Safety!Tests -> Safety!Results \cup {"idle"}]
  BY DEF Safety!Init, Safety!Results
<1>3. safetyOwed \in [Safety!Tests -> BOOLEAN] /\ lastSent \in [Safety!Tests -> {"nothing",
    "owed", "stale"}]
  BY DEF Safety!Init, Safety!Nothing
<1>4. Safety!TypeOK
  BY <1>1, <1>2, <1>3 DEF Safety!Init, Safety!TypeOK, Safety!Unknown, Safety!States
<1>q. QED
  BY <1>4 DEF Safety!Init, SafetyInv, Safety!NothingStaleIsSent, OwedInv, Safety!Pending,
     Safety!Nothing

LEMMA SafetyInvariant == Spec => []SafetyInv
<1>1. SafetyInv /\ [Safety!Next]_(Safety!vars) => SafetyInv'
  BY SafetyTypeStep, OwedStep, SentStep DEF SafetyInv, Safety!NothingStaleIsSent
<1>q. QED
  BY <1>1, SafetyStarts, Starts, Steps, PTL DEF Spec

(* A stack sends nothing for the master of the stack before it, and loses  *)
(* no request (CO_demo_gfc.c:61).                                          *)
THEOREM NoStaleRequests == Spec => []Safety!NothingStaleIsSent
<1>1. SafetyInv => Safety!NothingStaleIsSent
  BY DEF SafetyInv
<1>q. QED
  BY <1>1, SafetyInvariant, PTL

(* A fresh stack transmits a sound pair and has answered nothing           *)
(* (CO_demo_srdo.c).                                                       *)
THEOREM StackStartsFresh == Spec => Safety!FreshSrdo
<1>1. SafetyInv /\ [Safety!Next]_(Safety!vars) =>
        [safetyStage = "rebuilt" /\ safetyStage' = "running" =>
           txPair' /\ safetyResult'["srdo"] = "idle" /\ ~Safety!Pending("srdo")']_(Safety!vars)
  <2> SUFFICES ASSUME SafetyInv, Safety!Next, safetyStage = "rebuilt", safetyStage' = "running"
               PROVE  txPair' /\ safetyResult'["srdo"] = "idle" /\ ~Safety!Pending("srdo")'
    OBVIOUS
  <2>1. Safety!Bind
    BY DEF Safety!Next, Safety!Request, Safety!SpoilValue, Safety!SrdoMoves, Safety!Process,
       Safety!Reset, Safety!Rebuild, Safety!Restart
  <2>q. QED
    BY <2>1 DEF Safety!Bind, Safety!ConsumeRequests, Safety!SrdoIdle, Safety!RestoreValue,
       Safety!Pending, SafetyInv, Safety!NothingStaleIsSent,
       Safety!TypeOK, Safety!Tests
<1>q. QED
  BY <1>1, SafetyInvariant, Starts, Steps, PTL DEF Spec, Safety!FreshSrdo

-----------------------------------------------------------------------------
(***************************************************************************)
(* The DOMAIN of object 16#2304.  Two streams can write the buffer.  While *)
(* the pieces since the newest beginning are of one of them, a download    *)
(* under way is the only one that counts: everything up to its offset is   *)
(* its own, and the buffer says that it is being written.                  *)
(***************************************************************************)

(* The pieces of a stream that downloads and has written alone since the   *)
(* newest beginning.                                                       *)
OwnPieces(s) ==
    authors = {s} => writeInProgress /\ \A i \in 1 .. Size : i <= dataOffset[s] => data[i] = content[s]

(* A stream that has stored a piece has an author and its own pieces; one  *)
(* that is closed is at its beginning.                                     *)
PieceInv ==
    /\ validLength = committed[2]
    /\ \A s \in Streams : transfer[s] = "none" => dataOffset[s] = 0
    /\ \A s \in Streams : transfer[s] = "download" /\ dataOffset[s] > 0 => authors # {} /\ OwnPieces(s)

BlockInv == Block!TypeOK /\ PieceInv /\ Block!UploadIsOnePayload

(* The types of the buffer and of the streams.                             *)
BufferOK ==
    /\ data \in [1 .. Size -> Contents] /\ validLength \in Block!Lengths /\ writeInProgress \in BOOLEAN
    /\ committed \in Contents \X Block!Lengths /\ authors \subseteq Streams

StreamsOK ==
    /\ transfer \in [Streams -> {"none", "upload", "download"}]
    /\ dataOffset \in [Streams -> Block!Lengths] /\ dataLength \in [Streams -> Block!Lengths]
    /\ content \in [Streams -> Contents]

LEMMA BlockTypes ==
    /\ Block!TypeOK <=> BufferOK /\ StreamsOK /\ uploaded \in [Streams -> SUBSET Contents]
    /\ Block!TypeOK' <=> BufferOK' /\ StreamsOK' /\ uploaded' \in [Streams -> SUBSET Contents]
BY DEF Block!TypeOK, BufferOK, StreamsOK

LEMMA BlockNumbers ==
    /\ Size \in Nat \ {0} /\ BaseByte \in Contents /\ Block!Lengths \subseteq Nat
    /\ 0 \in Block!Lengths /\ 1 \in Block!Lengths
BY ServicesAssumption DEF Block!SdoBlockTestAssumption, Block!Lengths

(* A stream that is closed is one.                                         *)
LEMMA Closing ==
    ASSUME StreamsOK, NEW s \in Streams, Block!Close(s)
    PROVE  /\ StreamsOK'
           /\ transfer'[s] = "none" /\ dataOffset'[s] = 0
           /\ \A t \in Streams \ {s} : /\ transfer'[t] = transfer[t] /\ dataOffset'[t] = dataOffset[t]
                                       /\ content'[t] = content[t]
BY BlockNumbers DEF StreamsOK, Block!Close

(* What a piece does to the buffer.                                        *)
LEMMA Storing ==
    ASSUME Block!TypeOK, NEW s \in Streams, NEW count \in 1 .. Size, Block!Store(s, count)
    PROVE  /\ data' \in [1 .. Size -> Contents]
           /\ \A i \in 1 .. Size :
                data'[i] = IF i \in dataOffset[s] + 1 .. dataOffset[s] + count THEN content[s]
                                                                              ELSE data[i]
BY DEF Block!TypeOK, Block!Store

(* The end of a piece that fits.                                           *)
LEMMA Fitting ==
    ASSUME Block!TypeOK, NEW s \in Streams, NEW count \in 1 .. Size, Block!Fits(s, count)
    PROVE  /\ dataOffset[s] \in Nat /\ count \in Nat \ {0}
           /\ dataOffset[s] + count \in Block!Lengths /\ dataOffset[s] + count > 0
<1>1. dataOffset[s] \in Nat /\ count <= Size - dataOffset[s]
  BY BlockNumbers DEF Block!TypeOK, Block!Fits
<1>q. QED
  BY <1>1, BlockNumbers DEF Block!Lengths

(* The bytes a piece of an upload brings are of the valid payload.         *)
LEMMA Reading ==
    ASSUME Block!TypeOK, NEW s \in Streams, NEW count \in 1 .. Size
    PROVE  LET end == Block!Smaller(dataOffset[s] + count, validLength)
           IN  /\ end \in Block!Lengths
               /\ \A i \in dataOffset[s] + 1 .. end : i \in 1 .. validLength /\ i \in 1 .. Size
<1>1. dataOffset[s] \in Nat /\ validLength \in 0 .. Size /\ Size \in Nat
  BY BlockNumbers DEF Block!TypeOK, Block!Lengths
<1>q. QED
  BY <1>1 DEF Block!Smaller, Block!Lengths

(* Every step keeps the types.                                             *)
LEMMA BlockTypeStep ==
    ASSUME BlockInv, [Block!Next]_(Block!vars)
    PROVE  Block!TypeOK'
<1> USE DEF BlockInv
<1>0. CASE UNCHANGED Block!vars
  BY <1>0 DEF Block!vars, Block!bufferVars, Block!streamVars, Block!TypeOK
<1>1. ASSUME NEW s \in Streams, Block!OpenUpload(s) PROVE Block!TypeOK'
  BY <1>1 DEF Block!OpenUpload, Block!bufferVars, Block!TypeOK
<1>2. ASSUME NEW s \in Streams, NEW length \in Block!Lengths, Block!OpenDownload(s, length)
      PROVE  Block!TypeOK'
  BY <1>2 DEF Block!OpenDownload, Block!bufferVars, Block!TypeOK
<1>3. ASSUME NEW s \in Streams, Block!Abort(s) PROVE Block!TypeOK'
  BY <1>3, BlockTypes, Closing DEF Block!Abort, Block!bufferVars, BufferOK
<1>4. ASSUME NEW s \in Streams, NEW count \in 1 .. Size, Block!Read(s, count) PROVE Block!TypeOK'
  <2> DEFINE end == Block!Smaller(dataOffset[s] + count, validLength)
             bytes == {data[i] : i \in dataOffset[s] + 1 .. end}
  <2>1. BufferOK'
    BY <1>4, BlockTypes DEF Block!Read, Block!bufferVars, BufferOK
  <2>2. end \in Block!Lengths /\ bytes \subseteq Contents
    BY Reading DEF Block!TypeOK
  <2>3. uploaded' = [uploaded EXCEPT ![s] = @ \cup bytes] \/ UNCHANGED uploaded
    BY <1>4 DEF Block!Read
  <2>4. uploaded' \in [Streams -> SUBSET Contents]
    BY <2>2, <2>3 DEF Block!TypeOK
  <2>5. \/ Block!Close(s)
        \/ /\ dataOffset' = [dataOffset EXCEPT ![s] = end]
           /\ dataLength' = [dataLength EXCEPT ![s] = validLength]
           /\ UNCHANGED <<transfer, content>>
    BY <1>4 DEF Block!Read
  <2>6. StreamsOK'
    BY <2>2, <2>5, BlockTypes, Closing DEF StreamsOK, BufferOK
  <2>q. QED
    BY <2>1, <2>4, <2>6, BlockTypes
<1>5. ASSUME NEW s \in Streams, NEW count \in 1 .. Size, Block!Write(s, count) PROVE Block!TypeOK'
  <2>1. CASE ~Block!Fits(s, count)
    BY <1>5, <2>1, BlockTypes, Closing DEF Block!Write, Block!bufferVars, BufferOK
  <2>2. CASE Block!Fits(s, count)
    <3> DEFINE end == dataOffset[s] + count
    <3>1. end \in Block!Lengths /\ content[s] \in Contents
      BY <2>2, Fitting DEF Block!TypeOK
    <3>2. data' \in [1 .. Size -> Contents]
      BY <1>5, <2>2, Storing DEF Block!Write
    <3>3. authors' \subseteq Streams /\ uploaded' \in [Streams -> SUBSET Contents]
      BY <1>5, <2>2 DEF Block!Write, Block!TypeOK
    <3>4. CASE Block!Complete(s, end)
      <4>1. validLength' = end /\ writeInProgress' = FALSE /\ committed' = <<content[s], end>>
            /\ Block!Close(s)
        BY <1>5, <2>2, <3>4 DEF Block!Write
      <4>q. QED
        BY <3>1, <3>2, <3>3, <4>1, BlockTypes, Closing DEF BufferOK
    <3>5. CASE ~Block!Complete(s, end)
      <4>1. /\ writeInProgress' = (writeInProgress \/ Block!Begins(s))
            /\ dataOffset' = [dataOffset EXCEPT ![s] = end]
            /\ UNCHANGED <<validLength, committed, transfer, dataLength, content>>
        BY <1>5, <2>2, <3>5 DEF Block!Write
      <4>2. writeInProgress' \in BOOLEAN
        BY <4>1 DEF Block!TypeOK, Block!Begins
      <4>q. QED
        BY <3>1, <3>2, <3>3, <4>1, <4>2 DEF Block!TypeOK
    <3>q. QED
      BY <3>4, <3>5
  <2>q. QED
    BY <2>1, <2>2
<1>6. ASSUME NEW s \in Streams, Block!TellLength(s) PROVE Block!TypeOK'
  <2>1. PICK n \in 1 .. Size - dataOffset[s] : dataLength' = [dataLength EXCEPT ![s] = dataOffset[s] + n]
    BY <1>6 DEF Block!TellLength
  <2>2. dataOffset[s] + n \in Block!Lengths
    <3>1. dataOffset[s] \in Nat
      BY BlockNumbers DEF Block!TypeOK
    <3>q. QED
      BY <2>1, <3>1, BlockNumbers DEF Block!Lengths
  <2>q. QED
    BY <1>6, <2>1, <2>2 DEF Block!TellLength, Block!bufferVars, Block!TypeOK
<1>7. CASE Block!Reset
  <2>1. StreamsOK'
    BY <1>7, BlockNumbers DEF Block!Reset, StreamsOK
  <2>2. BufferOK' /\ uploaded' \in [Streams -> SUBSET Contents]
    <3>1. CASE writeInProgress
      <4>1. /\ data' = [data EXCEPT ![1] = BaseByte] /\ validLength' = 1 /\ writeInProgress' = FALSE
            /\ committed' = <<BaseByte, 1>> /\ authors' = {}
            /\ uploaded' = [s \in Streams |-> {}]
        BY <1>7, <3>1 DEF Block!Reset
      <4>2. data' \in [1 .. Size -> Contents]
        BY <4>1, BlockNumbers DEF Block!TypeOK
      <4>3. uploaded' \in [Streams -> SUBSET Contents]
        BY <4>1
      <4>q. QED
        BY <4>1, <4>2, <4>3, BlockNumbers DEF BufferOK
    <3>2. CASE ~writeInProgress
      BY <1>7, <3>2 DEF Block!Reset, Block!bufferVars, BufferOK, Block!TypeOK
    <3>q. QED
      BY <3>1, <3>2
  <2>q. QED
    BY <2>1, <2>2, BlockTypes
<1>q. QED
  BY <1>0, <1>1, <1>2, <1>3, <1>4, <1>5, <1>6, <1>7 DEF Block!Next

(* Every step keeps the pieces of the downloads.                           *)
LEMMA PieceStep ==
    ASSUME BlockInv, [Block!Next]_(Block!vars)
    PROVE  PieceInv'
<1> USE DEF BlockInv
<1>0. CASE UNCHANGED Block!vars
  BY <1>0 DEF Block!vars, Block!bufferVars, Block!streamVars, PieceInv, OwnPieces
<1>1. ASSUME NEW s \in Streams, Block!OpenUpload(s) PROVE PieceInv'
  BY <1>1 DEF Block!OpenUpload, Block!bufferVars, Block!TypeOK, PieceInv, OwnPieces
<1>2. ASSUME NEW s \in Streams, NEW length \in Block!Lengths, Block!OpenDownload(s, length)
      PROVE  PieceInv'
  <2>1. /\ transfer[s] = "none" /\ transfer' = [transfer EXCEPT ![s] = "download"]
        /\ UNCHANGED <<data, validLength, writeInProgress, committed, authors, dataOffset>>
        /\ \A t \in Streams \ {s} : content'[t] = content[t]
    BY <1>2 DEF Block!OpenDownload, Block!bufferVars, Block!TypeOK
  <2>2. dataOffset[s] = 0
    BY <2>1 DEF PieceInv
  <2>q. QED
    BY <2>1, <2>2 DEF Block!TypeOK, PieceInv, OwnPieces
<1>3. ASSUME NEW s \in Streams, Block!Abort(s) PROVE PieceInv'
  BY <1>3, BlockTypes, Closing DEF Block!Abort, Block!bufferVars, PieceInv, OwnPieces
<1>4. ASSUME NEW s \in Streams, NEW count \in 1 .. Size, Block!Read(s, count) PROVE PieceInv'
  <2>1. transfer[s] = "upload" /\ UNCHANGED <<data, validLength, writeInProgress, committed, authors>>
    BY <1>4 DEF Block!Read, Block!bufferVars
  <2>2. CASE Block!Close(s)
    BY <2>1, <2>2, BlockTypes, Closing DEF PieceInv, OwnPieces
  <2>3. CASE ~Block!Close(s)
    <3>1. \A t \in Streams \ {s} : dataOffset'[t] = dataOffset[t]
      BY <1>4, <2>3 DEF Block!Read, Block!TypeOK
    <3>2. UNCHANGED <<transfer, content>>
      BY <1>4, <2>3 DEF Block!Read
    <3>q. QED
      BY <2>1, <3>1, <3>2 DEF PieceInv, OwnPieces
  <2>q. QED
    BY <2>2, <2>3
<1>5. ASSUME NEW s \in Streams, NEW count \in 1 .. Size, Block!Write(s, count) PROVE PieceInv'
  <2>1. CASE ~Block!Fits(s, count)
    BY <1>5, <2>1, BlockTypes, Closing DEF Block!Write, Block!bufferVars, PieceInv, OwnPieces
  <2>2. CASE Block!Fits(s, count)
    <3> DEFINE end == dataOffset[s] + count
    <3>1. s \in authors' /\ transfer[s] = "download"
      BY <1>5, <2>2 DEF Block!Write
    <3>2. CASE Block!Complete(s, end)
      <4>1. validLength' = end /\ committed' = <<content[s], end>> /\ Block!Close(s)
        BY <1>5, <2>2, <3>2 DEF Block!Write
      <4>2. validLength' = committed'[2]
        BY <4>1
      <4>3. \A t \in Streams \ {s} : authors' # {t}
        BY <3>1
      <4>4. \A t \in Streams \ {s} : transfer'[t] = transfer[t] /\ dataOffset'[t] = dataOffset[t]
        BY <4>1, BlockTypes, Closing
      <4>5. transfer'[s] = "none" /\ dataOffset'[s] = 0
        BY <4>1, BlockTypes, Closing
      <4>q. QED
        BY <3>1, <4>2, <4>3, <4>4, <4>5 DEF PieceInv, OwnPieces
    <3>3. CASE ~Block!Complete(s, end)
      <4>1. /\ writeInProgress' = (writeInProgress \/ dataOffset[s] = 0)
            /\ dataOffset' = [dataOffset EXCEPT ![s] = end]
            /\ UNCHANGED <<validLength, committed, transfer, content>>
            /\ authors' = IF dataOffset[s] = 0 THEN {s} ELSE authors \cup {s}
            /\ Block!Store(s, count)
        BY <1>5, <2>2, <3>3 DEF Block!Write, Block!Begins
      <4>2. dataOffset'[s] = end /\ \A t \in Streams \ {s} : dataOffset'[t] = dataOffset[t]
        BY <4>1 DEF Block!TypeOK
      <4>3. dataOffset[s] \in Nat /\ count \in Nat \ {0}
        BY <2>2, Fitting
      <4>4. ASSUME authors' = {s}
            PROVE  writeInProgress' /\ \A i \in 1 .. Size : i <= end => data'[i] = content[s]
        <5>1. dataOffset[s] > 0 => authors = {s}
          BY <3>1, <4>1, <4>3, <4>4 DEF PieceInv
        <5>2. dataOffset[s] > 0 =>
                writeInProgress /\ \A i \in 1 .. Size : i <= dataOffset[s] => data[i] = content[s]
          BY <3>1, <5>1 DEF PieceInv, OwnPieces
        <5>3. dataOffset[s] = 0 \/ dataOffset[s] > 0
          BY <4>3
        <5>4. ASSUME NEW i \in 1 .. Size, i <= end PROVE data'[i] = content[s]
          <6>1. i \in dataOffset[s] + 1 .. end \/ (dataOffset[s] > 0 /\ i <= dataOffset[s])
            BY <4>3, <5>4, BlockNumbers
          <6>q. QED
            BY <4>1, <5>2, <6>1, Storing
        <5>q. QED
          BY <4>1, <5>2, <5>3, <5>4
      <4>5. \A t \in Streams \ {s} : authors' # {t}
        BY <3>1
      <4>q. QED
        BY <3>1, <4>1, <4>2, <4>4, <4>5 DEF PieceInv, OwnPieces
    <3>q. QED
      BY <3>2, <3>3
  <2>q. QED
    BY <2>1, <2>2
<1>6. ASSUME NEW s \in Streams, Block!TellLength(s) PROVE PieceInv'
  BY <1>6 DEF Block!TellLength, Block!bufferVars, PieceInv, OwnPieces
<1>7. CASE Block!Reset
  <2>1. \A s \in Streams : transfer'[s] = "none" /\ dataOffset'[s] = 0
    BY <1>7 DEF Block!Reset
  <2>2. validLength' = committed'[2]
    BY <1>7 DEF Block!Reset, Block!bufferVars, PieceInv
  <2>q. QED
    BY <2>1, <2>2 DEF PieceInv
<1>q. QED
  BY <1>0, <1>1, <1>2, <1>3, <1>4, <1>5, <1>6, <1>7 DEF Block!Next

(* Every step keeps what the uploads have read, and what is committed.     *)
LEMMA UploadStep ==
    ASSUME BlockInv, [Block!Next]_(Block!vars)
    PROVE  Block!UploadIsOnePayload'
<1> USE DEF BlockInv
<1>0. ASSUME UNCHANGED Block!bufferVars, \A s \in Streams : uploaded'[s] \in {uploaded[s], {}}
      PROVE  Block!UploadIsOnePayload'
  BY <1>0 DEF Block!bufferVars, Block!UploadIsOnePayload, Block!OneAuthor, Block!IsCommitted
<1>1. ASSUME NEW s \in Streams, Block!OpenUpload(s) PROVE Block!UploadIsOnePayload'
  BY <1>0, <1>1 DEF Block!OpenUpload, Block!TypeOK
<1>2. ASSUME NEW s \in Streams, NEW count \in 1 .. Size, Block!Read(s, count)
      PROVE  Block!UploadIsOnePayload'
  <2> DEFINE end == Block!Smaller(dataOffset[s] + count, validLength)
             bytes == {data[i] : i \in dataOffset[s] + 1 .. end}
  <2>1. UNCHANGED Block!bufferVars
    BY <1>2 DEF Block!Read
  <2>2. CASE ~Block!Readable(s)
    BY <1>0, <1>2, <2>1, <2>2 DEF Block!Read
  <2>3. CASE Block!Readable(s)
    <3>1. uploaded' = [uploaded EXCEPT ![s] = @ \cup bytes]
      BY <1>2, <2>3 DEF Block!Read
    <3>2. ASSUME Block!OneAuthor PROVE bytes \subseteq {committed[1]}
      <4>1. \A i \in 1 .. validLength : data[i] = committed[1]
        BY <2>3, <3>2 DEF Block!Readable, Block!UploadIsOnePayload, Block!IsCommitted
      <4>q. QED
        BY <4>1, Reading
    <3>q. QED
      BY <2>1, <3>1, <3>2 DEF Block!bufferVars, Block!UploadIsOnePayload, Block!OneAuthor,
                              Block!IsCommitted, Block!TypeOK
  <2>q. QED
    BY <2>2, <2>3
<1>3. ASSUME NEW s \in Streams, NEW count \in 1 .. Size, Block!Write(s, count)
      PROVE  Block!UploadIsOnePayload'
  <2>1. CASE ~Block!Fits(s, count)
    BY <1>0, <1>3, <2>1 DEF Block!Write
  <2>2. CASE Block!Fits(s, count)
    <3> DEFINE end == dataOffset[s] + count
    <3>1. transfer[s] = "download" /\ Block!Store(s, count)
          /\ authors' = (IF dataOffset[s] = 0 THEN {s} ELSE authors \cup {s})
          /\ \A t \in Streams : uploaded'[t] = {}
      BY <1>3, <2>2 DEF Block!Write, Block!Begins
    <3>2. dataOffset[s] \in Nat /\ count \in Nat \ {0} /\ end \in 0 .. Size
      BY <2>2, Fitting DEF Block!Lengths
    <3>3. ASSUME Block!OneAuthor', dataOffset[s] > 0
          PROVE  writeInProgress /\ \A i \in 1 .. Size : i <= dataOffset[s] => data[i] = content[s]
      <4>1. authors \subseteq {s} /\ authors # {}
        BY <3>1, <3>2, <3>3 DEF Block!OneAuthor, PieceInv
      <4>2. authors = {s}
        BY <4>1
      <4>q. QED
        BY <3>1, <3>3, <4>2 DEF PieceInv, OwnPieces
    <3>4. CASE Block!Complete(s, end)
      <4>1. validLength' = end /\ committed' = <<content[s], end>>
        BY <1>3, <2>2, <3>4 DEF Block!Write
      <4>2. ASSUME Block!OneAuthor', NEW i \in 1 .. end PROVE data'[i] = content[s]
        <5>1. i \in 1 .. Size /\ (i \in dataOffset[s] + 1 .. end \/ (dataOffset[s] > 0 /\ i <= dataOffset[s]))
          BY <3>2, <4>2, BlockNumbers
        <5>q. QED
          BY <3>1, <3>3, <4>2, <5>1, Storing
      <4>q. QED
        BY <3>1, <4>1, <4>2 DEF Block!UploadIsOnePayload, Block!IsCommitted
    <3>5. CASE ~Block!Complete(s, end)
      <4>1. writeInProgress' = (writeInProgress \/ dataOffset[s] = 0)
        BY <1>3, <2>2, <3>5 DEF Block!Write, Block!Begins
      <4>2. dataOffset[s] = 0 \/ dataOffset[s] > 0
        BY <3>2
      <4>3. Block!OneAuthor' => writeInProgress'
        BY <3>3, <4>1, <4>2
      <4>q. QED
        BY <3>1, <4>3 DEF Block!UploadIsOnePayload
    <3>q. QED
      BY <3>4, <3>5
  <2>q. QED
    BY <2>1, <2>2
<1>4. CASE Block!Reset
  <2>1. CASE writeInProgress
    <3>1. /\ data' = [data EXCEPT ![1] = BaseByte] /\ validLength' = 1 /\ committed' = <<BaseByte, 1>>
          /\ \A s \in Streams : uploaded'[s] = {}
      BY <1>4, <2>1 DEF Block!Reset
    <3>2. 1 \in 1 .. Size
      BY BlockNumbers
    <3>3. data'[1] = BaseByte
      BY <3>1, <3>2 DEF Block!TypeOK
    <3>4. Block!IsCommitted'
      BY <3>1, <3>3 DEF Block!IsCommitted
    <3>q. QED
      BY <3>1, <3>4 DEF Block!UploadIsOnePayload
  <2>2. CASE ~writeInProgress
    BY <1>0, <1>4, <2>2 DEF Block!Reset
  <2>q. QED
    BY <2>1, <2>2
<1>5. CASE UNCHANGED Block!vars
  BY <1>0, <1>5 DEF Block!vars
<1>6. ASSUME NEW s \in Streams,
             Block!Abort(s) \/ Block!TellLength(s)
               \/ \E length \in Block!Lengths : Block!OpenDownload(s, length)
      PROVE  Block!UploadIsOnePayload'
  BY <1>0, <1>6 DEF Block!Abort, Block!TellLength, Block!OpenDownload
<1>q. QED
  BY <1>1, <1>2, <1>3, <1>4, <1>5, <1>6 DEF Block!Next

LEMMA BlockStarts == Block!Init => BlockInv
<1> SUFFICES ASSUME Block!Init PROVE BlockInv
  OBVIOUS
<1>1. Block!TypeOK
  BY BlockNumbers DEF Block!Init, Block!TypeOK
<1>2. PieceInv /\ Block!UploadIsOnePayload
  BY BlockNumbers DEF Block!Init, PieceInv, Block!UploadIsOnePayload, Block!IsCommitted
<1>q. QED
  BY <1>1, <1>2 DEF BlockInv

LEMMA BlockInvariant == Spec => []BlockInv
<1>1. BlockInv /\ [Block!Next]_(Block!vars) => BlockInv'
  BY BlockTypeStep, UploadStep, PieceStep DEF BlockInv
<1>q. QED
  BY <1>1, BlockStarts, Starts, Steps, PTL DEF Spec

(* While one stream alone has written since the newest beginning of a      *)
(* download, the buffer that is not being written is the payload committed *)
(* last, and an upload reads nothing else (CO_demo_sdo_block.c:42).        *)
THEOREM UploadsAreWhole == Spec => []Block!UploadIsOnePayload
<1>1. BlockInv => Block!UploadIsOnePayload
  BY DEF BlockInv
<1>q. QED
  BY <1>1, BlockInvariant, PTL

-----------------------------------------------------------------------------
(* The properties of Services *)

(* co_rx works on an open module to its last instruction, and leaves no    *)
(* indicated frame in the device without a token to fetch it               *)
(* (CO_driver_rtthread.c:846).                                             *)
THEOREM ReceptionIsSafe == Spec => []RxPathIsSafe
<1>1. Rx!RxPathIsSafe => RxPathIsSafe
  BY DEF RxPathIsSafe
<1> QED
  BY <1>1, RxPathSafe, PTL

(* The receive path keeps the promise on which the application's teardown  *)
(* relies: co_rx is told, it leaves, and only then the module is closed.   *)
THEOREM PathImplementsDrain == Spec => DrainSpec
BY ImplementsDrain DEF DrainSpec

(* The EEPROM's areas are disjoint and inside the device, and a store that *)
(* 16#1010 has confirmed is what the next start reads, a payload of zeros  *)
(* excepted: its CRC is what an unreadable block shows                     *)
(* (CO_storage_RTT_eeprom.c:92, CO_storage_RTT_at24c.c:566).               *)
THEOREM StorageSafe == Spec => []StorageIsSafe
<1>1. Layout!LayoutIsSound /\ Eeprom!StoreIsHonest => StorageIsSafe
  BY DEF StorageIsSafe
<1> QED
  BY <1>1, LayoutSound, StoresAreHonest, PTL

(* A demo program reports what happened, whatever is lost, overtaken or    *)
(* reset meanwhile (CO_demo_nmt_master.c, CO_demo_storage.c,               *)
(* CO_demo_emcy_consumer.c:33, CO_demo_gfc.c:61).                          *)
THEOREM TestsReportTruly == Spec => []TestsAreSound
<1>1. /\ Nmt!NmtTestIsSound /\ Store!BackupIsBaseline /\ Store!NothingIsReplayed
      /\ Emcy!ShownIsOneMessage /\ Safety!NothingStaleIsSent
      => TestsAreSound
  BY DEF TestsAreSound
<1> QED
  BY <1>1, NmtTestsAreSound, BackupsAreTrue, OneMessageIsShown, NoStaleRequests, PTL

(* An SDO test says SUCCESS only of a transfer that left no byte behind    *)
(* and agreed with every length that was announced                         *)
(* (CO_demo_sdo_client.c:249, :310), and an upload of the test object is   *)
(* of one payload unless two streams write it (CO_demo_sdo_block.c:42).    *)
THEOREM TransfersAreTrue == Spec => []TransfersAreWhole
<1>1. Sdo!SdoTestIsSound /\ Block!UploadIsOnePayload => TransfersAreWhole
  BY DEF TransfersAreWhole
<1> QED
  BY <1>1, SdoTestsAreSound, UploadsAreWhole, PTL

(* A restore brings back the back-up that was taken, and a fresh stack     *)
(* starts with nothing of the old one's tests (CO_demo_storage.c,          *)
(* CO_demo_srdo.c).                                                        *)
THEOREM StacksStartClean == Spec => TestsStartClean
BY RestoresAreHonest, StackStartsFresh, PTL DEF TestsStartClean

=============================================================================
