-------------------------- MODULE LssBitrate_proofs --------------------------
(***************************************************************************)
(* Proofs about LssBitrate: no frame is on its way while the bitrate is    *)
(* switched, and the node knows its bitrate or is silent, for any senders, *)
(* bitrates, delays and tick width.                                        *)
(***************************************************************************)
EXTENDS LssBitrate, WellFoundedInduction, TLAPS

Switching == {"set_ok", "restore", "restore_ok", "restore_failed"}

FlagInv == gate \in BOOLEAN /\ normal \in BOOLEAN

(* co_main is inside the mutex while it switches, a sender for its pass. *)
LockInv ==
    /\ tx \in [Senders -> {"out", "send", "submit", "sent"}]
    /\ \A s \in Senders : mutex = s <=> tx[s] # "out"
    /\ mutex = "co_main" <=> mpc \in {"set", "restore"}
    /\ mutex \in Senders \cup {"co_main", None}
    /\ mpc = "dead" => mutex = None

(* An activation goes from PRE_DELAY to the switch with the gate closed,   *)
(* and the frames that passed the gate before are gone by then.            *)
GateInv ==
    /\ gate => state = "IDLE"
    /\ mpc \in {"lock", "set"} \cup Switching => state = "PRE_DELAY"
    /\ \A s \in Senders : tx[s] = "submit" =>
           state \in {"IDLE", "PRE_DELAY"} /\ mpc \notin {"set", "dead"} \cup Switching

(* What the controller runs at, at each point of the switch. *)
RateInv ==
    /\ mpc \notin Switching \cup {"dead"} /\ state # "FAILED" => hw = baudrate /\ normal
    /\ mpc = "set_ok" => hw = target /\ normal
    /\ mpc = "restore_ok" => hw = previous /\ normal
    /\ state = "FAILED" /\ mpc # "dead" => ~gate /\ ~normal

IInv == FlagInv /\ LockInv /\ GateInv /\ RateInv

-----------------------------------------------------------------------------
(* Every step of co_main and the senders leaves the two flags Boolean. *)
LEMMA FlagStep == IInv /\ [Next]_vars => FlagInv'
<1> SUFFICES ASSUME IInv, [Next]_vars PROVE FlagInv'
  OBVIOUS
<1> USE BitrateAssumption DEF BitrateAssumption, IInv, lssVars,
      rateVars, timeVars, canVars, FlagInv
<1>1. CASE Tick
  BY <1>1 DEF Tick
<1>2. CASE MainTop
  BY <1>2 DEF MainTop
<1>3. CASE MainProcess
  BY <1>3 DEF MainProcess, Configure, Activate
<1>4. CASE LssProcess
  BY <1>4 DEF LssProcess, Finish
<1>5. CASE Set
  BY <1>5 DEF Set, SetBitrate
<1>6. CASE Restore
  BY <1>6 DEF Restore, SetBitrate
<1>7. CASE Switched
  BY <1>7 DEF Switched, Finish
<1>8. CASE RolledBack
  BY <1>8 DEF RolledBack, Finish
<1>9. CASE Failed
  BY <1>9 DEF Failed, FailedState, GivenUp, FailedGate, GateShut
<1>10. CASE SwitchLock
  BY <1>10 DEF SwitchLock, MayLock, MutexFree
<1>11. CASE ResetCommunication
  BY <1>11 DEF ResetCommunication, MutexFree, Finish
<1>12. CASE \E s \in Senders : SendLock(s)
  BY <1>12 DEF SendLock, TxGoto, MutexFree
<1>13. CASE \E s \in Senders : SendGate(s)
  BY <1>13 DEF SendGate, TxGoto
<1>14. CASE \E s \in Senders : SendSubmit(s)
  BY <1>14 DEF SendSubmit, TxGoto
<1>15. CASE \E s \in Senders : SendAgain(s)
  BY <1>15 DEF SendAgain, TxGoto
<1>16. CASE \E s \in Senders : SendUnlock(s)
  BY <1>16 DEF SendUnlock, TxGoto
<1>17. CASE UNCHANGED vars
  BY <1>17 DEF vars
<1>18. QED
  BY <1>1, <1>2, <1>3, <1>4, <1>5, <1>6, <1>7, <1>8,
     <1>9, <1>10, <1>11, <1>12, <1>13, <1>14, <1>15, <1>16, <1>17 DEF Next, MainStep

(* lifecycleMutex is taken and given back in pairs by co_main and senders. *)
LEMMA LockStep == IInv /\ [Next]_vars => LockInv'
<1> SUFFICES ASSUME IInv, [Next]_vars PROVE LockInv'
  OBVIOUS
<1> USE BitrateAssumption DEF BitrateAssumption, IInv, lssVars,
      rateVars, timeVars, canVars, LockInv, Switching
<1>1. CASE Tick
  BY <1>1 DEF Tick
<1>2. CASE MainTop
  BY <1>2 DEF MainTop
<1>3. CASE MainProcess
  BY <1>3 DEF MainProcess, Configure, Activate
<1>4. CASE LssProcess
  BY <1>4 DEF LssProcess, Finish
<1>5. CASE Set
  BY <1>5 DEF Set, SetBitrate
<1>6. CASE Restore
  BY <1>6 DEF Restore, SetBitrate
<1>7. CASE Switched
  BY <1>7 DEF Switched, Finish
<1>8. CASE RolledBack
  BY <1>8 DEF RolledBack, Finish
<1>9. CASE Failed
  BY <1>9 DEF Failed, FailedState, GivenUp, FailedGate, GateShut
<1>10. CASE SwitchLock
  BY <1>10 DEF SwitchLock, MayLock, MutexFree
<1>11. CASE ResetCommunication
  BY <1>11 DEF ResetCommunication, MutexFree, Finish
<1>12. CASE \E s \in Senders : SendLock(s)
  BY <1>12 DEF SendLock, TxGoto, MutexFree
<1>13. CASE \E s \in Senders : SendGate(s)
  BY <1>13 DEF SendGate, TxGoto
<1>14. CASE \E s \in Senders : SendSubmit(s)
  BY <1>14 DEF SendSubmit, TxGoto
<1>15. CASE \E s \in Senders : SendAgain(s)
  BY <1>15 DEF SendAgain, TxGoto
<1>16. CASE \E s \in Senders : SendUnlock(s)
  BY <1>16 DEF SendUnlock, TxGoto
<1>17. CASE UNCHANGED vars
  BY <1>17 DEF vars
<1>18. QED
  BY <1>1, <1>2, <1>3, <1>4, <1>5, <1>6, <1>7, <1>8,
     <1>9, <1>10, <1>11, <1>12, <1>13, <1>14, <1>15, <1>16, <1>17 DEF Next, MainStep

(* The gate of CO_CANsend() closes before the switch and opens after it. *)
LEMMA GateStep == IInv /\ [Next]_vars => GateInv'
<1> SUFFICES ASSUME IInv, [Next]_vars PROVE GateInv'
  OBVIOUS
<1> USE BitrateAssumption DEF BitrateAssumption, IInv, lssVars,
      rateVars, timeVars, canVars, LockInv, GateInv,
      Switching
<1>1. CASE Tick
  BY <1>1 DEF Tick
<1>2. CASE MainTop
  BY <1>2 DEF MainTop
<1>3. CASE MainProcess
  BY <1>3 DEF MainProcess, Configure, Activate
<1>4. CASE LssProcess
  BY <1>4 DEF LssProcess, Finish
<1>5. CASE Set
  BY <1>5 DEF Set, SetBitrate
<1>6. CASE Restore
  BY <1>6 DEF Restore, SetBitrate
<1>7. CASE Switched
  BY <1>7 DEF Switched, Finish
<1>8. CASE RolledBack
  BY <1>8 DEF RolledBack, Finish
<1>9. CASE Failed
  BY <1>9 DEF Failed, FailedState, GivenUp, FailedGate, GateShut
<1>10. CASE SwitchLock
  BY <1>10 DEF SwitchLock, MayLock, MutexFree
<1>11. CASE ResetCommunication
  BY <1>11 DEF ResetCommunication, MutexFree, Finish
<1>12. CASE \E s \in Senders : SendLock(s)
  BY <1>12 DEF SendLock, TxGoto, MutexFree
<1>13. CASE \E s \in Senders : SendGate(s)
  BY <1>13 DEF SendGate, TxGoto
<1>14. CASE \E s \in Senders : SendSubmit(s)
  BY <1>14 DEF SendSubmit, TxGoto
<1>15. CASE \E s \in Senders : SendAgain(s)
  BY <1>15 DEF SendAgain, TxGoto
<1>16. CASE \E s \in Senders : SendUnlock(s)
  BY <1>16 DEF SendUnlock, TxGoto
<1>17. CASE UNCHANGED vars
  BY <1>17 DEF vars
<1>18. QED
  BY <1>1, <1>2, <1>3, <1>4, <1>5, <1>6, <1>7, <1>8,
     <1>9, <1>10, <1>11, <1>12, <1>13, <1>14, <1>15, <1>16, <1>17 DEF Next, MainStep

(* The switch and the rollback leave the controller at a known bitrate, or *)
(* the node is failed.                                                     *)
LEMMA RateStep == IInv /\ [Next]_vars => RateInv'
<1> SUFFICES ASSUME IInv, [Next]_vars PROVE RateInv'
  OBVIOUS
<1> USE BitrateAssumption DEF BitrateAssumption, IInv, lssVars,
      rateVars, timeVars, canVars, FlagInv, GateInv, RateInv,
      Switching
<1>1. CASE Tick
  BY <1>1 DEF Tick
<1>2. CASE MainTop
  BY <1>2 DEF MainTop
<1>3. CASE MainProcess
  BY <1>3 DEF MainProcess, Configure, Activate
<1>4. CASE LssProcess
  BY <1>4 DEF LssProcess, Finish
<1>5. CASE Set
  BY <1>5 DEF Set, SetBitrate
<1>6. CASE Restore
  BY <1>6 DEF Restore, SetBitrate
<1>7. CASE Switched
  BY <1>7 DEF Switched, Finish
<1>8. CASE RolledBack
  BY <1>8 DEF RolledBack, Finish
<1>9. CASE Failed
  BY <1>9 DEF Failed, FailedState, GivenUp, FailedGate, GateShut
<1>10. CASE SwitchLock
  BY <1>10 DEF SwitchLock, MayLock, MutexFree
<1>11. CASE ResetCommunication
  BY <1>11 DEF ResetCommunication, MutexFree, Finish
<1>12. CASE \E s \in Senders : SendLock(s)
  BY <1>12 DEF SendLock, TxGoto, MutexFree
<1>13. CASE \E s \in Senders : SendGate(s)
  BY <1>13 DEF SendGate, TxGoto
<1>14. CASE \E s \in Senders : SendSubmit(s)
  BY <1>14 DEF SendSubmit, TxGoto
<1>15. CASE \E s \in Senders : SendAgain(s)
  BY <1>15 DEF SendAgain, TxGoto
<1>16. CASE \E s \in Senders : SendUnlock(s)
  BY <1>16 DEF SendUnlock, TxGoto
<1>17. CASE UNCHANGED vars
  BY <1>17 DEF vars
<1>18. QED
  BY <1>1, <1>2, <1>3, <1>4, <1>5, <1>6, <1>7, <1>8,
     <1>9, <1>10, <1>11, <1>12, <1>13, <1>14, <1>15, <1>16, <1>17 DEF Next, MainStep

(* The first start is at the startup bitrate with the gate open. *)
LEMMA InitInv == Init => IInv
<1> SUFFICES ASSUME Init PROVE IInv
  OBVIOUS
<1> USE BitrateAssumption DEF BitrateAssumption, Init, Switching
<1>1. FlagInv
  BY DEF FlagInv
<1>2. LockInv
  BY DEF LockInv
<1>3. GateInv
  BY DEF GateInv
<1>4. RateInv
  BY DEF RateInv
<1>5. QED BY <1>1, <1>2, <1>3, <1>4 DEF IInv

(* The invariant holds whatever the controller answers and whenever a      *)
(* communication reset falls into an activation.                           *)
THEOREM Invariant == Spec => []IInv
<1>1. IInv /\ [Next]_vars => IInv'
  BY FlagStep, LockStep, GateStep, RateStep DEF IInv
<1>2. QED BY InitInv, <1>1, PTL DEF Spec

-----------------------------------------------------------------------------
(* No frame that CO_CANsend() let through is on its way while the bitrate  *)
(* is switched or a delay after the switch is running.                     *)
THEOREM FramesAreSafe == Spec => []InTransitAtActiveRate
<1>1. IInv => InTransitAtActiveRate
  BY DEF IInv, GateInv, RateInv, InTransitAtActiveRate, Switching
<1>2. QED BY <1>1, Invariant, PTL

(* Back at the top of its loop, co_main has the node at the bitrate it     *)
(* believes in, or has silenced it.                                        *)
THEOREM RateIsKnown == Spec => []ActiveRateIsKnown
<1>1. IInv => ActiveRateIsKnown
  BY DEF IInv, GateInv, RateInv, ActiveRateIsKnown, Switching
<1>2. QED BY <1>1, Invariant, PTL

(* Every frame goes out at the bitrate the node has chosen and knows.      *)
THEOREM BitrateIsKept == Spec => []BitrateIsSafe
<1>1. InTransitAtActiveRate /\ ActiveRateIsKnown => BitrateIsSafe
  BY DEF BitrateIsSafe
<1>2. QED BY FramesAreSafe, RateIsKnown, <1>1, PTL

-----------------------------------------------------------------------------
(* The delay before the switch *)

(* A set of naturals has a least member. *)
LEMMA LeastNatural ==
    ASSUME NEW S, S \subseteq Nat, S # {}
    PROVE  \E n \in S : \A m \in S : n <= m
<1> DEFINE Below == {p \in Nat \X Nat : p[1] < p[2]}
<1>1. OpToRel(<, Nat) = Below
  BY DEF OpToRel
<1>2. IsWellFoundedOn(Below, Nat)
  BY <1>1, NatLessThanWellFounded
<1>3. \E x \in S : \A y \in S : ~ (<<y, x>> \in Below)
  <2> HIDE DEF Below
  <2>q. QED
    BY <1>2, WFMin
<1>4. \A x, y \in Nat : <<y, x>> \in Below <=> y < x
  OBVIOUS
<1>5. PICK x \in S : \A y \in S : ~ (<<y, x>> \in Below)
  BY <1>3
<1>6. ASSUME NEW y \in S PROVE x <= y
  <2>1. x \in Nat /\ y \in Nat
    OBVIOUS
  <2>2. ~(y < x)
    BY <1>4, <1>5, <2>1
  <2>q. QED
    BY <2>1, <2>2
<1>q. QED
  BY <1>6

(* Longest is what its name says. *)
LEMMA LongestDelay ==
    ASSUME NEW d \in Delays
    PROVE  Longest \in Nat /\ d <= Longest
<1> DEFINE Top  == Span \div 2 - MaxPass - 1
           Gaps == {Top - e : e \in Delays}
<1>1. Delays \subseteq 0 .. Top /\ Top \in Int
  BY BitrateAssumption DEF BitrateAssumption
<1>2. Gaps \subseteq Nat /\ Gaps # {}
  BY <1>1
<1>3. PICK g \in Gaps : \A h \in Gaps : g <= h
  BY <1>2, LeastNatural
<1>4. PICK m \in Delays : g = Top - m
  OBVIOUS
<1>5. ASSUME NEW e \in Delays PROVE e <= m
  <2>1. Top - e \in Gaps
    OBVIOUS
  <2>2. Top - m <= Top - e
    BY <1>3, <1>4, <2>1
  <2>q. QED
    BY <1>1, <2>2
<1>6. Longest \in Delays /\ \A e \in Delays : e <= Longest
  BY <1>4, <1>5 DEF Longest
<1>q. QED
  BY <1>1, <1>6

(* The tick, a delay beyond it, and the distance of two ticks. *)
LEMMA Wrapped ==
    ASSUME NEW x \in Int, Span \in Nat, 0 - Span <= x, x < Span + Span
    PROVE  x % Span = IF x < 0 THEN x + Span ELSE IF x < Span THEN x ELSE x - Span
  BY SMTT(30)

(* A pass and a delay stay below half the range of the tick. *)
LEMMA DelaysFit ==
    ASSUME NEW d \in Delays
    PROVE  /\ d \in Nat /\ Span \in Nat /\ MaxPass \in Nat \ {0} /\ Span > 0
           /\ d + MaxPass < Span \div 2 /\ Span \div 2 \in Nat
           /\ Span \div 2 + Span \div 2 <= Span
  BY BitrateAssumption DEF BitrateAssumption

(* How long co_main's pass has run, and how much of the delay is left: the *)
(* true time since the activation against the deadline on the tick.        *)
PassInv ==
    /\ now \in 0 .. Span - 1 /\ nowMs \in 0 .. Span - 1 /\ silence \in Nat
    /\ mpc # "dead" => (now - nowMs) % Span <= MaxPass

DelayInv ==
    /\ state = "PRE_DELAY" => delay \in Delays
    /\ state = "PRE_DELAY" /\ mpc \notin Switching /\ silence < delay =>
           deadline = (now + (delay - silence)) % Span
    /\ mpc \in {"lock", "set"} => silence >= delay

TimeInv == PassInv /\ DelayInv

(* Time runs on in a pass, and a pass starts at the present tick. *)
LEMMA PassStep == IInv /\ TimeInv /\ [Next]_vars => PassInv'
<1> SUFFICES ASSUME IInv, TimeInv, [Next]_vars PROVE PassInv'
  OBVIOUS
<1> USE BitrateAssumption DEF BitrateAssumption, IInv, lssVars,
      rateVars, timeVars, canVars, TimeInv, PassInv
<1>1. CASE Tick
  <2>0. Span \in Nat /\ Span > 0 /\ now \in 0 .. Span - 1 /\ nowMs \in 0 .. Span - 1
    OBVIOUS
  <2>1. now' = (now + 1) % Span /\ silence' \in Nat /\ UNCHANGED <<nowMs, mpc>>
    BY <1>1 DEF Tick
  <2>2. now' = IF now + 1 < Span THEN now + 1 ELSE now + 1 - Span
    BY <2>0, <2>1, Wrapped
  <2>3. ASSUME mpc # "dead" PROVE (now' - nowMs) % Span <= MaxPass
    <3>1. (now - nowMs) % Span < MaxPass
      BY <1>1, <2>3 DEF Tick
    <3>2. (now - nowMs) % Span = IF now < nowMs THEN now - nowMs + Span ELSE now - nowMs
      BY <2>0, Wrapped
    <3>3. now' \in 0 .. Span - 1
      BY <2>0, <2>2
    <3>4. (now' - nowMs) % Span = IF now' < nowMs THEN now' - nowMs + Span ELSE now' - nowMs
      BY <2>0, <3>3, Wrapped
    <3>q. QED
      BY <2>0, <2>2, <3>1, <3>2, <3>3, <3>4
  <2>q. QED
    BY <2>0, <2>1, <2>2, <2>3
<1>2. CASE MainTop
  <2>1. now' = now /\ nowMs' = now /\ silence' = silence
    BY <1>2 DEF MainTop
  <2>2. (now - now) % Span = 0
    BY Wrapped
  <2>q. QED
    BY <2>1, <2>2
<1>3. CASE MainProcess
  BY <1>3 DEF MainProcess, Configure, Activate
<1>4. CASE LssProcess
  BY <1>4 DEF LssProcess, Finish
<1>5. CASE Set
  BY <1>5 DEF Set, SetBitrate
<1>6. CASE Restore
  BY <1>6 DEF Restore, SetBitrate
<1>7. CASE Switched
  BY <1>7 DEF Switched, Finish
<1>8. CASE RolledBack
  BY <1>8 DEF RolledBack, Finish
<1>9. CASE Failed
  BY <1>9 DEF Failed, FailedState, GivenUp, FailedGate, GateShut
<1>10. CASE SwitchLock
  BY <1>10 DEF SwitchLock, MayLock, MutexFree
<1>11. CASE ResetCommunication
  BY <1>11 DEF ResetCommunication, MutexFree, Finish
<1>12. CASE \E s \in Senders : SendLock(s)
  BY <1>12 DEF SendLock, TxGoto, MutexFree
<1>13. CASE \E s \in Senders : SendGate(s)
  BY <1>13 DEF SendGate, TxGoto
<1>14. CASE \E s \in Senders : SendSubmit(s)
  BY <1>14 DEF SendSubmit, TxGoto
<1>15. CASE \E s \in Senders : SendAgain(s)
  BY <1>15 DEF SendAgain, TxGoto
<1>16. CASE \E s \in Senders : SendUnlock(s)
  BY <1>16 DEF SendUnlock, TxGoto
<1>17. CASE UNCHANGED vars
  BY <1>17 DEF vars
<1>18. QED
  BY <1>1, <1>2, <1>3, <1>4, <1>5, <1>6, <1>7, <1>8,
     <1>9, <1>10, <1>11, <1>12, <1>13, <1>14, <1>15, <1>16, <1>17 DEF Next, MainStep

(* The deadline stays where the delay puts it until the delay has passed. *)
LEMMA DelayStep == IInv /\ TimeInv /\ [Next]_vars => DelayInv'
<1> SUFFICES ASSUME IInv, TimeInv, [Next]_vars PROVE DelayInv'
  OBVIOUS
<1> USE BitrateAssumption DEF BitrateAssumption, IInv, lssVars,
      rateVars, timeVars, canVars, TimeInv, PassInv, DelayInv, GateInv, Switching
<1>1. CASE Tick
  <2>0. UNCHANGED <<lssVars, mpc>> /\ now' = (now + 1) % Span /\ silence' >= silence
    BY <1>1 DEF Tick
  <2>1. ASSUME state = "PRE_DELAY", mpc \notin Switching, silence' < delay
        PROVE  deadline = (now' + (delay - silence')) % Span
    <3>1. delay \in Delays
      BY <2>1
    <3>2. silence' = silence + 1
      BY <1>1, <2>1, <3>1, LongestDelay DEF Tick
    <3>3. Span \in Nat /\ Span > 0 /\ delay \in Nat /\ delay < Span
      BY <3>1, DelaysFit
    <3>4. silence < delay /\ deadline = (now + (delay - silence)) % Span
      BY <2>1, <3>2, <3>3
    <3>5. now' = IF now + 1 < Span THEN now + 1 ELSE now + 1 - Span
      BY <2>0, <3>3, Wrapped
    <3>6. deadline = IF now + (delay - silence) < Span THEN now + (delay - silence)
                     ELSE now + (delay - silence) - Span
      BY <2>1, <3>2, <3>3, <3>4, Wrapped
    <3>7. (now' + (delay - silence')) % Span =
              IF now' + (delay - silence') < Span THEN now' + (delay - silence')
              ELSE now' + (delay - silence') - Span
      BY <2>1, <3>2, <3>3, <3>5, Wrapped
    <3>q. QED
      BY <2>1, <3>2, <3>3, <3>5, <3>6, <3>7
  <2>2. mpc \in {"lock", "set"} => silence' >= delay
    <3>1. ASSUME mpc \in {"lock", "set"} PROVE silence' >= delay
      <4>1. silence >= delay /\ state = "PRE_DELAY"
        BY <3>1
      <4>2. delay \in Nat
        BY <4>1, DelaysFit
      <4>q. QED
        BY <2>0, <4>1, <4>2, <1>1 DEF Tick
    <3>q. QED
      BY <3>1
  <2>q. QED
    BY <2>0, <2>1, <2>2
<1>2. CASE MainTop
  BY <1>2 DEF MainTop
<1>3. CASE MainProcess
  BY <1>3 DEF MainProcess, Configure, Activate
<1>4. CASE LssProcess
  <2>1. ASSUME state = "PRE_DELAY", Reached(nowMs, deadline), mpc = "lss" PROVE silence >= delay
    <3>1. delay \in Delays
      BY <2>1
    <3>2. /\ delay \in Nat /\ Span \in Nat /\ Span > 0 /\ MaxPass \in Nat
          /\ delay + MaxPass < Span \div 2 /\ Span \div 2 \in Nat
          /\ Span \div 2 + Span \div 2 <= Span
      BY <3>1, DelaysFit
    <3> SUFFICES ASSUME silence < delay PROVE FALSE
      BY <3>2
    <3>3. deadline = IF now + (delay - silence) < Span THEN now + (delay - silence)
                     ELSE now + (delay - silence) - Span
      BY <2>1, <3>2, Wrapped
    <3>4. (now - nowMs) % Span = IF now < nowMs THEN now - nowMs + Span ELSE now - nowMs
      BY <3>2, Wrapped
    <3>5. (now - nowMs) % Span <= MaxPass
      BY <2>1
    <3>6. (nowMs - deadline) % Span = IF nowMs < deadline THEN nowMs - deadline + Span
                                      ELSE nowMs - deadline
      BY <3>2, <3>3, Wrapped
    <3>7. (nowMs - deadline) % Span < Span \div 2
      BY <2>1 DEF Reached, SignedReached
    <3>q. QED
      BY <3>2, <3>3, <3>4, <3>5, <3>6, <3>7
  <2>2. UNCHANGED <<now, silence>> /\ mpc = "lss"
    BY <1>4 DEF LssProcess
  <2>3. CASE state = "PRE_DELAY" /\ Reached(nowMs, deadline) /\ mpc' = "lock" /\ UNCHANGED lssVars
    BY <2>1, <2>2, <2>3
  <2>4. CASE mpc' = "top" /\ Finish
    BY <2>4 DEF Finish
  <2>5. CASE mpc' = "top" /\ UNCHANGED lssVars
    BY <2>2, <2>5
  <2>q. QED
    BY <1>4, <2>3, <2>4, <2>5 DEF LssProcess
<1>5. CASE Set
  BY <1>5 DEF Set, SetBitrate
<1>6. CASE Restore
  BY <1>6 DEF Restore, SetBitrate
<1>7. CASE Switched
  BY <1>7 DEF Switched, Finish
<1>8. CASE RolledBack
  BY <1>8 DEF RolledBack, Finish
<1>9. CASE Failed
  BY <1>9 DEF Failed, FailedState, GivenUp, FailedGate, GateShut
<1>10. CASE SwitchLock
  BY <1>10 DEF SwitchLock, MayLock, MutexFree
<1>11. CASE ResetCommunication
  BY <1>11 DEF ResetCommunication, MutexFree, Finish
<1>12. CASE \E s \in Senders : SendLock(s)
  BY <1>12 DEF SendLock, TxGoto, MutexFree
<1>13. CASE \E s \in Senders : SendGate(s)
  BY <1>13 DEF SendGate, TxGoto
<1>14. CASE \E s \in Senders : SendSubmit(s)
  BY <1>14 DEF SendSubmit, TxGoto
<1>15. CASE \E s \in Senders : SendAgain(s)
  BY <1>15 DEF SendAgain, TxGoto
<1>16. CASE \E s \in Senders : SendUnlock(s)
  BY <1>16 DEF SendUnlock, TxGoto
<1>17. CASE UNCHANGED vars
  BY <1>17 DEF vars
<1>18. QED
  BY <1>1, <1>2, <1>3, <1>4, <1>5, <1>6, <1>7, <1>8,
     <1>9, <1>10, <1>11, <1>12, <1>13, <1>14, <1>15, <1>16, <1>17 DEF Next, MainStep

(* co_main has waited the whole delay before it switches the controller    *)
(* (CO_app_RTT.c:383), wherever the tick wraps around.                     *)
THEOREM DelayIsKept == Spec => PreDelayKept
<1>1. Init => TimeInv
  <2> SUFFICES ASSUME Init PROVE TimeInv
    OBVIOUS
  <2>1. now \in 0 .. Span - 1 /\ nowMs = now /\ silence = 0 /\ state = "IDLE" /\ mpc = "top"
    BY DEF Init
  <2>2. Span \in Nat /\ MaxPass \in Nat /\ (now - now) % Span = 0
    BY <2>1, Wrapped, BitrateAssumption DEF BitrateAssumption
  <2>q. QED
    BY <2>1, <2>2 DEF TimeInv, PassInv, DelayInv
<1>2. IInv /\ TimeInv /\ [Next]_vars => TimeInv'
  BY PassStep, DelayStep DEF TimeInv
<1>3. TimeInv => [mpc = "set" /\ mpc' # mpc => silence >= delay]_vars
  BY DEF TimeInv, DelayInv
<1>q. QED
  BY <1>1, <1>2, <1>3, Invariant, PTL DEF Spec, PreDelayKept

=============================================================================
