------------------------ MODULE CommunicationReset_proofs ------------------------
(***************************************************************************)
(* Proofs about CommunicationReset: its safety invariants, and that it     *)
(* implements GenerationPin, for any sets of extensions and requesters.    *)
(***************************************************************************)
EXTENDS CommunicationReset, TLAPS

(* The control points each thread really visits. *)
PcOK ==
    /\ pc["rt"] \in {"none", "idle", "lock", "pass", "od"}
    /\ pc["prof"] \in {"none", "idle", "clear", "lock", "pass", "od"}
    /\ pc["shell"] \in {"idle", "pass"}
    /\ pc["rx"] \in {"off", "idle", "busy"}

Build     == {"new", "canInit", "bind", "normal", "canStart", "canFailed", "ready"}
Quiescing == {"timerStop", "resetRtSem", "resetProfSem", "clearProfFlag", "lock",
              "stop", "disable", "drain", "quiesce", "delete"}
Guarded   == {"stop", "disable", "drain", "quiesce", "teardown", "delete",
              "unlock"} \cup (LssPoints \ {"lssLock"})
Running   == {"loop", "inOD"} \cup LssPoints
Resuming  == {"threads", "baseline", "timerStart", "startMain"}

(* Where canopen_app_rtt_init() runs, and which threads exist then. *)
BootInv ==
    /\ mpc \in {"threads", "startMain", "teardown"} => boot
    /\ mpc \in Running => ~boot
    /\ boot /\ mpc \in Quiescing \cup {"teardown", "unlock"} => failed
    /\ boot => pc["shell"] = "idle"
    /\ boot /\ mpc \in Build \cup {"threads"} =>
           pc["rt"] = "none" /\ pc["prof"] = "none"

(* Who is inside lifecycleMutex, and who inside the OD mutex. *)
LockInv ==
    /\ (lock = "main") <=> (mpc \in Guarded \/ (~boot /\ mpc \in Build))
    /\ (lock = "rt") <=> (pc["rt"] \in {"pass", "od"})
    /\ (lock = "prof") <=> (pc["prof"] \in {"pass", "od"})
    /\ (lock = "shell") <=> (pc["shell"] = "pass")
    /\ (od = "main") <=> (mpc = "inOD")
    /\ (od = "rt") <=> (pc["rt"] = "od")
    /\ (od = "prof") <=> (pc["prof"] = "od")

(* Which pointers are held, and to which generation. *)
PinInv ==
    /\ stack \in {0, made}
    /\ mpc = "new" => stack = 0
    /\ mpc \in (Build \ {"new"}) \cup Resuming \cup Running => stack # 0
    /\ mpc = "unlock" /\ ~failed => stack # 0
    /\ co["rt"] = IF pc["rt"] \in {"pass", "od"} THEN stack ELSE 0
    /\ pc["rt"] \in {"pass", "od"} => stack # 0
    /\ co["prof"] = IF pc["prof"] \in {"pass", "od"} THEN stack ELSE 0
    /\ co["shell"] = IF pc["shell"] = "pass" THEN stack ELSE 0
    /\ pc["shell"] = "pass" => stack # 0
    /\ co["rx"] = IF pc["rx"] = "off" THEN 0 ELSE stack
    /\ mpc \in Running => co["main"] = stack
    /\ ~boot /\ mpc \in {"baseline", "timerStart"} => co["main"] = stack

(* When the CAN module is open. *)
ModuleInv ==
    /\ mpc \in {"new", "canInit", "quiesce", "teardown", "delete"} =>
           module = "closed"
    /\ mpc \in (Build \ {"new", "canInit"}) \cup Resuming \cup Running =>
           module = "open"
    /\ mpc = "unlock" /\ ~failed => module = "open"
    /\ canNormal => module = "open"
    /\ mpc = "drain" => ~canNormal
    /\ od # "free" => module = "open"
    /\ pc["rx"] # "off" => module = "open" /\ stack # 0

(* When extensions are bound, and when they are ready. *)
BindInv ==
    /\ \A e \in Ext : boundTo[e] \in {0, stack}
    /\ \A e \in ready : boundTo[e] # 0 /\ module = "open"
    /\ mpc \in {"teardown", "delete", "new", "canInit", "bind"} =>
           \A e \in Ext : boundTo[e] = 0
    /\ mpc \in {"disable", "drain", "quiesce"} \cup Build => ready = {}

ControlInv ==
    /\ PcOK
    /\ BootInv
    /\ LockInv
    /\ PinInv
    /\ ModuleInv
    /\ BindInv

IInv == TypeOK /\ ControlInv

-----------------------------------------------------------------------------
(* Types *)

(* The start has the types. *)
LEMMA TypeInit == Init => TypeOK
<1> SUFFICES ASSUME Init PROVE TypeOK
  OBVIOUS
<1>1. FlagTypes
  BY DEF Init, FlagTypes
<1>2. DataTypes
  BY ResetAssumption DEF ResetAssumption, Init, DataTypes, Users, Threads, MainPoints, LssPoints
<1>3. QED BY <1>1, <1>2 DEF TypeOK

(* Flags stay Boolean. *)
LEMMA FlagStep == TypeOK /\ [Next]_vars => FlagTypes'
<1> SUFFICES ASSUME TypeOK, [Next]_vars PROVE FlagTypes'
  OBVIOUS
<1> USE DEF TypeOK, FlagTypes,
      Proceed, Fail, MainFrom, stackVars, extVars, lockVars, wakeVars, mainVars,
      userVars, timeVars
<1>1. CASE MainTakeOD
  BY <1>1 DEF MainTakeOD
<1>2. CASE MainReleaseOD
  BY <1>2 DEF MainReleaseOD
<1>3. CASE LssDue
  BY <1>3 DEF LssDue
<1>4. CASE LssLock
  BY <1>4 DEF LssLock, MutexFree
<1>5. CASE LssSet
  BY <1>5 DEF LssSet, LssRefused
<1>5a. CASE LssStart
  BY <1>5a DEF LssStart
<1>5b. CASE LssFailed
  BY <1>5b DEF LssFailed, LssRefused
<1>6. CASE ResetRequested
  BY <1>6 DEF ResetRequested
<1>7. CASE TimerStop
  BY <1>7 DEF TimerStop
<1>8. CASE ResetRtSem
  BY <1>8 DEF ResetRtSem
<1>9. CASE ResetProfSem
  BY <1>9 DEF ResetProfSem
<1>10. CASE ClearProfFlag
  BY <1>10 DEF ClearProfFlag, FlagAfterReset
<1>11. CASE LockLifecycle
  BY <1>11 DEF LockLifecycle, MutexFree
<1>12. CASE CommunicationStop
  BY <1>12 DEF CommunicationStop, ReadyAtStop
<1>13. CASE CANmoduleDisable
  BY <1>13 DEF CANmoduleDisable, RxTold
<1>14. CASE RxDrained
  BY <1>14 DEF RxDrained, RxExited
<1>15. CASE CommunicationQuiesced
  BY <1>15 DEF CommunicationQuiesced, Unbound
<1>16. CASE Teardown
  BY <1>16 DEF Teardown
<1>17. CASE DeleteStack
  BY <1>17 DEF DeleteStack
<1>18. CASE NewStack
  BY <1>18 DEF NewStack
<1>19. CASE CANopenInit
  BY <1>19 DEF CANopenInit
<1>20. CASE BindCommunication
  BY <1>20 DEF BindCommunication, Unbound
<1>21. CASE RxStart
  BY <1>21 DEF RxStart
<1>22. CASE CANstart
  BY <1>22 DEF CANstart
<1>23. CASE CANstartFailed
  BY <1>23 DEF CANstartFailed, RxExited
<1>24. CASE CommunicationReady
  BY <1>24 DEF CommunicationReady
<1>25. CASE StartThreads
  BY <1>25 DEF StartThreads
<1>26. CASE UnlockLifecycle
  BY <1>26 DEF UnlockLifecycle
<1>27. CASE Baseline
  BY <1>27 DEF Baseline, BaselineNow
<1>28. CASE TimerStart
  BY <1>28 DEF TimerStart
<1>29. CASE StartMain
  BY <1>29 DEF StartMain
<1>30. CASE Tick
  BY <1>30 DEF Tick, Inc
<1>31. ASSUME NEW r \in Requesters, ClaimWake(r) PROVE FlagTypes'
  BY <1>31 DEF ClaimWake
<1>32. ASSUME NEW r \in Requesters, PostWake(r) PROVE FlagTypes'
  BY <1>32 DEF PostWake, Inc
<1>33. CASE RtTake
  BY <1>33 DEF RtTake
<1>34. CASE RtLock
  BY <1>34 DEF RtLock, MutexFree
<1>35. CASE RtProcess
  BY <1>35 DEF RtProcess
<1>36. CASE RtLeave
  BY <1>36 DEF RtLeave
<1>37. CASE ProfTake
  BY <1>37 DEF ProfTake
<1>38. CASE ProfClear
  BY <1>38 DEF ProfClear, FlagAtTake
<1>39. CASE ProfLock
  BY <1>39 DEF ProfLock, MutexFree
<1>40. CASE ProfProcess
  BY <1>40 DEF ProfProcess
<1>41. CASE ProfWindowEnd
  BY <1>41 DEF ProfWindowEnd
<1>42. CASE ProfLeave
  BY <1>42 DEF ProfLeave
<1>43. CASE ShellLock
  BY <1>43 DEF ShellLock, MutexFree
<1>44. CASE ShellLeave
  BY <1>44 DEF ShellLeave
<1>45. CASE RxReceive
  BY <1>45 DEF RxReceive
<1>46. CASE RxDispatched
  BY <1>46 DEF RxDispatched
<1>47. CASE RxExit
  BY <1>47 DEF RxExit
<1>48. CASE UNCHANGED vars
  BY <1>48 DEF vars
<1>49. QED
  BY <1>1, <1>2, <1>3, <1>4, <1>5, <1>5a, <1>5b, <1>6, <1>7, <1>8, <1>9, <1>10, <1>11, <1>12, <1>13, <1>14, <1>15, <1>16, <1>17, <1>18, <1>19, <1>20, <1>21, <1>22, <1>23, <1>24, <1>25, <1>26, <1>27, <1>28, <1>29, <1>30, <1>31, <1>32, <1>33, <1>34, <1>35, <1>36, <1>37, <1>38, <1>39, <1>40, <1>41, <1>42, <1>43, <1>44, <1>45, <1>46, <1>47, <1>48
  DEF Next, MainSteps, RtSteps, ProfSteps, RxSteps, Ended

(* Pointers, generations and counts keep their types. *)
LEMMA DataStep == TypeOK /\ [Next]_vars => DataTypes'
<1> SUFFICES ASSUME TypeOK, [Next]_vars PROVE DataTypes'
  OBVIOUS
<1> USE ResetAssumption DEF ResetAssumption, TypeOK, DataTypes, MainPoints, LssPoints, Users, Threads,
      Proceed, Fail, MainFrom, stackVars, extVars, lockVars, wakeVars, mainVars,
      userVars, timeVars
<1>1. CASE MainTakeOD
  BY <1>1 DEF MainTakeOD
<1>2. CASE MainReleaseOD
  BY <1>2 DEF MainReleaseOD
<1>3. CASE LssDue
  BY <1>3 DEF LssDue
<1>4. CASE LssLock
  BY <1>4 DEF LssLock, MutexFree
<1>5. CASE LssSet
  BY <1>5 DEF LssSet, LssRefused
<1>5a. CASE LssStart
  BY <1>5a DEF LssStart
<1>5b. CASE LssFailed
  BY <1>5b DEF LssFailed, LssRefused
<1>6. CASE ResetRequested
  BY <1>6 DEF ResetRequested
<1>7. CASE TimerStop
  BY <1>7 DEF TimerStop
<1>8. CASE ResetRtSem
  BY <1>8 DEF ResetRtSem
<1>9. CASE ResetProfSem
  BY <1>9 DEF ResetProfSem
<1>10. CASE ClearProfFlag
  BY <1>10 DEF ClearProfFlag, FlagAfterReset
<1>11. CASE LockLifecycle
  BY <1>11 DEF LockLifecycle, MutexFree
<1>12. CASE CommunicationStop
  BY <1>12 DEF CommunicationStop, ReadyAtStop
<1>13. CASE CANmoduleDisable
  BY <1>13 DEF CANmoduleDisable, RxTold
<1>14. CASE RxDrained
  BY <1>14 DEF RxDrained, RxExited
<1>15. CASE CommunicationQuiesced
  BY <1>15 DEF CommunicationQuiesced, Unbound
<1>16. CASE Teardown
  BY <1>16 DEF Teardown
<1>17. CASE DeleteStack
  BY <1>17 DEF DeleteStack
<1>18. CASE NewStack
  BY <1>18 DEF NewStack
<1>19. CASE CANopenInit
  BY <1>19 DEF CANopenInit
<1>20. CASE BindCommunication
  BY <1>20 DEF BindCommunication, Unbound
<1>21. CASE RxStart
  BY <1>21 DEF RxStart
<1>22. CASE CANstart
  BY <1>22 DEF CANstart
<1>23. CASE CANstartFailed
  BY <1>23 DEF CANstartFailed, RxExited
<1>24. CASE CommunicationReady
  BY <1>24 DEF CommunicationReady
<1>25. CASE StartThreads
  BY <1>25 DEF StartThreads
<1>26. CASE UnlockLifecycle
  BY <1>26 DEF UnlockLifecycle
<1>27. CASE Baseline
  BY <1>27 DEF Baseline, BaselineNow
<1>28. CASE TimerStart
  BY <1>28 DEF TimerStart
<1>29. CASE StartMain
  BY <1>29 DEF StartMain
<1>30. CASE Tick
  BY <1>30 DEF Tick, Inc
<1>31. ASSUME NEW r \in Requesters, ClaimWake(r) PROVE DataTypes'
  BY <1>31 DEF ClaimWake
<1>32. ASSUME NEW r \in Requesters, PostWake(r) PROVE DataTypes'
  BY <1>32 DEF PostWake, Inc
<1>33. CASE RtTake
  BY <1>33 DEF RtTake
<1>34. CASE RtLock
  BY <1>34 DEF RtLock, MutexFree
<1>35. CASE RtProcess
  BY <1>35 DEF RtProcess
<1>36. CASE RtLeave
  BY <1>36 DEF RtLeave
<1>37. CASE ProfTake
  BY <1>37 DEF ProfTake
<1>38. CASE ProfClear
  BY <1>38 DEF ProfClear, FlagAtTake
<1>39. CASE ProfLock
  BY <1>39 DEF ProfLock, MutexFree
<1>40. CASE ProfProcess
  BY <1>40 DEF ProfProcess
<1>41. CASE ProfWindowEnd
  BY <1>41 DEF ProfWindowEnd
<1>42. CASE ProfLeave
  BY <1>42 DEF ProfLeave
<1>43. CASE ShellLock
  BY <1>43 DEF ShellLock, MutexFree
<1>44. CASE ShellLeave
  BY <1>44 DEF ShellLeave
<1>45. CASE RxReceive
  BY <1>45 DEF RxReceive
<1>46. CASE RxDispatched
  BY <1>46 DEF RxDispatched
<1>47. CASE RxExit
  BY <1>47 DEF RxExit
<1>48. CASE UNCHANGED vars
  BY <1>48 DEF vars
<1>49. QED
  BY <1>1, <1>2, <1>3, <1>4, <1>5, <1>5a, <1>5b, <1>6, <1>7, <1>8, <1>9, <1>10, <1>11, <1>12, <1>13, <1>14, <1>15, <1>16, <1>17, <1>18, <1>19, <1>20, <1>21, <1>22, <1>23, <1>24, <1>25, <1>26, <1>27, <1>28, <1>29, <1>30, <1>31, <1>32, <1>33, <1>34, <1>35, <1>36, <1>37, <1>38, <1>39, <1>40, <1>41, <1>42, <1>43, <1>44, <1>45, <1>46, <1>47, <1>48
  DEF Next, MainSteps, RtSteps, ProfSteps, RxSteps, Ended

-----------------------------------------------------------------------------
(* Control, pointers and bindings *)

(* The control invariant holds before init begins. *)
LEMMA ControlInit == Init => ControlInv
  BY ResetAssumption DEF ResetAssumption, Init, ControlInv, PcOK, BootInv, LockInv,
     PinInv, ModuleInv, BindInv, Build, Quiescing, Guarded, LssPoints, Running, Resuming, Users, Threads

(* No step of any thread breaks the control invariant. *)
LEMMA ControlStep == IInv /\ [Next]_vars => ControlInv'
<1> SUFFICES ASSUME IInv, [Next]_vars PROVE ControlInv'
  OBVIOUS
<1> USE DEF IInv, ControlInv, TypeOK, FlagTypes, DataTypes, MainPoints, LssPoints, Users, Threads,
      PcOK, BootInv, LockInv, PinInv, ModuleInv, BindInv, Build, Quiescing,
      Guarded, LssPoints, Running, Resuming,
      Proceed, Fail, MainFrom, stackVars, extVars, lockVars, wakeVars, mainVars,
      userVars, timeVars
<1>1. CASE MainTakeOD
  BY <1>1 DEF MainTakeOD
<1>2. CASE MainReleaseOD
  BY <1>2 DEF MainReleaseOD
<1>3. CASE LssDue
  BY <1>3 DEF LssDue
<1>4. CASE LssLock
  BY <1>4 DEF LssLock, MutexFree
<1>5. CASE LssSet
  BY <1>5 DEF LssSet, LssRefused
<1>5a. CASE LssStart
  BY <1>5a DEF LssStart
<1>5b. CASE LssFailed
  BY <1>5b DEF LssFailed, LssRefused
<1>6. CASE ResetRequested
  BY <1>6 DEF ResetRequested
<1>7. CASE TimerStop
  BY <1>7 DEF TimerStop
<1>8. CASE ResetRtSem
  BY <1>8 DEF ResetRtSem
<1>9. CASE ResetProfSem
  BY <1>9 DEF ResetProfSem
<1>10. CASE ClearProfFlag
  BY <1>10 DEF ClearProfFlag, FlagAfterReset
<1>11. CASE LockLifecycle
  BY <1>11 DEF LockLifecycle, MutexFree
<1>12. CASE CommunicationStop
  BY <1>12 DEF CommunicationStop, ReadyAtStop
<1>13. CASE CANmoduleDisable
  BY <1>13 DEF CANmoduleDisable, RxTold
<1>14. CASE RxDrained
  BY <1>14 DEF RxDrained, RxExited
<1>15. CASE CommunicationQuiesced
  BY <1>15 DEF CommunicationQuiesced, Unbound
<1>16. CASE Teardown
  BY <1>16 DEF Teardown
<1>17. CASE DeleteStack
  BY <1>17 DEF DeleteStack
<1>18. CASE NewStack
  BY <1>18 DEF NewStack
<1>19. CASE CANopenInit
  BY <1>19 DEF CANopenInit
<1>20. CASE BindCommunication
  BY <1>20 DEF BindCommunication, Unbound
<1>21. CASE RxStart
  BY <1>21 DEF RxStart
<1>22. CASE CANstart
  BY <1>22 DEF CANstart
<1>23. CASE CANstartFailed
  BY <1>23 DEF CANstartFailed, RxExited
<1>24. CASE CommunicationReady
  BY <1>24 DEF CommunicationReady
<1>25. CASE StartThreads
  <2>1. /\ mpc = "threads" /\ boot /\ pc["rt"] = "none" /\ pc["prof"] = "none"
        /\ lock \notin {"rt", "prof", "shell"} /\ od \notin {"rt", "prof"}
        /\ stack # 0 /\ module = "open"
    BY <1>25 DEF StartThreads
  <2>2. /\ pc' \in [Users -> {"none", "off", "idle", "busy", "clear", "lock", "pass", "od"}]
        /\ pc'["rt"] \in {"none", "idle"} /\ pc'["prof"] \in {"none", "idle"}
        /\ pc'["shell"] = pc["shell"] /\ pc'["rx"] = pc["rx"]
    <3>1. \/ pc' = [pc EXCEPT !["rt"] = "idle", !["prof"] = "idle"]
          \/ pc' = pc
          \/ pc' = [pc EXCEPT !["rt"] = "idle"]
      BY <1>25 DEF StartThreads
    <3>2. pc["shell"] \in {"idle", "pass"} /\ pc["rx"] \in {"off", "idle", "busy"}
      BY DEF PcOK
    <3> HIDE <1>25 DEF TypeOK, FlagTypes, ControlInv
    <3>3. pc \in [Users -> {"none", "off", "idle", "busy", "clear", "lock", "pass", "od"}]
      BY DEF TypeOK
    <3>4. QED
      BY <2>1, <3>1, <3>2, <3>3
  <2>3. /\ mpc' \in {"baseline", "timerStop"} /\ boot' = boot
        /\ (mpc' = "timerStop" => failed')
    BY <1>25, <2>1 DEF StartThreads
  <2>4. UNCHANGED <<stack, made, module, canNormal, boundTo, ready, lock, od, co>>
    BY <1>25 DEF StartThreads
  <2> HIDE <1>25
  <2>5. PcOK'
    BY <2>2
  <2>6. BootInv'
    BY <2>1, <2>2, <2>3
  <2>7. LockInv'
    BY <2>1, <2>2, <2>3, <2>4
  <2>8. PinInv'
    BY <2>1, <2>2, <2>3, <2>4
  <2>9. ModuleInv'
    BY <2>1, <2>2, <2>3, <2>4
  <2>10. BindInv'
    BY <2>1, <2>3, <2>4
  <2>11. QED
    BY <2>5, <2>6, <2>7, <2>8, <2>9, <2>10
<1>26. CASE UnlockLifecycle
  BY <1>26 DEF UnlockLifecycle
<1>27. CASE Baseline
  BY <1>27 DEF Baseline, BaselineNow
<1>28. CASE TimerStart
  BY <1>28 DEF TimerStart
<1>29. CASE StartMain
  <2>1. /\ mpc = "startMain" /\ boot /\ lock # "main" /\ od # "main"
        /\ stack # 0 /\ module = "open"
    BY <1>29 DEF StartMain
  <2>2. UNCHANGED <<stack, made, module, canNormal, boundTo, ready, lock, od, pc>>
    BY <1>29 DEF StartMain
  <2>3. CASE boot' = FALSE /\ mpc' = "loop" /\ co' = [co EXCEPT !["main"] = stack]
    BY <2>1, <2>2, <2>3
  <2>4. CASE Fail /\ UNCHANGED co
    BY <2>1, <2>2, <2>4
  <2>5. QED
    BY <1>29, <2>3, <2>4 DEF StartMain
<1>30. CASE Tick
  BY <1>30 DEF Tick, Inc
<1>31. ASSUME NEW r \in Requesters, ClaimWake(r) PROVE ControlInv'
  BY <1>31 DEF ClaimWake
<1>32. ASSUME NEW r \in Requesters, PostWake(r) PROVE ControlInv'
  BY <1>32 DEF PostWake, Inc
<1>33. CASE RtTake
  BY <1>33 DEF RtTake
<1>34. CASE RtLock
  BY <1>34 DEF RtLock, MutexFree
<1>35. CASE RtProcess
  BY <1>35 DEF RtProcess
<1>36. CASE RtLeave
  BY <1>36 DEF RtLeave
<1>37. CASE ProfTake
  BY <1>37 DEF ProfTake
<1>38. CASE ProfClear
  BY <1>38 DEF ProfClear, FlagAtTake
<1>39. CASE ProfLock
  BY <1>39 DEF ProfLock, MutexFree
<1>40. CASE ProfProcess
  BY <1>40 DEF ProfProcess
<1>41. CASE ProfWindowEnd
  BY <1>41 DEF ProfWindowEnd
<1>42. CASE ProfLeave
  BY <1>42 DEF ProfLeave
<1>43. CASE ShellLock
  BY <1>43 DEF ShellLock, MutexFree
<1>44. CASE ShellLeave
  BY <1>44 DEF ShellLeave
<1>45. CASE RxReceive
  BY <1>45 DEF RxReceive
<1>46. CASE RxDispatched
  BY <1>46 DEF RxDispatched
<1>47. CASE RxExit
  BY <1>47 DEF RxExit
<1>48. CASE UNCHANGED vars
  BY <1>48 DEF vars
<1> HIDE DEF IInv, ControlInv, TypeOK, FlagTypes, DataTypes, PcOK, BootInv, LockInv, PinInv,
      ModuleInv, BindInv
<1>49. QED
  BY <1>1, <1>2, <1>3, <1>4, <1>5, <1>5a, <1>5b, <1>6, <1>7, <1>8, <1>9, <1>10, <1>11, <1>12, <1>13, <1>14, <1>15, <1>16, <1>17, <1>18, <1>19, <1>20, <1>21, <1>22, <1>23, <1>24, <1>25, <1>26, <1>27, <1>28, <1>29, <1>30, <1>31, <1>32, <1>33, <1>34, <1>35, <1>36, <1>37, <1>38, <1>39, <1>40, <1>41, <1>42, <1>43, <1>44, <1>45, <1>46, <1>47, <1>48
  DEF Next, MainSteps, RtSteps, ProfSteps, RxSteps, Ended

(* Types and control together, at the start. *)
LEMMA Initially == Init => IInv
  BY TypeInit, ControlInit DEF IInv

(* Types and control together, over a step. *)
LEMMA Inductive == IInv /\ [Next]_vars => IInv'
  BY FlagStep, DataStep, ControlStep DEF IInv, TypeOK

(* The invariant holds throughout. *)
LEMMA Invariance == Spec => []IInv
  BY Initially, Inductive, PTL DEF Spec

-----------------------------------------------------------------------------
(* The properties of CommunicationReset *)

(* Every variable keeps its type: in particular the semaphores never pass  *)
(* their limit and no generation number beyond the last created appears.   *)
THEOREM TypeCorrect == Spec => []TypeOK
<1>1. IInv => TypeOK
  BY DEF IInv
<1>2. QED
  BY <1>1, Invariance, PTL

(* Nobody works on a deleted CO_t: the mutex is held by whoever holds a    *)
(* pointer, and CO_delete() runs under it, after co_rx has left.           *)
THEOREM UseIsSafe == Spec => []NoUseAfterDelete
<1>1. IInv => NoUseAfterDelete
  <2> SUFFICES ASSUME IInv PROVE NoUseAfterDelete
    OBVIOUS
  <2>1. ASSUME NEW u \in Users PROVE co[u] \in {0, stack}
    BY DEF IInv, ControlInv, PinInv, Users
  <2>2. mpc \in {"loop", "inOD"} \cup LssPoints => co["main"] = stack /\ stack # 0
    BY DEF IInv, ControlInv, PinInv, Running, LssPoints
  <2>3. QED
    BY <2>1, <2>2 DEF NoUseAfterDelete
<1>2. QED
  BY <1>1, Invariance, PTL

(* The OD mutex and the receive semaphores exist while they are used: what *)
(* holds the OD mutex holds lifecycleMutex as well, or is co_main itself,  *)
(* and CANnormal is closed before the module is.                           *)
THEOREM ModuleIsSafe == Spec => []ModuleOutlivesUse
<1>1. IInv => ModuleOutlivesUse
  BY DEF IInv, ControlInv, ModuleInv, ModuleOutlivesUse
<1>2. QED
  BY <1>1, Invariance, PTL

(* Extensions are bound to the current CO_t or to none, and process only   *)
(* while they are bound and the module is open.                            *)
THEOREM BindingsAreSafe == Spec => []BindingsFollowStack
<1>1. IInv => BindingsFollowStack
  <2> SUFFICES ASSUME IInv PROVE BindingsFollowStack
    OBVIOUS
  <2>1. ready \subseteq Ext
    BY DEF IInv, TypeOK, DataTypes
  <2>2. \A e \in Ext : boundTo[e] \in {0, stack}
    BY DEF IInv, ControlInv, BindInv
  <2>3. \A e \in ready : boundTo[e] # 0 /\ module = "open"
    BY DEF IInv, ControlInv, BindInv
  <2>4. QED
    BY <2>1, <2>2, <2>3 DEF BindingsFollowStack
<1>2. QED
  BY <1>1, Invariance, PTL

(* What threads, the module and extensions work on outlives their use.     *)
THEOREM ObjectsAreSafe == Spec => []ObjectsOutliveUse
<1>1. TypeOK /\ NoUseAfterDelete /\ ModuleOutlivesUse /\ BindingsFollowStack
      => ObjectsOutliveUse
  BY DEF ObjectsOutliveUse
<1>2. QED
  BY TypeCorrect, UseIsSafe, ModuleIsSafe, BindingsAreSafe, <1>1, PTL

(* An extension loses its binding only after it was told to stop and after *)
(* co_rx has exited.                                                       *)
THEOREM QuiescingIsOrdered == Spec => QuiescedAfterDrain
<1>1. IInv /\ [Next]_vars =>
        [\A e \in Ext : boundTo[e] # 0 /\ boundTo'[e] = 0
             => pc["rx"] = "off" /\ e \notin ready]_vars
  <2> SUFFICES ASSUME IInv, Next, NEW e \in Ext, boundTo[e] # 0, boundTo'[e] = 0
               PROVE  pc["rx"] = "off" /\ e \notin ready
    BY DEF vars
  <2>1. CommunicationQuiesced \/ BindCommunication
    BY
    DEF Next, MainSteps, RtSteps, ProfSteps, RxSteps, Ended, vars, extVars,
      MainTakeOD, MainReleaseOD, LssDue, LssLock, LssSet, LssStart, LssFailed, ResetRequested,
      TimerStop, ResetRtSem, ResetProfSem, ClearProfFlag, LockLifecycle,
      CommunicationStop, CANmoduleDisable, RxDrained, Teardown, DeleteStack,
      NewStack, CANopenInit, RxStart, CANstart, CANstartFailed,
      CommunicationReady, StartThreads, UnlockLifecycle, Baseline,
      TimerStart, StartMain, Tick, ClaimWake, PostWake, RtTake, RtLock,
      RtProcess, RtLeave, ProfTake, ProfClear, ProfLock, ProfProcess,
      ProfWindowEnd, ProfLeave, ShellLock, ShellLeave, RxReceive,
      RxDispatched, RxExit
  <2>2. mpc = "quiesce"
    <3>1. mpc \in {"quiesce", "bind"}
      BY <2>1 DEF CommunicationQuiesced, BindCommunication, MainFrom
    <3>2. mpc # "bind"
      BY DEF IInv, ControlInv, BindInv
    <3>3. QED
      BY <3>1, <3>2
  <2>3. QED
    BY <2>2 DEF IInv, ControlInv, ModuleInv, BindInv
<1>2. QED
  BY <1>1, Invariance, PTL DEF Spec, QuiescedAfterDrain

(* The coalescing flag: a set flag always has a successor that clears it. *)

(* A set coalescing flag keeps its wakeup on the way. *)
LEMMA WakeStep == IInv /\ WakeNotLatched /\ [Next]_vars => WakeNotLatched'
<1> SUFFICES ASSUME IInv, WakeNotLatched, [Next]_vars PROVE WakeNotLatched'
  OBVIOUS
<1> USE ResetAssumption DEF ResetAssumption, IInv, TypeOK, FlagTypes, DataTypes, ControlInv, PcOK,
      BootInv, Build, Users, WakeNotLatched,
      Proceed, Fail, MainFrom, stackVars, extVars, lockVars, wakeVars, mainVars,
      userVars, timeVars
<1>1. CASE MainTakeOD
  BY <1>1 DEF MainTakeOD
<1>2. CASE MainReleaseOD
  BY <1>2 DEF MainReleaseOD
<1>3. CASE LssDue
  BY <1>3 DEF LssDue
<1>4. CASE LssLock
  BY <1>4 DEF LssLock, MutexFree
<1>5. CASE LssSet
  BY <1>5 DEF LssSet, LssRefused
<1>5a. CASE LssStart
  BY <1>5a DEF LssStart
<1>5b. CASE LssFailed
  BY <1>5b DEF LssFailed, LssRefused
<1>6. CASE ResetRequested
  BY <1>6 DEF ResetRequested
<1>7. CASE TimerStop
  BY <1>7 DEF TimerStop
<1>8. CASE ResetRtSem
  BY <1>8 DEF ResetRtSem
<1>9. CASE ResetProfSem
  BY <1>9 DEF ResetProfSem
<1>10. CASE ClearProfFlag
  BY <1>10 DEF ClearProfFlag, FlagAfterReset
<1>11. CASE LockLifecycle
  BY <1>11 DEF LockLifecycle, MutexFree
<1>12. CASE CommunicationStop
  BY <1>12 DEF CommunicationStop, ReadyAtStop
<1>13. CASE CANmoduleDisable
  BY <1>13 DEF CANmoduleDisable, RxTold
<1>14. CASE RxDrained
  BY <1>14 DEF RxDrained, RxExited
<1>15. CASE CommunicationQuiesced
  BY <1>15 DEF CommunicationQuiesced, Unbound
<1>16. CASE Teardown
  BY <1>16 DEF Teardown
<1>17. CASE DeleteStack
  BY <1>17 DEF DeleteStack
<1>18. CASE NewStack
  BY <1>18 DEF NewStack
<1>19. CASE CANopenInit
  BY <1>19 DEF CANopenInit
<1>20. CASE BindCommunication
  BY <1>20 DEF BindCommunication, Unbound
<1>21. CASE RxStart
  BY <1>21 DEF RxStart
<1>22. CASE CANstart
  BY <1>22 DEF CANstart
<1>23. CASE CANstartFailed
  BY <1>23 DEF CANstartFailed, RxExited
<1>24. CASE CommunicationReady
  BY <1>24 DEF CommunicationReady
<1>25. CASE StartThreads
  BY <1>25 DEF StartThreads
<1>26. CASE UnlockLifecycle
  BY <1>26 DEF UnlockLifecycle
<1>27. CASE Baseline
  BY <1>27 DEF Baseline, BaselineNow
<1>28. CASE TimerStart
  BY <1>28 DEF TimerStart
<1>29. CASE StartMain
  BY <1>29 DEF StartMain
<1>30. CASE Tick
  BY <1>30 DEF Tick, Inc
<1>31. ASSUME NEW r \in Requesters, ClaimWake(r) PROVE WakeNotLatched'
  BY <1>31 DEF ClaimWake
<1>32. ASSUME NEW r \in Requesters, PostWake(r) PROVE WakeNotLatched'
  BY <1>32 DEF PostWake, Inc
<1>33. CASE RtTake
  BY <1>33 DEF RtTake
<1>34. CASE RtLock
  BY <1>34 DEF RtLock, MutexFree
<1>35. CASE RtProcess
  BY <1>35 DEF RtProcess
<1>36. CASE RtLeave
  BY <1>36 DEF RtLeave
<1>37. CASE ProfTake
  BY <1>37 DEF ProfTake
<1>38. CASE ProfClear
  BY <1>38 DEF ProfClear, FlagAtTake
<1>39. CASE ProfLock
  BY <1>39 DEF ProfLock, MutexFree
<1>40. CASE ProfProcess
  BY <1>40 DEF ProfProcess
<1>41. CASE ProfWindowEnd
  BY <1>41 DEF ProfWindowEnd
<1>42. CASE ProfLeave
  BY <1>42 DEF ProfLeave
<1>43. CASE ShellLock
  BY <1>43 DEF ShellLock, MutexFree
<1>44. CASE ShellLeave
  BY <1>44 DEF ShellLeave
<1>45. CASE RxReceive
  BY <1>45 DEF RxReceive
<1>46. CASE RxDispatched
  BY <1>46 DEF RxDispatched
<1>47. CASE RxExit
  BY <1>47 DEF RxExit
<1>48. CASE UNCHANGED vars
  BY <1>48 DEF vars
<1>49. QED
  BY <1>1, <1>2, <1>3, <1>4, <1>5, <1>5a, <1>5b, <1>6, <1>7, <1>8, <1>9, <1>10, <1>11, <1>12, <1>13, <1>14, <1>15, <1>16, <1>17, <1>18, <1>19, <1>20, <1>21, <1>22, <1>23, <1>24, <1>25, <1>26, <1>27, <1>28, <1>29, <1>30, <1>31, <1>32, <1>33, <1>34, <1>35, <1>36, <1>37, <1>38, <1>39, <1>40, <1>41, <1>42, <1>43, <1>44, <1>45, <1>46, <1>47, <1>48
  DEF Next, MainSteps, RtSteps, ProfSteps, RxSteps, Ended

(* No reset or request leaves sharedWorkerWakePending set for good. *)
THEOREM WakeupsSurvive == Spec => []WakeNotLatched
<1>1. Init => WakeNotLatched
  BY DEF Init, WakeNotLatched
<1>2. QED
  BY <1>1, WakeStep, Invariance, PTL DEF Spec

-----------------------------------------------------------------------------
(* The baseline of a new generation *)

(* Where no token of co_rt is left and none can come: the timer is off.    *)
NoToken   == {"resetProfSem", "clearProfFlag", "lock", "stop", "disable", "drain",
              "quiesce", "teardown", "delete"} \cup Build
             \cup {"threads", "unlock", "baseline", "timerStart", "dead"}

(* Where co_rt, the more urgent thread, has used up its last token.        *)
Parked    == {"delete"} \cup Build
             \cup {"threads", "unlock", "baseline", "timerStart", "dead"}

(* Where lastRtUs is that of the stack unless co_rt is parked.             *)
Charging  == Running \cup {"timerStart", "startMain", "timerStop", "resetRtSem",
              "resetProfSem", "clearProfFlag", "lock"}

RtParked == pc["rt"] \in {"idle", "none"}

SilentInv ==
    /\ mpc \in NoToken => rtSem = 0 /\ ~timer
    /\ mpc = "resetRtSem" => ~timer

ParkedInv ==
    /\ mpc \in Parked => RtParked
    /\ ~boot /\ mpc \in {"stop", "disable", "drain", "quiesce"} => RtParked

ChargeInv ==
    /\ mpc \in Charging =>
           \/ baseGen = stack
           \/ mpc # "timerStart" /\ ~timer /\ rtSem = 0 /\ RtParked
    /\ pc["rt"] \in {"pass", "od"} => charged = co["rt"]

FreshInv == SilentInv /\ (rtFirst => ParkedInv /\ ChargeInv)

(* With the timer stopped, a drained semaphore stays empty. *)
LEMMA SilentStep == IInv /\ SilentInv /\ [Next]_vars => SilentInv'
<1> SUFFICES ASSUME IInv, SilentInv, [Next]_vars PROVE SilentInv'
  OBVIOUS
<1> USE ResetAssumption DEF ResetAssumption, IInv, TypeOK, FlagTypes, DataTypes, ControlInv,
      PcOK, BootInv, LockInv, PinInv, Build, Guarded, Quiescing, LssPoints, Running, Resuming, Users,
      Threads, SilentInv, NoToken,
      Proceed, Fail, MainFrom, stackVars, extVars, lockVars, wakeVars, mainVars,
      userVars, timeVars
<1>1. CASE MainTakeOD
  BY <1>1 DEF MainTakeOD
<1>2. CASE MainReleaseOD
  BY <1>2 DEF MainReleaseOD
<1>3. CASE LssDue
  BY <1>3 DEF LssDue
<1>4. CASE LssLock
  BY <1>4 DEF LssLock, MutexFree
<1>5. CASE LssSet
  BY <1>5 DEF LssSet, LssRefused
<1>5a. CASE LssStart
  BY <1>5a DEF LssStart
<1>5b. CASE LssFailed
  BY <1>5b DEF LssFailed, LssRefused
<1>6. CASE ResetRequested
  BY <1>6 DEF ResetRequested
<1>7. CASE TimerStop
  BY <1>7 DEF TimerStop
<1>8. CASE ResetRtSem
  BY <1>8 DEF ResetRtSem
<1>9. CASE ResetProfSem
  BY <1>9 DEF ResetProfSem
<1>10. CASE ClearProfFlag
  BY <1>10 DEF ClearProfFlag, FlagAfterReset
<1>11. CASE LockLifecycle
  BY <1>11 DEF LockLifecycle, MutexFree
<1>12. CASE CommunicationStop
  BY <1>12 DEF CommunicationStop, ReadyAtStop
<1>13. CASE CANmoduleDisable
  BY <1>13 DEF CANmoduleDisable, RxTold
<1>14. CASE RxDrained
  BY <1>14 DEF RxDrained, RxExited
<1>15. CASE CommunicationQuiesced
  BY <1>15 DEF CommunicationQuiesced, Unbound
<1>16. CASE Teardown
  BY <1>16 DEF Teardown
<1>17. CASE DeleteStack
  BY <1>17 DEF DeleteStack
<1>18. CASE NewStack
  BY <1>18 DEF NewStack
<1>19. CASE CANopenInit
  BY <1>19 DEF CANopenInit
<1>20. CASE BindCommunication
  BY <1>20 DEF BindCommunication, Unbound
<1>21. CASE RxStart
  BY <1>21 DEF RxStart
<1>22. CASE CANstart
  BY <1>22 DEF CANstart
<1>23. CASE CANstartFailed
  BY <1>23 DEF CANstartFailed, RxExited
<1>24. CASE CommunicationReady
  BY <1>24 DEF CommunicationReady
<1>25. CASE StartThreads
  BY <1>25 DEF StartThreads
<1>26. CASE UnlockLifecycle
  BY <1>26 DEF UnlockLifecycle
<1>27. CASE Baseline
  BY <1>27 DEF Baseline, BaselineNow
<1>28. CASE TimerStart
  BY <1>28 DEF TimerStart
<1>29. CASE StartMain
  BY <1>29 DEF StartMain
<1>30. CASE Tick
  BY <1>30 DEF Tick, Inc
<1>31. ASSUME NEW r \in Requesters, ClaimWake(r) PROVE SilentInv'
  BY <1>31 DEF ClaimWake
<1>32. ASSUME NEW r \in Requesters, PostWake(r) PROVE SilentInv'
  BY <1>32 DEF PostWake, Inc
<1>33. CASE RtTake
  BY <1>33 DEF RtTake
<1>34. CASE RtLock
  BY <1>34 DEF RtLock, MutexFree
<1>35. CASE RtProcess
  BY <1>35 DEF RtProcess
<1>36. CASE RtLeave
  BY <1>36 DEF RtLeave
<1>37. CASE ProfTake
  BY <1>37 DEF ProfTake
<1>38. CASE ProfClear
  BY <1>38 DEF ProfClear, FlagAtTake
<1>39. CASE ProfLock
  BY <1>39 DEF ProfLock, MutexFree
<1>40. CASE ProfProcess
  BY <1>40 DEF ProfProcess
<1>41. CASE ProfWindowEnd
  BY <1>41 DEF ProfWindowEnd
<1>42. CASE ProfLeave
  BY <1>42 DEF ProfLeave
<1>43. CASE ShellLock
  BY <1>43 DEF ShellLock, MutexFree
<1>44. CASE ShellLeave
  BY <1>44 DEF ShellLeave
<1>45. CASE RxReceive
  BY <1>45 DEF RxReceive
<1>46. CASE RxDispatched
  BY <1>46 DEF RxDispatched
<1>47. CASE RxExit
  BY <1>47 DEF RxExit
<1>48. CASE UNCHANGED vars
  BY <1>48 DEF vars
<1>49. QED
  BY <1>1, <1>2, <1>3, <1>4, <1>5, <1>5a, <1>5b, <1>6, <1>7, <1>8, <1>9, <1>10, <1>11, <1>12, <1>13, <1>14, <1>15, <1>16, <1>17, <1>18, <1>19, <1>20, <1>21, <1>22, <1>23, <1>24, <1>25, <1>26, <1>27, <1>28, <1>29, <1>30, <1>31, <1>32, <1>33, <1>34, <1>35, <1>36, <1>37, <1>38, <1>39, <1>40, <1>41, <1>42, <1>43, <1>44, <1>45, <1>46, <1>47, <1>48
  DEF Next, MainSteps, RtSteps, ProfSteps, RxSteps, Ended

(* co_main gets the mutex only when co_rt has used up its tokens. *)
LEMMA ParkedStep == IInv /\ SilentInv /\ rtFirst /\ ParkedInv /\ [Next]_vars => ParkedInv'
<1> SUFFICES ASSUME IInv, SilentInv, rtFirst, ParkedInv, [Next]_vars PROVE ParkedInv'
  OBVIOUS
<1> USE ResetAssumption DEF ResetAssumption, IInv, TypeOK, FlagTypes, DataTypes, ControlInv,
      PcOK, BootInv, LockInv, PinInv, Build, Guarded, Quiescing, LssPoints, Running, Resuming, Users,
      Threads, SilentInv, NoToken, ParkedInv, Parked,
      RtParked, RtRunnable, Proceed, Fail, MainFrom, stackVars, extVars, lockVars, wakeVars, mainVars,
      userVars, timeVars
<1>1. CASE MainTakeOD
  BY <1>1 DEF MainTakeOD
<1>2. CASE MainReleaseOD
  BY <1>2 DEF MainReleaseOD
<1>3. CASE LssDue
  BY <1>3 DEF LssDue
<1>4. CASE LssLock
  BY <1>4 DEF LssLock, MutexFree
<1>5. CASE LssSet
  BY <1>5 DEF LssSet, LssRefused
<1>5a. CASE LssStart
  BY <1>5a DEF LssStart
<1>5b. CASE LssFailed
  BY <1>5b DEF LssFailed, LssRefused
<1>6. CASE ResetRequested
  BY <1>6 DEF ResetRequested
<1>7. CASE TimerStop
  BY <1>7 DEF TimerStop
<1>8. CASE ResetRtSem
  BY <1>8 DEF ResetRtSem
<1>9. CASE ResetProfSem
  BY <1>9 DEF ResetProfSem
<1>10. CASE ClearProfFlag
  BY <1>10 DEF ClearProfFlag, FlagAfterReset
<1>11. CASE LockLifecycle
  BY <1>11 DEF LockLifecycle, MutexFree
<1>12. CASE CommunicationStop
  BY <1>12 DEF CommunicationStop, ReadyAtStop
<1>13. CASE CANmoduleDisable
  BY <1>13 DEF CANmoduleDisable, RxTold
<1>14. CASE RxDrained
  BY <1>14 DEF RxDrained, RxExited
<1>15. CASE CommunicationQuiesced
  BY <1>15 DEF CommunicationQuiesced, Unbound
<1>16. CASE Teardown
  BY <1>16 DEF Teardown
<1>17. CASE DeleteStack
  BY <1>17 DEF DeleteStack
<1>18. CASE NewStack
  BY <1>18 DEF NewStack
<1>19. CASE CANopenInit
  BY <1>19 DEF CANopenInit
<1>20. CASE BindCommunication
  BY <1>20 DEF BindCommunication, Unbound
<1>21. CASE RxStart
  BY <1>21 DEF RxStart
<1>22. CASE CANstart
  BY <1>22 DEF CANstart
<1>23. CASE CANstartFailed
  BY <1>23 DEF CANstartFailed, RxExited
<1>24. CASE CommunicationReady
  BY <1>24 DEF CommunicationReady
<1>25. CASE StartThreads
  BY <1>25 DEF StartThreads
<1>26. CASE UnlockLifecycle
  BY <1>26 DEF UnlockLifecycle
<1>27. CASE Baseline
  BY <1>27 DEF Baseline, BaselineNow
<1>28. CASE TimerStart
  BY <1>28 DEF TimerStart
<1>29. CASE StartMain
  BY <1>29 DEF StartMain
<1>30. CASE Tick
  BY <1>30 DEF Tick, Inc
<1>31. ASSUME NEW r \in Requesters, ClaimWake(r) PROVE ParkedInv'
  BY <1>31 DEF ClaimWake
<1>32. ASSUME NEW r \in Requesters, PostWake(r) PROVE ParkedInv'
  BY <1>32 DEF PostWake, Inc
<1>33. CASE RtTake
  BY <1>33 DEF RtTake
<1>34. CASE RtLock
  BY <1>34 DEF RtLock, MutexFree
<1>35. CASE RtProcess
  BY <1>35 DEF RtProcess
<1>36. CASE RtLeave
  BY <1>36 DEF RtLeave
<1>37. CASE ProfTake
  BY <1>37 DEF ProfTake
<1>38. CASE ProfClear
  BY <1>38 DEF ProfClear, FlagAtTake
<1>39. CASE ProfLock
  BY <1>39 DEF ProfLock, MutexFree
<1>40. CASE ProfProcess
  BY <1>40 DEF ProfProcess
<1>41. CASE ProfWindowEnd
  BY <1>41 DEF ProfWindowEnd
<1>42. CASE ProfLeave
  BY <1>42 DEF ProfLeave
<1>43. CASE ShellLock
  BY <1>43 DEF ShellLock, MutexFree
<1>44. CASE ShellLeave
  BY <1>44 DEF ShellLeave
<1>45. CASE RxReceive
  BY <1>45 DEF RxReceive
<1>46. CASE RxDispatched
  BY <1>46 DEF RxDispatched
<1>47. CASE RxExit
  BY <1>47 DEF RxExit
<1>48. CASE UNCHANGED vars
  BY <1>48 DEF vars
<1>49. QED
  BY <1>1, <1>2, <1>3, <1>4, <1>5, <1>5a, <1>5b, <1>6, <1>7, <1>8, <1>9, <1>10, <1>11, <1>12, <1>13, <1>14, <1>15, <1>16, <1>17, <1>18, <1>19, <1>20, <1>21, <1>22, <1>23, <1>24, <1>25, <1>26, <1>27, <1>28, <1>29, <1>30, <1>31, <1>32, <1>33, <1>34, <1>35, <1>36, <1>37, <1>38, <1>39, <1>40, <1>41, <1>42, <1>43, <1>44, <1>45, <1>46, <1>47, <1>48
  DEF Next, MainSteps, RtSteps, ProfSteps, RxSteps, Ended

(* co_rt meets the baseline of the stack, or none at all. *)
LEMMA ChargeStep == IInv /\ SilentInv /\ rtFirst /\ ParkedInv /\ ChargeInv /\ [Next]_vars => ChargeInv'
<1> SUFFICES ASSUME IInv, SilentInv, rtFirst, ParkedInv, ChargeInv, [Next]_vars PROVE ChargeInv'
  OBVIOUS
<1> USE ResetAssumption DEF ResetAssumption, IInv, TypeOK, FlagTypes, DataTypes, ControlInv,
      PcOK, BootInv, LockInv, PinInv, Build, Guarded, Quiescing, LssPoints, Running, Resuming, Users,
      Threads, SilentInv, NoToken, ParkedInv, Parked,
      ChargeInv, Charging, RtParked, RtRunnable, Proceed, Fail, MainFrom, stackVars, extVars, lockVars, wakeVars, mainVars,
      userVars, timeVars
<1>1. CASE MainTakeOD
  BY <1>1 DEF MainTakeOD
<1>2. CASE MainReleaseOD
  BY <1>2 DEF MainReleaseOD
<1>3. CASE LssDue
  BY <1>3 DEF LssDue
<1>4. CASE LssLock
  BY <1>4 DEF LssLock, MutexFree
<1>5. CASE LssSet
  BY <1>5 DEF LssSet, LssRefused
<1>5a. CASE LssStart
  BY <1>5a DEF LssStart
<1>5b. CASE LssFailed
  BY <1>5b DEF LssFailed, LssRefused
<1>6. CASE ResetRequested
  BY <1>6 DEF ResetRequested
<1>7. CASE TimerStop
  BY <1>7 DEF TimerStop
<1>8. CASE ResetRtSem
  BY <1>8 DEF ResetRtSem
<1>9. CASE ResetProfSem
  BY <1>9 DEF ResetProfSem
<1>10. CASE ClearProfFlag
  BY <1>10 DEF ClearProfFlag, FlagAfterReset
<1>11. CASE LockLifecycle
  BY <1>11 DEF LockLifecycle, MutexFree
<1>12. CASE CommunicationStop
  BY <1>12 DEF CommunicationStop, ReadyAtStop
<1>13. CASE CANmoduleDisable
  BY <1>13 DEF CANmoduleDisable, RxTold
<1>14. CASE RxDrained
  BY <1>14 DEF RxDrained, RxExited
<1>15. CASE CommunicationQuiesced
  BY <1>15 DEF CommunicationQuiesced, Unbound
<1>16. CASE Teardown
  BY <1>16 DEF Teardown
<1>17. CASE DeleteStack
  BY <1>17 DEF DeleteStack
<1>18. CASE NewStack
  BY <1>18 DEF NewStack
<1>19. CASE CANopenInit
  BY <1>19 DEF CANopenInit
<1>20. CASE BindCommunication
  BY <1>20 DEF BindCommunication, Unbound
<1>21. CASE RxStart
  BY <1>21 DEF RxStart
<1>22. CASE CANstart
  BY <1>22 DEF CANstart
<1>23. CASE CANstartFailed
  BY <1>23 DEF CANstartFailed, RxExited
<1>24. CASE CommunicationReady
  BY <1>24 DEF CommunicationReady
<1>25. CASE StartThreads
  BY <1>25 DEF StartThreads
<1>26. CASE UnlockLifecycle
  BY <1>26 DEF UnlockLifecycle
<1>27. CASE Baseline
  BY <1>27 DEF Baseline, BaselineNow
<1>28. CASE TimerStart
  <2>1. /\ mpc = "timerStart" /\ RtParked
        /\ UNCHANGED <<stack, baseGen, charged, pc, co, rtSem>>
    BY <1>28 DEF TimerStart
  <2>2. mpc' \in {"startMain", "loop"} \/ UNCHANGED timer
    BY <1>28 DEF TimerStart
  <2>3. CASE mpc' \in {"startMain", "loop"}
    <3>1. ~timer /\ rtSem = 0
      BY <2>1
    <3>2. baseGen = stack
      BY <2>1
    <3>3. QED
      BY <2>1, <2>3, <3>2
  <2>4. CASE UNCHANGED timer
    BY <2>1, <2>4
  <2>5. QED
    BY <2>2, <2>3, <2>4
<1>29. CASE StartMain
  BY <1>29 DEF StartMain
<1>30. CASE Tick
  BY <1>30 DEF Tick, Inc
<1>31. ASSUME NEW r \in Requesters, ClaimWake(r) PROVE ChargeInv'
  BY <1>31 DEF ClaimWake
<1>32. ASSUME NEW r \in Requesters, PostWake(r) PROVE ChargeInv'
  BY <1>32 DEF PostWake, Inc
<1>33. CASE RtTake
  BY <1>33 DEF RtTake
<1>34. CASE RtLock
  <2>1. pc["rt"] = "lock" /\ lock = "free" /\ UNCHANGED <<mpc, stack, timer, rtSem>>
    BY <1>34 DEF RtLock, MutexFree
  <2>2. CASE stack = 0
    <3>1. pc' = [pc EXCEPT !["rt"] = "idle"] /\ UNCHANGED <<co, baseGen, charged>>
      BY <1>34, <2>2 DEF RtLock
    <3>2. QED
      BY <2>1, <2>2, <3>1
  <2>3. CASE stack # 0
    <3>1. /\ pc' = [pc EXCEPT !["rt"] = "pass"] /\ co' = [co EXCEPT !["rt"] = stack]
          /\ charged' = baseGen /\ baseGen' = stack
      BY <1>34, <2>3 DEF RtLock
    <3>2. mpc \in Charging
      BY <2>1 DEF MainPoints
    <3>3. baseGen = stack
      BY <2>1, <3>2
    <3>4. QED
      BY <2>1, <3>1, <3>3
  <2>4. QED
    BY <2>2, <2>3
<1>35. CASE RtProcess
  BY <1>35 DEF RtProcess
<1>36. CASE RtLeave
  BY <1>36 DEF RtLeave
<1>37. CASE ProfTake
  BY <1>37 DEF ProfTake
<1>38. CASE ProfClear
  BY <1>38 DEF ProfClear, FlagAtTake
<1>39. CASE ProfLock
  BY <1>39 DEF ProfLock, MutexFree
<1>40. CASE ProfProcess
  BY <1>40 DEF ProfProcess
<1>41. CASE ProfWindowEnd
  BY <1>41 DEF ProfWindowEnd
<1>42. CASE ProfLeave
  BY <1>42 DEF ProfLeave
<1>43. CASE ShellLock
  BY <1>43 DEF ShellLock, MutexFree
<1>44. CASE ShellLeave
  BY <1>44 DEF ShellLeave
<1>45. CASE RxReceive
  BY <1>45 DEF RxReceive
<1>46. CASE RxDispatched
  BY <1>46 DEF RxDispatched
<1>47. CASE RxExit
  BY <1>47 DEF RxExit
<1>48. CASE UNCHANGED vars
  BY <1>48 DEF vars
<1>49. QED
  BY <1>1, <1>2, <1>3, <1>4, <1>5, <1>5a, <1>5b, <1>6, <1>7, <1>8, <1>9, <1>10, <1>11, <1>12, <1>13, <1>14, <1>15, <1>16, <1>17, <1>18, <1>19, <1>20, <1>21, <1>22, <1>23, <1>24, <1>25, <1>26, <1>27, <1>28, <1>29, <1>30, <1>31, <1>32, <1>33, <1>34, <1>35, <1>36, <1>37, <1>38, <1>39, <1>40, <1>41, <1>42, <1>43, <1>44, <1>45, <1>46, <1>47, <1>48
  DEF Next, MainSteps, RtSteps, ProfSteps, RxSteps, Ended

(* The first pass of co_rt in a generation charges time since the baseline *)
(* of that generation, where co_rt is the more urgent thread.              *)
THEOREM BaselineIsFresh == Spec => []FreshBaseline
<1>1. Init => FreshInv
  BY DEF Init, FreshInv, SilentInv, ParkedInv, ChargeInv, NoToken, Parked, Charging,
         Running, LssPoints, Build, RtParked, Users
<1>2. IInv /\ FreshInv /\ [Next]_vars => FreshInv'
  <2> SUFFICES ASSUME IInv, FreshInv, [Next]_vars PROVE FreshInv'
    OBVIOUS
  <2>1. rtFirst' = rtFirst
    BY DEF Next, MainSteps, RtSteps, ProfSteps, RxSteps, Ended, vars, timeVars,
      MainTakeOD, MainReleaseOD, LssDue, LssLock, LssSet, LssStart, LssFailed, ResetRequested,
      TimerStop, ResetRtSem, ResetProfSem, ClearProfFlag, LockLifecycle,
      CommunicationStop, CANmoduleDisable, RxDrained, CommunicationQuiesced,
      Teardown, DeleteStack, NewStack, CANopenInit, BindCommunication, RxStart,
      CANstart, CANstartFailed, CommunicationReady, StartThreads,
      UnlockLifecycle, Baseline, TimerStart, StartMain, Tick, ClaimWake,
      PostWake, RtTake, RtLock, RtProcess, RtLeave, ProfTake, ProfClear,
      ProfLock, ProfProcess, ProfWindowEnd, ProfLeave, ShellLock, ShellLeave,
      RxReceive, RxDispatched, RxExit
  <2>2. SilentInv'
    BY SilentStep DEF FreshInv
  <2>3. rtFirst => ParkedInv' /\ ChargeInv'
    BY ParkedStep, ChargeStep DEF FreshInv
  <2>4. QED
    BY <2>1, <2>2, <2>3 DEF FreshInv
<1>3. FreshInv => FreshBaseline
  BY DEF FreshInv, ChargeInv, FreshBaseline
<1>4. QED
  BY <1>1, <1>2, <1>3, Invariance, PTL DEF Spec

-----------------------------------------------------------------------------
(* Refinement *)

(* A step of the runtime is a step of GenerationPin or none. *)
LEMMA PinStep == IInv /\ [Next]_vars => [Pin!Next]_(Pin!pinVars)
<1> SUFFICES ASSUME IInv, [Next]_vars PROVE [Pin!Next]_(Pin!pinVars)
  OBVIOUS
<1> USE DEF Users, Pin!pinVars
<1>1. ASSUME UNCHANGED <<stack, made>>, \A u \in Users : co'[u] = co[u]
      PROVE  UNCHANGED Pin!pinVars
  BY <1>1
<1>2. co \in [Threads -> 0..MaxGen] /\ made \in Nat /\ MaxGen \in Nat
  BY ResetAssumption DEF ResetAssumption, IInv, TypeOK, DataTypes
<1>3. CASE NewStack
  <2>1. stack = 0 /\ UNCHANGED co
    BY <1>3 DEF NewStack, MainFrom, IInv, ControlInv, PinInv, userVars
  <2>2. CASE made' = made + 1 /\ stack' = made + 1
    BY <2>1, <2>2 DEF Pin!Next, Pin!Create
  <2>3. CASE UNCHANGED <<stack, made>>
    BY <1>1, <2>1, <2>3
  <2>4. QED
    BY <1>3, <2>2, <2>3 DEF NewStack
<1>4. CASE DeleteStack
  <2>1. stack' = 0 /\ UNCHANGED <<made, co>>
    BY <1>4 DEF DeleteStack, userVars
  <2>2. \A u \in Users : co[u] = 0
    <3>1. mpc = "delete"
      BY <1>4 DEF DeleteStack, MainFrom
    <3>2. lock = "main" /\ module = "closed"
      BY <3>1 DEF IInv, ControlInv, LockInv, ModuleInv, Guarded, LssPoints
    <3>3. pc["rx"] = "off"
      BY <3>2 DEF IInv, ControlInv, ModuleInv
    <3>4. /\ pc["rt"] \notin {"pass", "od"} /\ pc["prof"] \notin {"pass", "od"}
          /\ pc["shell"] # "pass"
      BY <3>2 DEF IInv, ControlInv, LockInv
    <3>5. QED
      BY <3>3, <3>4 DEF IInv, ControlInv, PinInv
  <2>3. CASE stack = 0
    BY <1>1, <2>1, <2>3
  <2>4. CASE stack # 0
    BY <2>1, <2>2, <2>4 DEF Pin!Next, Pin!Retire
  <2>5. QED
    BY <2>3, <2>4
<1>5. CASE RtLock
  <2>1. co["rt"] = 0
    BY <1>5 DEF RtLock, IInv, ControlInv, PinInv, PcOK
  <2>2. UNCHANGED <<stack, made>>
    BY <1>5 DEF RtLock, stackVars
  <2>3. CASE stack # 0 /\ co' = [co EXCEPT !["rt"] = stack]
    BY <1>2, <2>1, <2>2, <2>3 DEF Threads, Pin!Next, Pin!Acquire
  <2>4. CASE UNCHANGED co
    BY <1>1, <1>2, <2>1, <2>2, <2>4 DEF Threads
  <2>5. QED
    BY <1>5, <2>3, <2>4 DEF RtLock, IInv, ControlInv, PinInv, Build
<1>6. CASE ProfLock
  <2>1. co["prof"] = 0
    BY <1>6 DEF ProfLock, IInv, ControlInv, PinInv, PcOK
  <2>2. UNCHANGED <<stack, made>>
    BY <1>6 DEF ProfLock, stackVars
  <2>3. CASE stack # 0 /\ co' = [co EXCEPT !["prof"] = stack]
    BY <1>2, <2>1, <2>2, <2>3 DEF Threads, Pin!Next, Pin!Acquire
  <2>4. CASE co' = [co EXCEPT !["prof"] = stack] /\ stack = 0
    BY <1>1, <1>2, <2>1, <2>2, <2>4 DEF Threads
  <2>5. QED
    BY <1>6, <2>3, <2>4 DEF ProfLock, IInv, ControlInv, PinInv, Build
<1>7. CASE ShellLock
  <2>1. co["shell"] = 0
    BY <1>7 DEF ShellLock, IInv, ControlInv, PinInv, PcOK
  <2>2. UNCHANGED <<stack, made>>
    BY <1>7 DEF ShellLock, stackVars
  <2>3. CASE stack # 0 /\ co' = [co EXCEPT !["shell"] = stack]
    BY <1>2, <2>1, <2>2, <2>3 DEF Threads, Pin!Next, Pin!Acquire
  <2>4. CASE UNCHANGED co
    BY <1>1, <1>2, <2>1, <2>2, <2>4 DEF Threads
  <2>5. QED
    BY <1>7, <2>3, <2>4 DEF ShellLock, IInv, ControlInv, PinInv, Build
<1>8. CASE RxStart \/ LssSet
  <2>1. stack # 0 /\ UNCHANGED <<stack, made>>
    BY <1>8 DEF RxStart, LssSet, MainFrom, stackVars, IInv, ControlInv, PinInv, Build, Running,
       LssPoints
  <2>2. CASE UNCHANGED co
    BY <1>1, <2>1, <2>2
  <2>3. CASE co["rx"] # 0 /\ co' = [co EXCEPT !["rx"] = stack]
    BY <1>1, <1>2, <2>1, <2>3 DEF Threads, IInv, ControlInv, PinInv
  <2>4. CASE co["rx"] = 0 /\ co' = [co EXCEPT !["rx"] = stack]
    BY <1>2, <2>1, <2>4 DEF Threads, Pin!Next, Pin!Acquire
  <2>5. QED
    BY <1>8, <2>2, <2>3, <2>4 DEF RxStart, LssSet, userVars
<1>9. CASE RtLeave
  <2>1. UNCHANGED <<stack, made>> /\ co' = [co EXCEPT !["rt"] = 0]
    BY <1>9 DEF RtLeave, stackVars
  <2>2. CASE co["rt"] = 0
    BY <1>1, <1>2, <2>1, <2>2 DEF Threads
  <2>3. CASE co["rt"] # 0
    BY <1>2, <2>1, <2>3 DEF Threads, Pin!Next, Pin!Release
  <2>4. QED
    BY <2>2, <2>3
<1>10. CASE ProfLeave
  <2>1. UNCHANGED <<stack, made>> /\ co' = [co EXCEPT !["prof"] = 0]
    BY <1>10 DEF ProfLeave, stackVars
  <2>2. CASE co["prof"] = 0
    BY <1>1, <1>2, <2>1, <2>2 DEF Threads
  <2>3. CASE co["prof"] # 0
    BY <1>2, <2>1, <2>3 DEF Threads, Pin!Next, Pin!Release
  <2>4. QED
    BY <2>2, <2>3
<1>11. CASE ShellLeave
  <2>1. UNCHANGED <<stack, made>> /\ co' = [co EXCEPT !["shell"] = 0]
    BY <1>11 DEF ShellLeave, stackVars
  <2>2. CASE co["shell"] = 0
    BY <1>1, <1>2, <2>1, <2>2 DEF Threads
  <2>3. CASE co["shell"] # 0
    BY <1>2, <2>1, <2>3 DEF Threads, Pin!Next, Pin!Release
  <2>4. QED
    BY <2>2, <2>3
<1>12. CASE RxExit
  <2>1. UNCHANGED <<stack, made>> /\ co' = [co EXCEPT !["rx"] = 0]
    BY <1>12 DEF RxExit, stackVars
  <2>2. CASE co["rx"] = 0
    BY <1>1, <1>2, <2>1, <2>2 DEF Threads
  <2>3. CASE co["rx"] # 0
    BY <1>2, <2>1, <2>3 DEF Threads, Pin!Next, Pin!Release
  <2>4. QED
    BY <2>2, <2>3
<1>13. CASE UnlockLifecycle \/ StartMain
  BY <1>1, <1>2, <1>13 DEF UnlockLifecycle, StartMain, stackVars, Threads
<1>14. CASE UNCHANGED <<stack, made, co>>
  BY <1>1, <1>14
<1>15. QED
  BY <1>3, <1>4, <1>5, <1>6, <1>7, <1>8, <1>9, <1>10, <1>11, <1>12, <1>13, <1>14
  DEF Next, MainSteps, RtSteps, ProfSteps, RxSteps, Ended, vars, stackVars,
     userVars, MainTakeOD, MainReleaseOD, LssDue, LssLock, LssStart, LssFailed,
     ResetRequested, TimerStop, ResetRtSem, ResetProfSem, ClearProfFlag,
     LockLifecycle, CommunicationStop, CANmoduleDisable, RxDrained,
     CommunicationQuiesced, Teardown, CANopenInit, BindCommunication,
     CANstart, CANstartFailed, CommunicationReady, StartThreads, Baseline,
     TimerStart, Tick, ClaimWake, PostWake, RtTake, RtProcess, ProfTake,
     ProfClear, ProfProcess, ProfWindowEnd, RxReceive, RxDispatched

(* The application implements GenerationPin: every step creates, retires,  *)
(* pins or unpins a generation as that specification allows, or none.      *)
THEOREM ImplementsPin == Spec => PinSpec
<1>1. Init => Pin!Init
  BY DEF Init, Pin!Init, Users, Threads
<1>2. QED
  BY <1>1, PinStep, Invariance, PTL DEF Spec, PinSpec, Pin!Spec

(* co_rx is off until its module is open and started. *)
RxOffInv == mpc \in {"bind", "normal"} => pc["rx"] = "off"

(* Nothing but CO_CANsetNormalMode() starts co_rx. *)
LEMMA RxOffStep == IInv /\ RxOffInv /\ [Next]_vars => RxOffInv'
<1> SUFFICES ASSUME IInv, RxOffInv, [Next]_vars PROVE RxOffInv'
  OBVIOUS
<1> USE DEF IInv, TypeOK, DataTypes, ControlInv, PcOK, ModuleInv, Users, RxOffInv,
      Proceed, Fail, MainFrom, stackVars, extVars, lockVars, wakeVars, mainVars,
      userVars, timeVars
<1>1. CASE MainTakeOD
  BY <1>1 DEF MainTakeOD
<1>2. CASE MainReleaseOD
  BY <1>2 DEF MainReleaseOD
<1>3. CASE LssDue
  BY <1>3 DEF LssDue
<1>4. CASE LssLock
  BY <1>4 DEF LssLock, MutexFree
<1>5. CASE LssSet
  BY <1>5 DEF LssSet, LssRefused
<1>5a. CASE LssStart
  BY <1>5a DEF LssStart
<1>5b. CASE LssFailed
  BY <1>5b DEF LssFailed, LssRefused
<1>6. CASE ResetRequested
  BY <1>6 DEF ResetRequested
<1>7. CASE TimerStop
  BY <1>7 DEF TimerStop
<1>8. CASE ResetRtSem
  BY <1>8 DEF ResetRtSem
<1>9. CASE ResetProfSem
  BY <1>9 DEF ResetProfSem
<1>10. CASE ClearProfFlag
  BY <1>10 DEF ClearProfFlag, FlagAfterReset
<1>11. CASE LockLifecycle
  BY <1>11 DEF LockLifecycle, MutexFree
<1>12. CASE CommunicationStop
  BY <1>12 DEF CommunicationStop, ReadyAtStop
<1>13. CASE CANmoduleDisable
  BY <1>13 DEF CANmoduleDisable, RxTold
<1>14. CASE RxDrained
  BY <1>14 DEF RxDrained, RxExited
<1>15. CASE CommunicationQuiesced
  BY <1>15 DEF CommunicationQuiesced, Unbound
<1>16. CASE Teardown
  BY <1>16 DEF Teardown
<1>17. CASE DeleteStack
  BY <1>17 DEF DeleteStack
<1>18. CASE NewStack
  BY <1>18 DEF NewStack
<1>19. CASE CANopenInit
  BY <1>19 DEF CANopenInit
<1>20. CASE BindCommunication
  BY <1>20 DEF BindCommunication, Unbound
<1>21. CASE RxStart
  BY <1>21 DEF RxStart
<1>22. CASE CANstart
  BY <1>22 DEF CANstart
<1>23. CASE CANstartFailed
  BY <1>23 DEF CANstartFailed, RxExited
<1>24. CASE CommunicationReady
  BY <1>24 DEF CommunicationReady
<1>25. CASE StartThreads
  BY <1>25 DEF StartThreads
<1>26. CASE UnlockLifecycle
  BY <1>26 DEF UnlockLifecycle
<1>27. CASE Baseline
  BY <1>27 DEF Baseline, BaselineNow
<1>28. CASE TimerStart
  BY <1>28 DEF TimerStart
<1>29. CASE StartMain
  BY <1>29 DEF StartMain
<1>30. CASE Tick
  BY <1>30 DEF Tick, Inc
<1>31. ASSUME NEW r \in Requesters, ClaimWake(r) PROVE RxOffInv'
  BY <1>31 DEF ClaimWake
<1>32. ASSUME NEW r \in Requesters, PostWake(r) PROVE RxOffInv'
  BY <1>32 DEF PostWake, Inc
<1>33. CASE RtTake
  BY <1>33 DEF RtTake
<1>34. CASE RtLock
  BY <1>34 DEF RtLock, MutexFree
<1>35. CASE RtProcess
  BY <1>35 DEF RtProcess
<1>36. CASE RtLeave
  BY <1>36 DEF RtLeave
<1>37. CASE ProfTake
  BY <1>37 DEF ProfTake
<1>38. CASE ProfClear
  BY <1>38 DEF ProfClear, FlagAtTake
<1>39. CASE ProfLock
  BY <1>39 DEF ProfLock, MutexFree
<1>40. CASE ProfProcess
  BY <1>40 DEF ProfProcess
<1>41. CASE ProfWindowEnd
  BY <1>41 DEF ProfWindowEnd
<1>42. CASE ProfLeave
  BY <1>42 DEF ProfLeave
<1>43. CASE ShellLock
  BY <1>43 DEF ShellLock, MutexFree
<1>44. CASE ShellLeave
  BY <1>44 DEF ShellLeave
<1>45. CASE RxReceive
  BY <1>45 DEF RxReceive
<1>46. CASE RxDispatched
  BY <1>46 DEF RxDispatched
<1>47. CASE RxExit
  BY <1>47 DEF RxExit
<1>48. CASE UNCHANGED vars
  BY <1>48 DEF vars
<1>49. QED
  BY <1>1, <1>2, <1>3, <1>4, <1>5, <1>5a, <1>5b, <1>6, <1>7, <1>8, <1>9, <1>10, <1>11, <1>12, <1>13, <1>14, <1>15, <1>16, <1>17, <1>18, <1>19, <1>20, <1>21, <1>22, <1>23, <1>24, <1>25, <1>26, <1>27, <1>28, <1>29, <1>30, <1>31, <1>32, <1>33, <1>34, <1>35, <1>36, <1>37, <1>38, <1>39, <1>40, <1>41, <1>42, <1>43, <1>44, <1>45, <1>46, <1>47, <1>48
  DEF Next, MainSteps, RtSteps, ProfSteps, RxSteps, Ended

(* A step of the runtime is a step of RxDrain or none. *)
LEMMA DrainStep == IInv /\ RxOffInv /\ [Next]_vars => [Drain!Next]_(Drain!drainVars)
<1> SUFFICES ASSUME IInv, RxOffInv, [Next]_vars PROVE [Drain!Next]_(Drain!drainVars)
  OBVIOUS
<1> USE DEF Drain!drainVars, Users, IInv, TypeOK, DataTypes, Proceed, MainFrom, stackVars,
      mainVars, userVars
<1>1. CASE CANopenInit
  <2>1. module = "closed" /\ UNCHANGED pc
    BY <1>1 DEF CANopenInit, ControlInv, ModuleInv
  <2>2. CASE module' = "open"
    BY <1>1, <2>1, <2>2 DEF CANopenInit, Drain!Next, Drain!Open
  <2>3. CASE module' = "closed"
    BY <1>1, <2>1, <2>3 DEF CANopenInit
  <2>4. QED
    BY <1>1, <2>2, <2>3 DEF CANopenInit
<1>2. CASE RxStart
  <2>1. module = "open" /\ pc["rx"] = "off" /\ UNCHANGED module
    BY <1>2 DEF RxStart, ControlInv, ModuleInv, Build, RxOffInv
  <2>2. CASE UNCHANGED userVars
    BY <2>1, <2>2
  <2>3. CASE pc' = [pc EXCEPT !["rx"] = "idle"] /\ rxStop' = FALSE
    BY <2>1, <2>3 DEF Drain!Next, Drain!Start
  <2>4. QED
    BY <1>2, <2>2, <2>3 DEF RxStart
<1>2a. CASE LssSet
  <2>1. module = "open" /\ UNCHANGED module
    BY <1>2a DEF LssSet, ControlInv, ModuleInv, Running, LssPoints
  <2>2. CASE pc["rx"] # "off"
    <3>1. pc'["rx"] = pc["rx"]
      BY <1>2a, <2>2 DEF LssSet
    <3>2. rxStop' = (rxStop /\ pc["rx"] # "off") \/ rxStop' = rxStop
      BY <1>2a DEF LssSet
    <3>3. rxStop' = rxStop
      BY <2>2, <3>2, Zenon DEF FlagTypes
    <3>q. QED
      BY <2>1, <3>1, <3>3
  <2>3. CASE pc["rx"] = "off"
    <3>1. pc'["rx"] \in {"off", "idle"}
      BY <1>2a, <2>3 DEF LssSet
    <3>2. rxStop' = FALSE \/ (UNCHANGED rxStop /\ UNCHANGED pc)
      BY <1>2a, <2>3 DEF LssSet
    <3>q. QED
      BY <2>1, <2>3, <3>1, <3>2 DEF Drain!Next, Drain!Start
  <2>q. QED
    BY <2>2, <2>3
<1>3. CASE CANmoduleDisable \/ CANstart \/ LssStart
  <2>1. UNCHANGED <<module, pc>>
    BY <1>3 DEF CANmoduleDisable, CANstart, LssStart
  <2>2. CASE UNCHANGED rxStop
    BY <2>1, <2>2
  <2>3. CASE module = "open" /\ rxStop' = TRUE
    BY <2>1, <2>3 DEF Drain!Next, Drain!Tell
  <2>4. mpc \in {"canStart", "lssStart", "lssBackStart"} => module = "open"
    BY DEF ControlInv, ModuleInv, Build, Running, LssPoints
  <2>5. QED
    BY <1>3, <2>2, <2>3, <2>4 DEF CANmoduleDisable, CANstart, LssStart, RxTold
<1>4. CASE RxDrained
  BY <1>4 DEF RxDrained, RxExited, Drain!Next, Drain!Close
<1>5. CASE RxReceive
  BY <1>5 DEF RxReceive, Drain!Next, Drain!Receive
<1>6. CASE RxDispatched
  BY <1>6 DEF RxDispatched, Drain!Next, Drain!Dispatched
<1>7. CASE RxExit
  BY <1>7 DEF RxExit, Drain!Next, Drain!Exit
<1>8. CASE UNCHANGED <<module, rxStop>> /\ pc'["rx"] = pc["rx"]
  BY <1>8
<1>9. CASE Teardown \/ StartThreads \/ RtSteps \/ ProfSteps \/ ShellLock \/ ShellLeave
  BY <1>8, <1>9 DEF Teardown, StartThreads, RtSteps, ProfSteps, RtTake, RtLock, RtProcess,
     RtLeave, ProfTake, ProfClear, ProfLock, ProfProcess, ProfWindowEnd, ProfLeave,
     ShellLock, ShellLeave
<1>10. QED
  BY <1>1, <1>2, <1>2a, <1>3, <1>4, <1>5, <1>6, <1>7, <1>8, <1>9
  DEF Next, MainSteps, RxSteps, Ended, vars,
     MainTakeOD, MainReleaseOD, LssDue, LssLock, LssFailed, ResetRequested,
     TimerStop, ResetRtSem, ResetProfSem, ClearProfFlag, LockLifecycle,
     CommunicationStop, CommunicationQuiesced, DeleteStack, NewStack,
     BindCommunication, CANstartFailed, CommunicationReady, UnlockLifecycle,
     Baseline, TimerStart, StartMain, Tick, ClaimWake, PostWake

(* The runtime starts, tells and awaits co_rx only as RxDrain allows: the  *)
(* module is closed under no running co_rx (CO_driver_rtthread.c:480).     *)
THEOREM ImplementsDrain == Spec => DrainSpec
<1>1. Init => Drain!Init /\ RxOffInv
  BY DEF Init, Drain!Init, RxOffInv, Users
<1>2. QED
  BY <1>1, RxOffStep, DrainStep, Invariance, PTL DEF Spec, DrainSpec, Drain!Spec

=============================================================================
