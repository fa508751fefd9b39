------------------------- MODULE Persistence_proofs -------------------------
(***************************************************************************)
(* Proofs about Persistence: the LSS record implements ConfigRegister, a   *)
(* start never mixes two configurations, and parameters are not lost       *)
(* silently, for any nodes, bitrates, entries and values.                  *)
(***************************************************************************)
EXTENDS Persistence, TLAPS

Storing == {"invalidate", "body", "verify", "commit", "check", "revoke"}

(* Types the other conjuncts rest on. *)
TypeInv ==
    /\ pending \in Configs
    /\ file \in [Entry -> Values \cup {Torn, Missing}]
    /\ ram \in [Entry -> Values]
    /\ expected \in [Entry -> Values \cup {None}]
    /\ turn \in Nat

(* A configuration is being stored exactly while a Store service runs, and *)
(* the commit field is written over nothing but its body.                  *)
StoreInv ==
    /\ asked \in Configs \cup {None}
    /\ pc \in Storing <=> asked # None
    /\ pc \in {"commit", "check", "revoke"} => body = asked

(* Before the first CO_CANinit() the pending values are the startup ones,  *)
(* or the recorded ones once those have been loaded.                       *)
StartInv ==
    /\ pc \in {"aux", "load"} => ~loaded /\ pending = Startup
    /\ pc = "can" /\ first /\ loaded => pending = Decoded
    /\ pc = "can" /\ first /\ ~loaded => pending = Startup

(* An entry whose file is valid has been read, and none was torn. *)
ReadWell(e) == file[e] # Torn /\ (file[e] \in Values => ram[e] = file[e])

(* The value of a stored entry is in its file, and unless corruption has   *)
(* been noticed every file passed so far was read well.                    *)
FileInv ==
    /\ \A e \in Entry : expected[e] # None => expected[e] \in Values /\ file[e] = expected[e]
    /\ pc = "odStore" => turn \in Entry /\ expected[turn] = None
    /\ pc = "read" /\ ~corrupt => \A e \in Entry : e < turn => ReadWell(e)
    /\ pc = "canopen" /\ ~corrupt => \A e \in Entry : ReadWell(e)

IInv == TypeInv /\ StoreInv /\ StartInv /\ FileInv

-----------------------------------------------------------------------------
(* Every step of the start-up path, the services and the file accesses     *)
(* keeps the types.                                                        *)
LEMMA TypeStep == IInv /\ [Next]_vars => TypeInv'
<1> SUFFICES ASSUME IInv, [Next]_vars PROVE TypeInv'
  OBVIOUS
<1> USE PersistenceAssumption DEF PersistenceAssumption,
      IInv, TypeInv, Goto, recordVars, fileVars, lssVars, initVars, Startup, Configs, Entry
<1>1. CASE PowerOn
  BY <1>1 DEF PowerOn
<1>2. CASE PowerOff
  BY <1>2 DEF PowerOff
<1>3. CASE InitAgain
  BY <1>3 DEF InitAgain
<1>4. CASE AuxInit
  BY <1>4 DEF AuxInit
<1>5. CASE Load
  BY <1>5 DEF Load, Decoded
<1>6. CASE CanInit
  BY <1>6 DEF CanInit, FallbackTo, BothValues
<1>7. CASE OdInit
  BY <1>7 DEF OdInit
<1>8. CASE OdRead
  BY <1>8 DEF OdRead, HardError, Reported
<1>9. CASE OdReadAll
  BY <1>9 DEF OdReadAll
<1>10. CASE CanopenInit
  BY <1>10 DEF CanopenInit
<1>11. CASE ResetCommunication
  BY <1>11 DEF ResetCommunication
<1>12. CASE Configure
  BY <1>12 DEF Configure, Configs
<1>13. CASE Store
  BY <1>13 DEF Store
<1>14. CASE Invalidate
  BY <1>14 DEF Invalidate, WriteCommit, Ends
<1>15. CASE WriteBody
  BY <1>15 DEF WriteBody, WriteCommit, Ends
<1>16. CASE VerifyBody
  BY <1>16 DEF VerifyBody, WriteCommit, Ends
<1>17. CASE Commit
  BY <1>17 DEF Commit, WriteCommit, Ends
<1>18. CASE Check
  BY <1>18 DEF Check, WriteCommit, Ends
<1>19. CASE Revoke
  BY <1>19 DEF Revoke, WriteCommit, Ends
<1>20. CASE OdStored
  BY <1>20 DEF OdStored
<1>21. CASE \E e \in Entry : OdStore(e)
  BY <1>21 DEF OdStore
<1>22. CASE \E e \in Entry : OdRestore(e)
  BY <1>22 DEF OdRestore
<1>23. CASE \E e \in Entry : \E v \in Values : OdWrite(e, v)
  BY <1>23 DEF OdWrite
<1>24. CASE UNCHANGED vars
  BY <1>24 DEF vars
<1>25. QED
  BY <1>1, <1>2, <1>3, <1>4, <1>5, <1>6, <1>7, <1>8, <1>9, <1>10, <1>11, <1>12,
     <1>13, <1>14, <1>15, <1>16, <1>17, <1>18, <1>19, <1>20, <1>21, <1>22, <1>23, <1>24 DEF Next

(* co_lss_persist_rtt_store() reaches the commit marker only over the body *)
(* it was asked to store, and is abandoned when power goes off.            *)
LEMMA StoreStep == IInv /\ [Next]_vars => StoreInv'
<1> SUFFICES ASSUME IInv, [Next]_vars PROVE StoreInv'
  OBVIOUS
<1> USE PersistenceAssumption DEF PersistenceAssumption,
      IInv, TypeInv, Goto, recordVars, fileVars, lssVars, initVars, StoreInv, Storing
<1>1. CASE PowerOn
  BY <1>1 DEF PowerOn
<1>2. CASE PowerOff
  BY <1>2 DEF PowerOff
<1>3. CASE InitAgain
  BY <1>3 DEF InitAgain
<1>4. CASE AuxInit
  BY <1>4 DEF AuxInit
<1>5. CASE Load
  BY <1>5 DEF Load
<1>6. CASE CanInit
  BY <1>6 DEF CanInit, FallbackTo, BothValues
<1>7. CASE OdInit
  BY <1>7 DEF OdInit
<1>8. CASE OdRead
  BY <1>8 DEF OdRead, HardError, Reported
<1>9. CASE OdReadAll
  BY <1>9 DEF OdReadAll
<1>10. CASE CanopenInit
  BY <1>10 DEF CanopenInit
<1>11. CASE ResetCommunication
  BY <1>11 DEF ResetCommunication
<1>12. CASE Configure
  BY <1>12 DEF Configure
<1>13. CASE Store
  BY <1>13 DEF Store
<1>14. CASE Invalidate
  BY <1>14 DEF Invalidate, WriteCommit, Ends
<1>15. CASE WriteBody
  BY <1>15 DEF WriteBody, WriteCommit, Ends
<1>16. CASE VerifyBody
  BY <1>16 DEF VerifyBody, WriteCommit, Ends
<1>17. CASE Commit
  BY <1>17 DEF Commit, WriteCommit, Ends
<1>18. CASE Check
  BY <1>18 DEF Check, WriteCommit, Ends, Verified, ReadBack, Decoded
<1>19. CASE Revoke
  BY <1>19 DEF Revoke, WriteCommit, Ends
<1>20. CASE OdStored
  BY <1>20 DEF OdStored
<1>21. CASE \E e \in Entry : OdStore(e)
  BY <1>21 DEF OdStore
<1>22. CASE \E e \in Entry : OdRestore(e)
  BY <1>22 DEF OdRestore
<1>23. CASE \E e \in Entry : \E v \in Values : OdWrite(e, v)
  BY <1>23 DEF OdWrite
<1>24. CASE UNCHANGED vars
  BY <1>24 DEF vars
<1>25. QED
  BY <1>1, <1>2, <1>3, <1>4, <1>5, <1>6, <1>7, <1>8, <1>9, <1>10, <1>11, <1>12,
     <1>13, <1>14, <1>15, <1>16, <1>17, <1>18, <1>19, <1>20, <1>21, <1>22, <1>23, <1>24 DEF Next

(* co_lss_persist_rtt_load() replaces both pending values or neither, and  *)
(* the fallback of co_app_rtt_reset_communication() puts both back.        *)
LEMMA StartStep == IInv /\ [Next]_vars => StartInv'
<1> SUFFICES ASSUME IInv, [Next]_vars PROVE StartInv'
  OBVIOUS
<1> USE PersistenceAssumption DEF PersistenceAssumption,
      IInv, TypeInv, Goto, recordVars, fileVars, lssVars, initVars, StartInv, Decoded
<1>1. CASE PowerOn
  BY <1>1 DEF PowerOn
<1>2. CASE PowerOff
  BY <1>2 DEF PowerOff
<1>3. CASE InitAgain
  BY <1>3 DEF InitAgain
<1>4. CASE AuxInit
  BY <1>4 DEF AuxInit
<1>5. CASE Load
  BY <1>5 DEF Load
<1>6. CASE CanInit
  BY <1>6 DEF CanInit, FallbackTo, BothValues
<1>7. CASE OdInit
  BY <1>7 DEF OdInit
<1>8. CASE OdRead
  BY <1>8 DEF OdRead, HardError, Reported
<1>9. CASE OdReadAll
  BY <1>9 DEF OdReadAll
<1>10. CASE CanopenInit
  BY <1>10 DEF CanopenInit
<1>11. CASE ResetCommunication
  BY <1>11 DEF ResetCommunication
<1>12. CASE Configure
  BY <1>12 DEF Configure
<1>13. CASE Store
  BY <1>13 DEF Store
<1>14. CASE Invalidate
  BY <1>14 DEF Invalidate, WriteCommit, Ends
<1>15. CASE WriteBody
  BY <1>15 DEF WriteBody, WriteCommit, Ends
<1>16. CASE VerifyBody
  BY <1>16 DEF VerifyBody, WriteCommit, Ends
<1>17. CASE Commit
  BY <1>17 DEF Commit, WriteCommit, Ends
<1>18. CASE Check
  BY <1>18 DEF Check, WriteCommit, Ends, Verified, ReadBack, Decoded
<1>19. CASE Revoke
  BY <1>19 DEF Revoke, WriteCommit, Ends
<1>20. CASE OdStored
  BY <1>20 DEF OdStored
<1>21. CASE \E e \in Entry : OdStore(e)
  BY <1>21 DEF OdStore
<1>22. CASE \E e \in Entry : OdRestore(e)
  BY <1>22 DEF OdRestore
<1>23. CASE \E e \in Entry : \E v \in Values : OdWrite(e, v)
  BY <1>23 DEF OdWrite
<1>24. CASE UNCHANGED vars
  BY <1>24 DEF vars
<1>25. QED
  BY <1>1, <1>2, <1>3, <1>4, <1>5, <1>6, <1>7, <1>8, <1>9, <1>10, <1>11, <1>12,
     <1>13, <1>14, <1>15, <1>16, <1>17, <1>18, <1>19, <1>20, <1>21, <1>22, <1>23, <1>24 DEF Next

(* A store that succeeded stays in its file until the next store or        *)
(* restore, and the start-up read notices every torn file.                 *)
LEMMA FileStep == IInv /\ [Next]_vars => FileInv'
<1> SUFFICES ASSUME IInv, [Next]_vars PROVE FileInv'
  OBVIOUS
<1> USE PersistenceAssumption DEF PersistenceAssumption,
      IInv, TypeInv, Goto, recordVars, fileVars, lssVars, initVars, FileInv, ReadWell, Entry
<1>1. CASE PowerOn
  BY <1>1 DEF PowerOn
<1>2. CASE PowerOff
  BY <1>2 DEF PowerOff
<1>3. CASE InitAgain
  BY <1>3 DEF InitAgain
<1>4. CASE AuxInit
  BY <1>4 DEF AuxInit
<1>5. CASE Load
  BY <1>5 DEF Load
<1>6. CASE CanInit
  BY <1>6 DEF CanInit, FallbackTo, BothValues
<1>7. CASE OdInit
  BY <1>7 DEF OdInit
<1>8. CASE OdRead
  BY <1>8 DEF OdRead, HardError, Reported
<1>9. CASE OdReadAll
  BY <1>9 DEF OdReadAll
<1>10. CASE CanopenInit
  BY <1>10 DEF CanopenInit
<1>11. CASE ResetCommunication
  BY <1>11 DEF ResetCommunication
<1>12. CASE Configure
  BY <1>12 DEF Configure
<1>13. CASE Store
  BY <1>13 DEF Store
<1>14. CASE Invalidate
  BY <1>14 DEF Invalidate, WriteCommit, Ends
<1>15. CASE WriteBody
  BY <1>15 DEF WriteBody, WriteCommit, Ends
<1>16. CASE VerifyBody
  BY <1>16 DEF VerifyBody, WriteCommit, Ends
<1>17. CASE Commit
  BY <1>17 DEF Commit, WriteCommit, Ends
<1>18. CASE Check
  BY <1>18 DEF Check, WriteCommit, Ends, Verified, ReadBack, Decoded
<1>19. CASE Revoke
  BY <1>19 DEF Revoke, WriteCommit, Ends
<1>20. CASE OdStored
  BY <1>20 DEF OdStored
<1>21. CASE \E e \in Entry : OdStore(e)
  BY <1>21 DEF OdStore
<1>22. CASE \E e \in Entry : OdRestore(e)
  BY <1>22 DEF OdRestore
<1>23. CASE \E e \in Entry : \E v \in Values : OdWrite(e, v)
  BY <1>23 DEF OdWrite
<1>24. CASE UNCHANGED vars
  BY <1>24 DEF vars
<1>25. QED
  BY <1>1, <1>2, <1>3, <1>4, <1>5, <1>6, <1>7, <1>8, <1>9, <1>10, <1>11, <1>12,
     <1>13, <1>14, <1>15, <1>16, <1>17, <1>18, <1>19, <1>20, <1>21, <1>22, <1>23, <1>24 DEF Next

-----------------------------------------------------------------------------
(* The first start, on a blank medium, satisfies the invariant. *)
LEMMA InitInv == Init => IInv
<1> SUFFICES ASSUME Init PROVE IInv
  OBVIOUS
<1> USE PersistenceAssumption DEF Init, PersistenceAssumption
<1>1. TypeInv
  BY DEF TypeInv, Startup, Configs
<1>2. StoreInv
  BY DEF StoreInv, Storing
<1>3. StartInv
  BY DEF StartInv
<1>4. FileInv
  BY DEF FileInv, Entry
<1>5. QED BY <1>1, <1>2, <1>3, <1>4 DEF IInv

(* The invariant holds whatever the medium does and wherever power goes off. *)
THEOREM Invariant == Spec => []IInv
<1>1. IInv /\ [Next]_vars => IInv'
  BY TypeStep, StoreStep, StartStep, FileStep DEF IInv
<1>2. QED BY InitInv, <1>1, PTL DEF Spec

-----------------------------------------------------------------------------
(* A start uses the startup configuration or the recorded one whole, and   *)
(* fails at the controller only if that refuses the startup bitrate.       *)
THEOREM StartIsWhole == Spec => StartsWithWholeConfig
<1> DEFINE Step == pc = "can" /\ first =>
                       /\ pc' = "od" => active' \in {Startup, Decoded}
                       /\ pc' = "failed" => StartRate \in Refused
<1>1. IInv /\ [Next]_vars => Step \/ UNCHANGED vars
  <2> SUFFICES ASSUME IInv, [Next]_vars, pc = "can", first, pc' \in {"od", "failed"}
               PROVE  Step
    BY DEF vars
  <2>1. CanInit
    BY DEF Next, vars, Goto, Ends, PowerOn, PowerOff, InitAgain, AuxInit, Load, OdInit, OdRead,
        OdReadAll, CanopenInit, ResetCommunication, Configure, Store, Invalidate, WriteBody,
        VerifyBody, Commit, Check, Revoke, OdStore, OdStored, OdRestore, OdWrite
  <2>2. CASE loaded
    BY <2>1, <2>2 DEF CanInit, Goto, IInv, StartInv
  <2>3. CASE ~loaded
    BY <2>1, <2>3 DEF CanInit, Goto, IInv, StartInv, Startup
  <2>4. QED BY <2>2, <2>3
<1>2. IInv /\ [Next]_vars => [Step]_vars
  BY <1>1
<1>3. QED BY Invariant, <1>2, PTL DEF Spec, StartsWithWholeConfig

(* A configured node that runs has reported a storage error, or has every  *)
(* value whose store was acknowledged.                                     *)
THEOREM LossIsReported == Spec => NoSilentLoss
<1> DEFINE Step == pc = "canopen" /\ pc' = "run" /\ active.node # NoNode =>
                       \/ nvm'
                       \/ \A e \in Entry : /\ file[e] # Torn
                                           /\ expected[e] # None => ram[e] = expected[e]
<1>1. IInv /\ [Next]_vars => Step \/ UNCHANGED vars
  <2> SUFFICES ASSUME IInv, [Next]_vars, pc = "canopen", pc' = "run", active.node # NoNode
               PROVE  Step
    BY DEF vars
  <2>1. CanopenInit
    BY DEF Next, vars, Goto, Ends, PowerOn, PowerOff, InitAgain, AuxInit, Load, CanInit, OdInit,
        OdRead, OdReadAll, ResetCommunication, Configure, Store, Invalidate, WriteBody,
        VerifyBody, Commit, Check, Revoke, OdStore, OdStored, OdRestore, OdWrite
  <2>2. CASE corrupt
    BY <2>1, <2>2 DEF CanopenInit
  <2>3. CASE ~corrupt
    BY <2>3 DEF IInv, FileInv, ReadWell
  <2>4. QED BY <2>2, <2>3
<1>2. IInv /\ [Next]_vars => [Step]_vars
  BY <1>1
<1>3. QED BY Invariant, <1>2, PTL DEF Spec, NoSilentLoss

(* A start takes the configuration whole and reports what it lacks.        *)
THEOREM StartsAreHonest == Spec => StartIsHonest
BY StartIsWhole, LossIsReported DEF StartIsHonest

-----------------------------------------------------------------------------
(* Every step outside the store service leaves the record alone; a loss of *)
(* power during one may end it.                                            *)
LEMMA QuietStep ==
    ASSUME [Next]_vars,
           ~(Store \/ Invalidate \/ WriteBody \/ VerifyBody \/ Commit \/ Check \/ Revoke)
    PROVE  /\ UNCHANGED <<body, commit, acked>>
           /\ asked' = asked \/ asked' = None
  BY DEF Next, vars, recordVars, PowerOn, PowerOff, InitAgain, AuxInit, Load, CanInit, OdInit,
      OdRead, OdReadAll, CanopenInit, ResetCommunication, Configure, OdStore, OdStored,
      OdRestore, OdWrite

(* Every access to the medium is a step of the register or none. *)
LEMMA RegisterStep ==
    IInv /\ [Next]_vars => [Register!Next]_<<Decoded, asked, acked>>
<1> SUFFICES ASSUME IInv, [Next]_vars PROVE [Register!Next]_<<Decoded, asked, acked>>
  OBVIOUS
<1> USE PersistenceAssumption DEF PersistenceAssumption,
      IInv, StoreInv, Storing, Goto, Ends,
      WriteCommit, Decoded, Register!Next
<1>1. CASE Store
  <2>1. Register!Begin(pending)
    BY <1>1 DEF Store, Register!Begin
  <2>2. QED BY <2>1 DEF TypeInv
<1>2. CASE Invalidate
  <2>1. asked # None /\ body' = body /\ (commit' = commit \/ commit' = FALSE)
    BY <1>2 DEF Invalidate
  <2>2. Decoded' \in {Decoded, None}
    BY <2>1
  <2>3. UNCHANGED <<asked, acked>> \/ (asked' = None /\ UNCHANGED acked)
    BY <1>2 DEF Invalidate
  <2>4. QED BY <2>1, <2>2, <2>3 DEF Register!Lose, Register!Fail
<1>3. CASE WriteBody
  BY <1>3 DEF WriteBody, Register!Take, Register!Lose, Register!Fail
<1>4. CASE VerifyBody
  BY <1>4 DEF VerifyBody, Register!Fail
<1>5. CASE Commit
  BY <1>5 DEF Commit, Register!Take, Register!Lose
<1>6. CASE Check
  BY <1>6 DEF Check, Verified, ReadBack, Register!Succeed
<1>7. CASE Revoke
  BY <1>7 DEF Revoke, Register!Fail
<1>8. CASE ~(Store \/ Invalidate \/ WriteBody \/ VerifyBody \/ Commit \/ Check \/ Revoke)
  BY <1>8, QuietStep DEF Register!Fail
<1>9. QED BY <1>1, <1>2, <1>3, <1>4, <1>5, <1>6, <1>7, <1>8

(* The record is an atomic register: wherever power is lost and whatever   *)
(* writes do, a start reads a configuration that was stored, or none.      *)
THEOREM ImplementsRegister == Spec => RegisterSpec
<1>1. Init => Register!Init
  BY DEF Init, Register!Init, Decoded
<1>2. QED BY <1>1, Invariant, RegisterStep, PTL DEF Spec, RegisterSpec, Register!Spec

=============================================================================
