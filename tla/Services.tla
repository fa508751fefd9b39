------------------------------ MODULE Services ------------------------------
(***************************************************************************)
(* The receive path, the EEPROM back end of the storage and the test       *)
(* services.  They share no state: a behaviour exercises one of them,      *)
(* chosen at the start, and leaves the others in an initial state.         *)
(***************************************************************************)
EXTENDS Integers

CONSTANTS
    Batch, FifoMax, SemMax,                   \* RxPath, in the default priorities
    MaxSize, Page,                            \* EepromLayout
    Values, Zero, FF, Length,                 \* EepromStorage
    Timeout, MaxGap,                          \* NmtMasterTest
    Payload, Chunk, Fifo, SdoMaxSeq,          \* SdoClientTest
    Cells, MaxLength, NoBackup,               \* StorageTest
    Words, MaxMessages, MaxRetries,           \* EmcyDiagnostic
    SafetyMaxSeq,                             \* SafetyTests
    Size, Contents, BaseByte, Streams         \* SdoBlockTest

VARIABLES
    part,
    module, rxCanNormal, rxThread, rxRunning, rxStop, bound, rxSem, rxExitSem, fifo, rxOwed,
    mpc, after, rpc, left, full,
    size, storageOffset, configured, storageRegion, auxOffset, auxRegion, nextAddress, opened,
    taken,
    auto, ram, payload, signature, changed, offset, pc, written, stored,
    phase, step, resetObserved, elapsed, verdict, override, original, config, theirs, denied,
    nmtStage, nmtCanNormal, active, wasActive, hbState, nmtState, heartbeat, remote, frame,
    executed, meddled,
    sdoRequestSeq, request, lastConsumed, activeSeq, sdoCompleteSeq, sdoResult, latched,
    running, byteOffset, inFifo, atServer, announced, sdoPublished, sdoStage, generation,
    committedIn, startedIn,
    eeprom, entryLength, selected, backupRaw, backupValid, backupLength, pending,
    storageResult, stale, baseline, storageStage,
    sequence, word, recording, message, messages, receiving, attempt, before, reading, copy,
    shown,
    safetyStage, safetyRequestSeq, safetyCompleteSeq, safetyResult, safetyOwed, lastSent,
    rxState, txState, safetyPublished, stateChanged, txPair,
    data, validLength, writeInProgress, transfer, dataOffset, dataLength, content, committed,
    authors, uploaded

rxVars == <<module, rxCanNormal, rxThread, rxRunning, rxStop, bound, rxSem, rxExitSem, fifo, rxOwed,
    mpc, after, rpc, left, full>>
layoutVars == <<size, storageOffset, configured, storageRegion, auxOffset, auxRegion, nextAddress, opened,
    taken>>
eepromVars == <<auto, ram, payload, signature, changed, offset, pc, written, stored>>
nmtVars == <<phase, step, resetObserved, elapsed, verdict, override, original, config, theirs, denied,
    nmtStage, nmtCanNormal, active, wasActive, hbState, nmtState, heartbeat, remote, frame,
    executed, meddled>>
sdoVars == <<sdoRequestSeq, request, lastConsumed, activeSeq, sdoCompleteSeq, sdoResult, latched,
    running, byteOffset, inFifo, atServer, announced, sdoPublished, sdoStage, generation,
    committedIn, startedIn>>
storageVars == <<eeprom, entryLength, selected, backupRaw, backupValid, backupLength, pending,
    storageResult, stale, baseline, storageStage>>
emcyVars == <<sequence, word, recording, message, messages, receiving, attempt, before, reading, copy,
    shown>>
safetyVars == <<safetyStage, safetyRequestSeq, safetyCompleteSeq, safetyResult, safetyOwed, lastSent,
    rxState, txState, safetyPublished, stateChanged, txPair>>
blockVars == <<data, validLength, writeInProgress, transfer, dataOffset, dataLength, content, committed,
    authors, uploaded>>

Rx     == INSTANCE RxPath WITH RxFirst <- TRUE, canNormal <- rxCanNormal, owed <- rxOwed
Layout == INSTANCE EepromLayout
Eeprom == INSTANCE EepromStorage
Nmt    == INSTANCE NmtMasterTest WITH stage <- nmtStage, canNormal <- nmtCanNormal
Sdo    == INSTANCE SdoClientTest WITH
    MaxSeq <- SdoMaxSeq,
    requestSeq <- sdoRequestSeq, completeSeq <- sdoCompleteSeq, result <- sdoResult,
    published <- sdoPublished, stage <- sdoStage
Store  == INSTANCE StorageTest WITH result <- storageResult, stage <- storageStage
Emcy   == INSTANCE EmcyDiagnostic
Safety == INSTANCE SafetyTests WITH
    MaxSeq <- SafetyMaxSeq,
    stage <- safetyStage, requestSeq <- safetyRequestSeq, completeSeq <- safetyCompleteSeq,
    result <- safetyResult, owed <- safetyOwed, published <- safetyPublished
Block  == INSTANCE SdoBlockTest

ASSUME ServicesAssumption ==
    /\ Rx!RxPathAssumption /\ Layout!EepromLayoutAssumption /\ Eeprom!EepromStorageAssumption
    /\ Nmt!NmtMasterTestAssumption /\ Sdo!SdoClientTestAssumption /\ Store!StorageTestAssumption
    /\ Emcy!EmcyDiagnosticAssumption /\ Safety!SafetyTestsAssumption /\ Block!SdoBlockTestAssumption

-----------------------------------------------------------------------------
Parts == {"rx", "layout", "eeprom", "nmt", "sdo", "storage", "emcy", "safety", "block"}

Init ==
    /\ part \in Parts
    /\ Rx!Init
    /\ Layout!Init /\ (part # "layout" => size = 0 /\ storageOffset = 0 /\ configured = 0)
    /\ Eeprom!Init /\ (part # "eeprom" => auto /\ ram = payload)
    /\ Nmt!Init /\ (part # "nmt" => remote = "preop")
    /\ Sdo!Init /\ (part # "sdo" => request = "upload")
    /\ Store!Init /\ (part # "storage" => entryLength = 0)
    /\ Emcy!Init /\ Safety!Init /\ Block!Init

(* An action of component p, which leaves the others alone.                *)
In(p, A) ==
    /\ part = p /\ A /\ UNCHANGED part
    /\ IF p = "rx" THEN TRUE ELSE UNCHANGED rxVars
    /\ IF p = "layout" THEN TRUE ELSE UNCHANGED layoutVars
    /\ IF p = "eeprom" THEN TRUE ELSE UNCHANGED eepromVars
    /\ IF p = "nmt" THEN TRUE ELSE UNCHANGED nmtVars
    /\ IF p = "sdo" THEN TRUE ELSE UNCHANGED sdoVars
    /\ IF p = "storage" THEN TRUE ELSE UNCHANGED storageVars
    /\ IF p = "emcy" THEN TRUE ELSE UNCHANGED emcyVars
    /\ IF p = "safety" THEN TRUE ELSE UNCHANGED safetyVars
    /\ IF p = "block" THEN TRUE ELSE UNCHANGED blockVars

Next ==
    \/ In("rx", Rx!Next)
    \/ In("layout", Layout!Next)
    \/ In("eeprom", Eeprom!Next)
    \/ In("nmt", Nmt!Next)
    \/ In("sdo", Sdo!Next)
    \/ In("storage", Store!Next)
    \/ In("emcy", Emcy!Next)
    \/ In("safety", Safety!Next)
    \/ In("block", Block!Next)

vars == <<part, rxVars, layoutVars, eepromVars, nmtVars, sdoVars, storageVars, emcyVars, safetyVars,
          blockVars>>

Spec == Init /\ [][Next]_vars
-----------------------------------------------------------------------------
(* The properties of the modules, under the names of this one.             *)

(* The receive thread never works for a closed module, the module is not   *)
(* detached under it, and no frame is left behind in the device.           *)
RxPathIsSafe == Rx!RxPathIsSafe

(* The receive path implements what the driver promises about co_rx.       *)
DrainSpec == Rx!DrainSpec

(* The EEPROM's areas are disjoint and inside the device, and what 16#1010 *)
(* has confirmed is there after the next start, a payload of zeros         *)
(* excepted.                                                               *)
StorageIsSafe == Layout!LayoutIsSound /\ Eeprom!StoreIsHonest

(* A demo program reports what happened: a test is passed only by a node   *)
(* that did as it was told, a back-up is the data it was taken of, a       *)
(* diagnostic shows one message, and nothing is done for a stack that is   *)
(* gone.                                                                   *)
TestsAreSound ==
    /\ Nmt!NmtTestIsSound
    /\ Store!BackupIsBaseline /\ Store!NothingIsReplayed
    /\ Emcy!ShownIsOneMessage
    /\ Safety!NothingStaleIsSent

(* An SDO client reads the result of its own request, SUCCESS only when no *)
(* byte is left behind, and an upload of the test object is one payload,   *)
(* unless two streams have written it at the same time.                    *)
TransfersAreWhole == Sdo!SdoTestIsSound /\ Block!UploadIsOnePayload

(* A restored back-up is the one that was taken, and a fresh stack starts  *)
(* with nothing of the old one's tests.                                    *)
TestsStartClean == Store!RestoreIsHonest /\ Safety!FreshSrdo
=============================================================================
