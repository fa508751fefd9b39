----------------------------- MODULE Persistence -----------------------------
(***************************************************************************)
(* What survives a power cycle: the LSS record of CO_lss_persist_RTT.c and *)
(* the Object Dictionary files of CO_storage_RTT_dfs.c, stored by co_main  *)
(* at a master's request and loaded by co_app_rtt_reset_communication().   *)
(*                                                                         *)
(* One action per access to the medium.  Power may be lost between any two,*)
(* and a write may fail, be torn, or be lost although it reports success;  *)
(* a read fails or returns what is there.                                  *)
(***************************************************************************)
EXTENDS Naturals

CONSTANTS
    Nodes, Rates,         \* node-IDs and bitrates LSS may configure
    NoNode,               \* 0xFF: LSS has yet to assign a node-ID
    StartNode, StartRate, \* arguments of canopen_app_rtt_init()
    Refused,              \* bitrates CO_CANinit() fails with
    EntryCount,           \* number of storage entries
    Values, Default,      \* contents of an entry, and its generated default
    Torn, Missing, None

Configs == [node : Nodes, rate : Rates]

ASSUME PersistenceAssumption ==
    /\ NoNode \in Nodes /\ StartNode \in Nodes /\ StartRate \in Rates
    /\ Default \in Values /\ {Torn, Missing, None} \cap (Values \cup Configs) = {}
    /\ Torn # Missing
    /\ EntryCount \in Nat

Startup == [node |-> StartNode, rate |-> StartRate]
Inactive == [node |-> None, rate |-> StartRate]
Entry   == 1 .. EntryCount

VARIABLES
    body,        \* record up to its commit field: a Config, Torn, or None if blank
    commit,      \* the commit field holds its marker
    file,        \* entry -> Missing, Torn, or the value of a valid file
    ram,         \* entry -> value in the Object Dictionary
    pending,     \* lssPendingNodeID and lssPendingBitrate
    active,      \* activeNodeID and baudrate
    pc, turn,    \* co_main: control point, entry being read or stored
    first,       \* loadPersistentLss: this is the start, not a reset
    loaded,      \* persistentLssLoaded
    corrupt,     \* storageDataCorrupt
    nvm,         \* CO_EM_NON_VOLATILE_MEMORY is reported
    asked,       \* the configuration a Store service is writing, or None
    acked,       \* history: stored with success, and no store begun since
    expected     \* history: the same for each entry

recordVars == <<body, commit, asked, acked>>
fileVars   == <<file, expected>>
lssVars    == <<pending, active>>
initVars   == <<first, loaded, corrupt, nvm>>
vars == <<recordVars, fileVars, ram, lssVars, pc, turn, initVars>>

Init ==
    /\ body = None /\ commit = FALSE /\ asked = None /\ acked = None
    /\ file = [e \in Entry |-> Missing] /\ expected = [e \in Entry |-> None]
    /\ ram = [e \in Entry |-> Default]
    /\ pending = Startup /\ active = Inactive
    /\ pc = "off" /\ turn = 0
    /\ first = TRUE /\ loaded = FALSE /\ corrupt = FALSE /\ nvm = FALSE

Goto(p) == pc' = p /\ UNCHANGED turn

(* co_lss_persist_record_decode() *)
Decoded == IF commit /\ body \in Configs THEN body ELSE None

-----------------------------------------------------------------------------
(* Start and communication reset *)

(* Power returns: RAM holds the generated defaults. *)
PowerOn ==
    /\ pc = "off" /\ Goto("aux")
    /\ ram' = [e \in Entry |-> Default]
    /\ pending' = Startup /\ active' = Inactive
    /\ first' = TRUE /\ loaded' = FALSE /\ corrupt' = FALSE /\ nvm' = FALSE
    /\ UNCHANGED <<recordVars, fileVars>>

PowerOff ==
    /\ pc # "off" /\ Goto("off")
    /\ asked' = None
    /\ UNCHANGED <<body, commit, acked, fileVars, ram, lssVars, initVars>>

(* A failed start can be repeated; RAM is what it was. *)
InitAgain ==
    /\ pc = "failed" /\ first /\ Goto("aux")
    /\ pending' = Startup /\ active' = Inactive /\ loaded' = FALSE
    /\ UNCHANGED <<recordVars, fileVars, ram, first, corrupt, nvm>>

(* co_app_rtt_storage_prepare(): the auxiliary area may be unavailable. *)
AuxInit ==
    /\ pc = "aux"
    /\ Goto("load") \/ Goto("can") \/ Goto("failed")
    /\ UNCHANGED <<recordVars, fileVars, ram, lssVars, initVars>>

(* co_lss_persist_rtt_load(): pending values change for a valid record. *)
Load ==
    /\ pc = "load" /\ Goto("can")
    /\ \/ Decoded # None /\ pending' = Decoded /\ loaded' = TRUE
       \/ UNCHANGED <<pending, loaded>>
    /\ UNCHANGED <<recordVars, fileVars, ram, active, first, corrupt, nvm>>

(* CO_CANinit(), with the startup values if it refuses a loaded bitrate *)
BothValues(c)  == Startup
RateOnly(c)    == [c EXCEPT !.rate = StartRate]
FallbackTo(c)  == BothValues(c)

CanInit ==
    /\ pc = "can"
    /\ \/ /\ pending.rate \notin Refused
          /\ Goto("od") /\ active' = pending /\ UNCHANGED <<pending, loaded>>
       \/ /\ pending.rate \in Refused /\ loaded /\ pending.rate # StartRate
          /\ pending' = FallbackTo(pending) /\ loaded' = FALSE
          /\ Goto("can") /\ UNCHANGED active
       \/ /\ pending.rate \in Refused /\ ~(loaded /\ pending.rate # StartRate)
          /\ Goto("failed") /\ UNCHANGED <<lssVars, loaded>>
    /\ UNCHANGED <<recordVars, fileVars, ram, first, corrupt, nvm>>

(* co_storage_rtt_dfs_init() registers the entries and reads them in turn. *)
OdInit ==
    /\ pc = "od"
    /\ \/ pc' = "read" /\ turn' = 1
       \/ Goto("failed")
    /\ corrupt' = FALSE
    /\ UNCHANGED <<recordVars, fileVars, ram, lssVars, first, loaded, nvm>>

(* A file that is not valid, or that cannot be read through, leaves RAM    *)
(* alone and is remembered.  Any other error, even one after the data was  *)
(* copied, ends the reading.                                               *)
Reported(bad) == bad
Forgotten(bad) == FALSE
HardError(bad) == Reported(bad)

OdRead ==
    /\ pc = "read" /\ turn \in Entry
    /\ \/ /\ file[turn] \in Values
          /\ ram' = [ram EXCEPT ![turn] = file[turn]]
          /\ turn' = turn + 1 /\ UNCHANGED <<pc, corrupt>>
       \/ /\ file[turn] = Missing
          /\ turn' = turn + 1 /\ UNCHANGED <<pc, corrupt, ram>>
       \/ /\ file[turn] # Missing
          /\ corrupt' = TRUE
          /\ turn' = turn + 1 /\ UNCHANGED <<pc, ram>>
       \/ /\ ram' \in {ram} \cup {[ram EXCEPT ![turn] = v] : v \in {file[turn]} \cap Values}
          /\ corrupt' = HardError(TRUE)
          /\ Goto("canopen")
    /\ UNCHANGED <<recordVars, fileVars, lssVars, first, loaded, nvm>>

OdReadAll ==
    /\ pc = "read" /\ turn > EntryCount
    /\ pc' = "canopen" /\ turn' = 0
    /\ UNCHANGED <<recordVars, fileVars, ram, lssVars, initVars>>

(* CO_CANopenInit() and the rest; an unconfigured node has no EMCY. *)
CanopenInit ==
    /\ pc = "canopen"
    /\ \/ pc' = "run" /\ nvm' = (corrupt /\ active.node # NoNode)
       \/ pc' = "failed" /\ UNCHANGED nvm
    /\ turn' = 0
    /\ UNCHANGED <<recordVars, fileVars, ram, lssVars, first, loaded, corrupt>>

(* A reset keeps the pending values and reads the files again. *)
ResetCommunication ==
    /\ pc = "run" /\ Goto("can")
    /\ first' = FALSE /\ loaded' = FALSE
    /\ UNCHANGED <<recordVars, fileVars, ram, lssVars, corrupt, nvm>>

-----------------------------------------------------------------------------
(* LSS services *)

Configure ==
    /\ pc = "run" /\ Goto("run")
    /\ \/ \E n \in Nodes : pending' = [pending EXCEPT !.node = n]
       \/ \E r \in Rates : pending' = [pending EXCEPT !.rate = r]
    /\ UNCHANGED <<recordVars, fileVars, ram, active, initVars>>

(* co_lss_persist_rtt_store(), one access per step *)
Ends == Goto("run") /\ asked' = None /\ UNCHANGED acked

WriteCommit(mark) == commit' \in {commit, mark, FALSE} /\ UNCHANGED body

Store ==
    /\ pc = "run" /\ Goto("invalidate")
    /\ asked' = pending /\ acked' = None
    /\ UNCHANGED <<body, commit, fileVars, ram, lssVars, initVars>>

Invalidate ==
    /\ pc = "invalidate" /\ WriteCommit(FALSE)
    /\ \/ Goto("body") /\ UNCHANGED <<asked, acked>>
       \/ Ends
    /\ UNCHANGED <<fileVars, ram, lssVars, initVars>>

WriteBody ==
    /\ pc = "body"
    /\ body' \in {body, asked, Torn} /\ UNCHANGED commit
    /\ \/ Goto("verify") /\ UNCHANGED <<asked, acked>>
       \/ Ends
    /\ UNCHANGED <<fileVars, ram, lssVars, initVars>>

VerifyBody ==
    /\ pc = "verify"
    /\ \/ body = asked /\ Goto("commit") /\ UNCHANGED <<asked, acked>>
       \/ Ends
    /\ UNCHANGED <<body, commit, fileVars, ram, lssVars, initVars>>

Commit ==
    /\ pc = "commit" /\ WriteCommit(TRUE)
    /\ Goto("check") \/ Goto("revoke")
    /\ UNCHANGED <<asked, acked, fileVars, ram, lssVars, initVars>>

ReadBack   == Decoded = asked
BodyOnly   == body = asked
Verified   == ReadBack

(* The whole record is read back before success is reported. *)
Check ==
    /\ pc = "check"
    /\ \/ Verified /\ Goto("run") /\ acked' = asked /\ asked' = None
       \/ Goto("revoke") /\ UNCHANGED <<asked, acked>>
    /\ UNCHANGED <<body, commit, fileVars, ram, lssVars, initVars>>

Revoke ==
    /\ pc = "revoke" /\ WriteCommit(FALSE) /\ Ends
    /\ UNCHANGED <<fileVars, ram, lssVars, initVars>>

-----------------------------------------------------------------------------
(* Object Dictionary files.  Nobody writes an entry while it is stored.    *)

OdWrite(e, v) ==
    /\ pc = "run" /\ ram' = [ram EXCEPT ![e] = v]
    /\ UNCHANGED <<recordVars, fileVars, lssVars, pc, turn, initVars>>

(* co_storage_rtt_dfs_store(): opening the file empties it. *)
OdStore(e) ==
    /\ pc = "run" /\ pc' = "odStore" /\ turn' = e
    /\ expected' = [expected EXCEPT ![e] = None]
    /\ file' \in {file, [file EXCEPT ![e] = Torn]}
    /\ UNCHANGED <<recordVars, ram, lssVars, initVars>>

(* Header, payload, flush and close.  Success is reported after the flush. *)
OdStored ==
    /\ pc = "odStore" /\ pc' = "run" /\ turn' = 0
    /\ \/ /\ file' = [file EXCEPT ![turn] = ram[turn]]
          /\ expected' = [expected EXCEPT ![turn] = ram[turn]]
       \/ \E f \in {file[turn], Torn, ram[turn]} :
              file' = [file EXCEPT ![turn] = f] /\ UNCHANGED expected
    /\ UNCHANGED <<recordVars, ram, lssVars, initVars>>

(* co_storage_rtt_dfs_restore() removes the file, and leaves RAM alone. *)
OdRestore(e) ==
    /\ pc = "run" /\ Goto("run")
    /\ file' \in {file, [file EXCEPT ![e] = Missing]}
    /\ expected' = [expected EXCEPT ![e] = None]
    /\ UNCHANGED <<recordVars, ram, lssVars, initVars>>

Next ==
    \/ PowerOn \/ PowerOff \/ InitAgain
    \/ AuxInit \/ Load \/ CanInit \/ OdInit \/ OdRead \/ OdReadAll \/ CanopenInit
    \/ ResetCommunication \/ Configure
    \/ Store \/ Invalidate \/ WriteBody \/ VerifyBody \/ Commit \/ Check \/ Revoke
    \/ \E e \in Entry : OdStore(e) \/ OdRestore(e) \/ \E v \in Values : OdWrite(e, v)
    \/ OdStored

Spec == Init /\ [][Next]_vars

-----------------------------------------------------------------------------
(* The record implements the register: wherever power is lost and whatever *)
(* writes do, a start reads a whole configuration that was stored, or      *)
(* none, and a store that reported success is what it reads.               *)
Register == INSTANCE ConfigRegister WITH value <- Decoded
RegisterSpec == Register!Spec

(* A start uses the startup configuration or the recorded one, never a     *)
(* node-ID from the one with a bitrate from the other, and a recorded      *)
(* bitrate the controller refuses does not keep the node from starting.    *)
StartsWithWholeConfig ==
    [][pc = "can" /\ first =>
           /\ pc' = "od" => active' \in {Startup, Decoded}
           /\ pc' = "failed" => StartRate \in Refused]_vars

(* Parameters are not lost silently: when a configured node runs again, it *)
(* has reported a storage error, or no file is torn and every entry whose  *)
(* store succeeded holds what was stored.                                  *)
NoSilentLoss ==
    [][pc = "canopen" /\ pc' = "run" /\ active.node # NoNode =>
           \/ nvm'
           \/ \A e \in Entry : /\ file[e] # Torn
                               /\ expected[e] # None => ram[e] = expected[e]]_vars

(* What a start takes from the medium it takes whole, or it says what it   *)
(* lacks.                                                                  *)
StartIsHonest == StartsWithWholeConfig /\ NoSilentLoss

=============================================================================
