----------------------------- MODULE StorageTest -----------------------------
(***************************************************************************)
(* CO_demo_storage.c: requests to back up, damage and restore the raw      *)
(* bytes of the first storage entry on the EEPROM, while stores change     *)
(* them, accesses fail or are lost, and resets place the entries anew.     *)
(*                                                                         *)
(* The signature of an entry is a byte here, and its payload the bytes     *)
(* behind it.                                                              *)
(***************************************************************************)
EXTENDS Naturals

CONSTANTS
    Cells,       \* bound: bytes of the EEPROM, counted from 0
    MaxLength,   \* bytes that backupRaw holds
    NoBackup

StorageTestAssumption == Cells \in Nat \ {0} /\ MaxLength \in Nat

VARIABLES
    eeprom, entryLength,   \* the device; what CO_storage_RTT made of entry 2
    selected,              \* entry_sub_index selects that entry
    backupRaw, backupValid, backupLength,
    pending,               \* request_seq of 16#2305 differs from lastConsumedSeq
    result,
    stale,                 \* the request was committed to a stack that is gone
    baseline,              \* the bytes when the last back-up was acknowledged
    stage                  \* "pass" or "reset"

deviceVars == <<eeprom, entryLength, selected>>
backupVars == <<backupRaw, backupValid, backupLength, baseline>>
requestVars == <<pending, stale>>
vars == <<deviceVars, backupVars, requestVars, result, stage>>

Addresses == 0 .. Cells - 1
Area(length) == 0 .. length - 1

(* CO_demo_storage_init() and ..._on_backend_init() *)
Init ==
    /\ eeprom \in [Addresses -> {0}] /\ entryLength \in 0 .. Cells /\ selected = TRUE
    /\ backupRaw = [a \in Addresses |-> 0] /\ backupValid = FALSE /\ backupLength = 0
    /\ pending = FALSE /\ stale = FALSE /\ result = "NONE"
    /\ baseline = NoBackup
    /\ stage = "pass"

(* A client commits a request, with a command that its processing chooses  *)
(* here, and awaits its end; it may also select some other entry, or none. *)
Commit ==
    /\ stage = "pass" /\ ~pending
    /\ pending' = TRUE /\ stale' = FALSE
    /\ selected' \in BOOLEAN
    /\ UNCHANGED <<eeprom, entryLength, backupVars, result, stage>>

(* 16#1010, or automatic saving of another entry, writes the EEPROM.       *)
OtherWrite ==
    /\ stage = "pass"
    /\ \E a \in Addresses : eeprom' = [eeprom EXCEPT ![a] = 1 - @]
    /\ UNCHANGED <<entryLength, selected, backupVars, requestVars, result, stage>>

-----------------------------------------------------------------------------
(* A pass that finds a new request carries it out at once                  *)
(* (CO_demo_storage_process()).                                            *)

Answer(outcome) ==
    /\ stage = "pass" /\ pending
    /\ pending' = FALSE /\ result' = outcome
    /\ UNCHANGED <<stale, entryLength, selected, stage>>

Untouched == UNCHANGED <<eeprom, backupVars>>

(* CO_demo_storage_refresh_layout(): the first step of every command but   *)
(* CLEAR; it fails for another entry, an entry that does not fit, or when  *)
(* the signature cannot be read.  Commands check their ranges besides.     *)
LayoutSound == selected /\ entryLength \in 1 .. MaxLength

Refused ==
    /\ Answer("ERROR") /\ Untouched

Refresh ==
    /\ LayoutSound
    /\ Answer("SUCCESS") /\ Untouched

(* CO_demo_storage_backup(): a read that fails may leave some bytes of the *)
(* buffer overwritten.  The second form leaves the old back-up valid.      *)
StillValid == backupValid
Invalid    == FALSE

Backup ==
    /\ LayoutSound
    /\ \/ /\ backupRaw' = [a \in Addresses |-> IF a \in Area(entryLength) THEN eeprom[a]
                                                                          ELSE backupRaw[a]]
          /\ backupValid' = TRUE /\ backupLength' = entryLength
          /\ baseline' = [a \in Area(entryLength) |-> eeprom[a]]
          /\ Answer("SUCCESS")
       \/ /\ backupRaw' \in {backupRaw, [backupRaw EXCEPT ![0] = eeprom[0]]}
          /\ backupValid' = Invalid
          /\ UNCHANGED <<backupLength, baseline>>
          /\ Answer("ERROR")
    /\ UNCHANGED eeprom

Usable == backupValid /\ backupLength = entryLength

(* CO_demo_storage_restore(): the write may fail half-way or be lost; what *)
(* was written is read back and compared.                                  *)
NotVerified == TRUE
Verified    == \A a \in Area(backupLength) : eeprom'[a] = backupRaw[a]

Written(length) ==
    \E lost \in SUBSET Area(length) :
        eeprom' = [a \in Addresses |->
                     IF a \in Area(length) \ lost THEN backupRaw[a] ELSE eeprom[a]]

Restore ==
    /\ LayoutSound
    /\ \/ /\ ~Usable /\ Answer("ERROR") /\ UNCHANGED eeprom
       \/ /\ Usable /\ Written(backupLength)
          /\ Answer("ERROR") \/ (Verified /\ Answer("SUCCESS"))
    /\ UNCHANGED backupVars

(* CO_demo_storage_corrupt_signature(), ..._corrupt_data() and             *)
(* ..._raw_write(): one to four bytes of the area are changed, and the     *)
(* write is read back.  ..._raw_read() changes nothing.                    *)
Change ==
    /\ LayoutSound
    /\ \E a \in Area(entryLength) :
        \/ eeprom' = [eeprom EXCEPT ![a] = 1 - @] /\ Answer("SUCCESS")
        \/ eeprom' \in {eeprom, [eeprom EXCEPT ![a] = 1 - @]} /\ Answer("ERROR")
    /\ UNCHANGED backupVars

Clear ==
    /\ Answer("SUCCESS")
    /\ backupValid' = FALSE /\ backupLength' = 0
    /\ UNCHANGED <<eeprom, backupRaw, baseline>>

Process == Refused \/ Refresh \/ Backup \/ Restore \/ Change \/ Clear

-----------------------------------------------------------------------------
(* A communication reset: CO_demo_storage_reset() consumes a request of    *)
(* the old stack, and ..._on_backend_init() looks at the entries of the    *)
(* new one.  The back-up survives both.                                    *)
Replayed == pending
Consumed == FALSE

Reset ==
    /\ stage = "pass" /\ stage' = "reset"
    /\ pending' = Consumed
    /\ UNCHANGED <<deviceVars, backupVars, stale, result>>

OnBackendInit ==
    /\ stage = "reset" /\ stage' = "pass"
    /\ entryLength' \in 0 .. Cells /\ stale' = TRUE
    /\ UNCHANGED <<eeprom, selected, backupVars, pending, result>>

Next == Commit \/ OtherWrite \/ Process \/ Reset \/ OnBackendInit

Spec == Init /\ [][Next]_vars
-----------------------------------------------------------------------------
(* A back-up that a restore would use is what the EEPROM held when the     *)
(* client was told of its success, though later attempts have failed and   *)
(* the entries have been placed anew.                                      *)
BackupIsBaseline ==
    backupValid => baseline = [a \in Area(backupLength) |-> backupRaw[a]]

(* A restore that reports success has brought the bytes of that back-up    *)
(* back, lost writes or not, and none of them lies outside the entry.      *)
RestoreIsHonest ==
    [][ Restore =>
          /\ result' = "SUCCESS" => [a \in Area(entryLength) |-> eeprom'[a]] = baseline
          /\ \A a \in Addresses \ Area(entryLength) : eeprom'[a] = eeprom[a] ]_vars

(* Nothing a client committed to the old stack is done to the new one's    *)
(* entries.                                                                *)
NothingIsReplayed == stage = "pass" /\ pending => ~stale
=============================================================================
