--------------------------- MODULE EepromStorage ---------------------------
(***************************************************************************)
(* One storage entry on an EEPROM: its payload and, at another address,    *)
(* its signature (length and CRC).  The entry is stored by a write to      *)
(* 16#1010, or saved on its own while the master and the program change    *)
(* it.  Reads fail; writes fail before or after they took effect, or are   *)
(* lost although they succeeded; power is lost at any time.                *)
(*                                                                         *)
(* A CRC is as good as the payload it was made from, with one exception    *)
(* the code makes: the CRC of a block that cannot be read is 0, which is   *)
(* the CRC of a payload of zeros.  CO_storageEeprom.c of CANopenNode,      *)
(* which reads the entries at start-up, is external.                       *)
(***************************************************************************)
EXTENDS Naturals

CONSTANTS
    Values,    \* of a byte
    Zero, FF,  \* what an unread byte looks like is FF
    Length     \* bytes of the entry

EepromStorageAssumption == {Zero, FF} \subseteq Values /\ Zero # FF /\ Length \in Nat \ {0}

VARIABLES
    auto,        \* the entry has CO_storage_auto
    ram,         \* entry->addr
    payload,
    signature,    \* on the EEPROM: {the payload it fits}, {} when erased or torn
    changed,     \* entry->eepromPayloadChanged
    offset,      \* entry->offset
    pc,          \* "idle", "payload", "signature", "readBack", "saveAll", "sign"
    written,     \* bytes the store or saveAll is past
    stored       \* {what the last store reported}, {} when stored or restored again

Indices  == 0 .. Length - 1
Payloads == [Indices -> Values]
Zeros    == [i \in Indices |-> Zero]
Erased   == {}
Torn     == {}
Nothing  == {}

entryVars == <<ram, changed, offset>>
vars == <<auto, entryVars, payload, signature, pc, written, stored>>

Init ==
    /\ auto \in BOOLEAN
    /\ payload = [i \in Indices |-> FF] /\ signature = Erased
    /\ ram \in Payloads /\ changed = FALSE /\ offset = 0
    /\ pc = "idle" /\ written = 0 /\ stored = Nothing

(* The program, SDO and PDO write the entry; 16#1010 is served under the   *)
(* OD lock, automatic saving is not.                                       *)
ChangeRam ==
    /\ auto \/ pc = "idle"
    /\ \E i \in Indices, v \in Values : ram' = [ram EXCEPT ![i] = v]
    /\ UNCHANGED <<auto, payload, signature, changed, offset, pc, written, stored>>

(* CO_eeprom_writeBlock(): what may have become of the bytes, with what it *)
(* says of it                                                              *)
WriteByte(i, v) ==
    \/ payload' = [payload EXCEPT ![i] = v]
    \/ UNCHANGED payload          \* a failure, or a success that was lost

WriteSignature(s, ok) ==
    \/ signature' = s
    \/ signature' = signature
    \/ ~ok /\ signature' = Torn

-----------------------------------------------------------------------------
(* co_storage_rtt_eeprom_store()                                           *)

Store ==
    /\ ~auto /\ pc = "idle"
    /\ pc' = "payload" /\ written' = 0 /\ stored' = Nothing
    /\ UNCHANGED <<auto, entryVars, payload, signature>>

StorePayload ==
    /\ pc = "payload" /\ written < Length
    /\ \E ok \in BOOLEAN :
        /\ WriteByte(written, ram[written])
        /\ IF ok THEN written' = written + 1 /\ UNCHANGED pc
                 ELSE pc' = "idle" /\ UNCHANGED written
    /\ UNCHANGED <<auto, entryVars, signature, stored>>

(* CO_eeprom_getCrcBlock(): a payload with that CRC.  An unreadable block  *)
(* has the CRC of zeros.                                                   *)
CrcRead == {payload, Zeros}

(* co_storage_rtt_eeprom_update_signature(): the CRC is made from RAM and  *)
(* compared with the one read, which may be that of a failure.             *)
NotCompared(seen) == TRUE
CrcMatches(seen)  == seen = ram

StoreSignature ==
    /\ pc = "payload" /\ written = Length
    /\ \E seen \in CrcRead, ok \in BOOLEAN :
        IF CrcMatches(seen)
        THEN WriteSignature({ram}, ok) /\ pc' = IF ok THEN "readBack" ELSE "idle"
        ELSE pc' = "idle" /\ UNCHANGED signature
    /\ UNCHANGED <<auto, entryVars, payload, written, stored>>

StoreReadBack ==
    /\ pc = "readBack" /\ pc' = "idle"
    /\ \/ signature = {ram} /\ stored' = {ram}
       \/ UNCHANGED stored
    /\ UNCHANGED <<auto, entryVars, payload, signature, written>>

(* co_storage_rtt_eeprom_restore() *)
Restore ==
    /\ pc = "idle"
    /\ \E ok \in BOOLEAN : WriteSignature(Erased, ok)
    /\ stored' = Nothing
    /\ UNCHANGED <<auto, entryVars, payload, pc, written>>

-----------------------------------------------------------------------------
(* co_storage_rtt_eeprom_auto_process()                                    *)

(* CO_eeprom_readBlock() answers nothing: a byte it cannot read looks erased. *)
Seen(i) == {payload[i], FF}

(* co_storage_rtt_eeprom_update_payload_byte(): the byte is read to find   *)
(* out whether it differs, and read again and written if it does.          *)
UpdateByte(i, ok) ==
    \E seen \in Seen(i) :
        /\ IF payload[i] = ram[i] THEN UNCHANGED payload ELSE WriteByte(i, ram[i])
        /\ changed' = (changed \/ (ok /\ seen # ram[i]))

(* The first failed read of the update leaves the byte alone.              *)
UpdateUnread == UNCHANGED <<payload, changed>>

Stuck   == offset
Onwards == (offset + 1) % Length

AutoProcess ==
    /\ auto /\ pc = "idle"
    /\ \/ /\ UpdateByte(offset, TRUE)
          /\ offset' = Onwards
          /\ pc' = IF offset' = 0 /\ changed' THEN "sign" ELSE "idle"
       \/ UpdateByte(offset, FALSE) /\ UNCHANGED <<offset, pc>>
       \/ UpdateUnread /\ UNCHANGED <<offset, pc>>
    /\ UNCHANGED <<auto, ram, signature, written, stored>>

SaveAll ==
    /\ auto /\ pc = "idle"
    /\ pc' = "saveAll" /\ written' = 0
    /\ UNCHANGED <<auto, entryVars, payload, signature, stored>>

SaveAllByte ==
    /\ pc = "saveAll" /\ written < Length
    /\ \/ UpdateByte(written, TRUE) /\ written' = written + 1 /\ UNCHANGED pc
       \/ (UpdateByte(written, FALSE) \/ UpdateUnread) /\ pc' = "idle" /\ UNCHANGED written
    /\ UNCHANGED <<auto, ram, offset, signature, stored>>

SaveAllDone ==
    /\ pc = "saveAll" /\ written = Length
    /\ pc' = IF changed THEN "sign" ELSE "idle"
    /\ UNCHANGED <<auto, entryVars, payload, signature, written, stored>>

(* The signature of an automatic entry.  RAM may have moved on since: then *)
(* the CRCs differ and the next round signs.                               *)
Sign ==
    /\ pc = "sign" /\ pc' = "idle"
    /\ \E seen \in CrcRead, ok \in BOOLEAN, readable \in BOOLEAN :
        IF CrcMatches(seen)
        THEN /\ WriteSignature({ram}, ok)
             /\ changed' = ~(ok /\ readable /\ signature' = {ram})
        ELSE UNCHANGED <<signature, changed>>
    /\ UNCHANGED <<auto, ram, offset, payload, written, stored>>

-----------------------------------------------------------------------------
(* Power is lost, in the middle of a write perhaps, and comes back: the    *)
(* entry is read (co_storage_rtt_eeprom_init()); one that cannot be read   *)
(* or does not fit its signature is reported as corrupt, and RAM may hold  *)
(* anything.                                                               *)
PowerCycle ==
    /\ \/ UNCHANGED signature
       \/ /\ pc = "sign" \/ (pc = "payload" /\ written = Length)
          /\ (\E seen \in CrcRead : CrcMatches(seen)) /\ WriteSignature({ram}, FALSE)
    /\ ram' \in Payloads
    /\ changed' = FALSE /\ offset' = 0 /\ pc' = "idle" /\ written' = 0
    /\ stored' = IF pc = "idle" THEN stored ELSE Nothing
    /\ UNCHANGED <<auto, payload>>

Operations == Store \/ StorePayload \/ StoreSignature \/ StoreReadBack \/ Restore
              \/ AutoProcess \/ SaveAll \/ SaveAllByte \/ SaveAllDone \/ Sign

Next == ChangeRam \/ Operations \/ PowerCycle

(* Automatic saving goes on, and the EEPROM takes each byte now and then.  *)
GoodUpdate(i) ==
    /\ offset = i /\ AutoProcess /\ offset' = Onwards
    /\ payload'[i] = ram[i]

FairSpec ==
    /\ Init /\ [][Next]_vars
    /\ \A i \in Indices : SF_vars(GoodUpdate(i))
    /\ WF_vars(SaveAllByte \/ SaveAllDone \/ Sign)
-----------------------------------------------------------------------------
(* What a store has reported as stored (SDO download to 16#1010 confirmed) *)
(* has its signature on the EEPROM until the entry is stored or restored   *)
(* again, and the payload is there, so that a start finds it.  A payload   *)
(* of zeros may be missing: its write was lost, and the block could not be *)
(* read when its CRC was compared.                                         *)
StoreIsHonest ==
    ~auto /\ stored # Nothing => signature = stored /\ (stored # {Zeros} => {payload} = stored)

(* A value that stays long enough in an automatic entry is saved, whatever *)
(* fails now and then, and whichever way it is saved.                      *)
AutoSaves == <>[][FALSE]_ram => (auto => []<>(payload = ram))
=============================================================================
