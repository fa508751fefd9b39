---------------------------- MODULE EepromLayout ----------------------------
(***************************************************************************)
(* Who owns which bytes of an AT24CXX EEPROM: the area of the storage      *)
(* entries with their signatures and, behind it, the page of the LSS       *)
(* record.  CO_storage_RTT_at24c.c takes any numbers from Kconfig.         *)
(***************************************************************************)
EXTENDS Naturals

CONSTANTS
    MaxSize,   \* bound: bytes of the device, and numbers in Kconfig
    Page       \* AT24CXX_PAGE_BYTE

EepromLayoutAssumption == MaxSize \in Nat /\ Page \in Nat \ {0}

VARIABLES
    size, storageOffset, configured,       \* the device and PKG_CANOPENNODE_STORAGE_AT24C_...
    storageRegion, auxOffset, auxRegion,   \* the areas
    nextAddress,
    opened,
    taken                                  \* ranges given to entries: <<address, length>>

configVars == <<size, storageOffset, configured>>
areaVars   == <<storageRegion, auxOffset, auxRegion>>
vars       == <<configVars, areaVars, nextAddress, opened, taken>>

Init ==
    /\ size \in 0 .. MaxSize /\ storageOffset \in 0 .. MaxSize /\ configured \in 0 .. MaxSize
    /\ storageRegion = 0 /\ auxOffset = 0 /\ auxRegion = 0
    /\ nextAddress = 0 /\ opened = FALSE /\ taken = {}

(* co_storage_rtt_eeprom_module_get(), at start-up and at every            *)
(* communication reset: the areas are computed, and all entries are to be  *)
(* placed again.                                                           *)
Reserved(region) == region - Page

ModuleGet ==
    LET region == IF configured = 0 /\ storageOffset < size THEN size - storageOffset ELSE configured
    IN /\ IF region > Page
          THEN /\ auxRegion' = Page
               /\ storageRegion' = Reserved(region)
               /\ auxOffset' = storageOffset + region - Page
          ELSE /\ auxRegion' = 0 /\ storageRegion' = region /\ auxOffset' = 0
       /\ nextAddress' = storageOffset /\ taken' = {}
       /\ UNCHANGED <<configVars, opened>>

(* co_storage_rtt_at24c_device_init(), with at24cxx_init() that may fail   *)
Sound ==
    /\ size # 0 /\ storageOffset < size
    /\ storageRegion # 0 /\ storageRegion <= size - storageOffset
    /\ auxRegion = Page
    /\ auxOffset = storageOffset + storageRegion
    /\ auxRegion <= size - auxOffset

DeviceInit ==
    /\ Sound
    /\ opened' = TRUE
    /\ UNCHANGED <<configVars, areaVars, nextAddress, taken>>

(* CO_eeprom_getAddr() *)
RegionEnd == storageOffset + storageRegion
FitsBefore(length) == opened /\ length # 0 /\ nextAddress < RegionEnd
Fits(length) ==
    /\ opened /\ length # 0
    /\ nextAddress >= storageOffset /\ nextAddress < RegionEnd
    /\ length <= RegionEnd - nextAddress

GetAddr(length) ==
    /\ Fits(length)
    /\ taken' = taken \cup {<<nextAddress, length>>}
    /\ nextAddress' = nextAddress + length
    /\ UNCHANGED <<configVars, areaVars, opened>>

Next == ModuleGet \/ DeviceInit \/ \E length \in 1 .. MaxSize : GetAddr(length)

Spec == Init /\ [][Next]_vars

(* co_storage_rtt_at24c_range_valid() and ..._aux_range_valid(): the       *)
(* accesses that reach the device                                          *)
DeviceRangeValid(address, length) ==
    opened /\ size # 0 /\ length # 0 /\ address < size /\ length <= size - address

RangeValid(address, length) ==
    /\ DeviceRangeValid(address, length)
    /\ storageOffset < size /\ storageRegion # 0 /\ storageRegion <= size - storageOffset
    /\ address >= storageOffset /\ address < RegionEnd
    /\ length <= RegionEnd - address

AuxRangeValid(start, length) ==
    /\ auxRegion # 0 /\ length # 0 /\ start < auxRegion /\ length <= auxRegion - start
    /\ DeviceRangeValid(auxOffset + start, length)
-----------------------------------------------------------------------------
Bytes(address, length) == address .. address + length - 1

(* No access the driver lets through leaves the device or the area it is   *)
(* meant for, and the two areas share no byte, whatever Kconfig says and   *)
(* whichever step of the set-up has failed.                                *)
AccessIsConfined ==
    LET Lengths == 0 .. MaxSize
        storage == UNION { Bytes(p[1], p[2]) : p \in { r \in Lengths \X Lengths : RangeValid(r[1], r[2]) } }
        aux == UNION { Bytes(auxOffset + p[1], p[2]) :
                         p \in { r \in Lengths \X Lengths : AuxRangeValid(r[1], r[2]) } }
    IN storage \cap aux = {} /\ storage \cup aux \subseteq storageOffset .. size - 1

(* Entries share no byte with one another, and every one can be accessed.  *)
EntriesAreApart ==
    \A r \in taken :
        /\ RangeValid(r[1], r[2])
        /\ \A other \in taken \ {r} : Bytes(r[1], r[2]) \cap Bytes(other[1], other[2]) = {}

LayoutIsSound == AccessIsConfined /\ EntriesAreApart
=============================================================================
