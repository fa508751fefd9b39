--------------------------- MODULE ProfileBinding ---------------------------
(***************************************************************************)
(* How the profile adapters of one node take hold of the object dictionary *)
(* in each communication generation: the mixed-profile validator           *)
(* (CO_profile_registry.c, CO_profile_mixed_RTT.c), the CiA 401 device     *)
(* (CO_401_device_od.c) and the CiA 402 axes (CO_402_device_od.c).  The    *)
(* lifecycle (CO_lifecycle_RTT.c) calls the bind callbacks in registration *)
(* order, unwinds the bound ones in reverse when one fails, and quiesces   *)
(* all of them in reverse before a communication reset.                    *)
(* The dictionary is generated; it may break its contract in one place,    *)
(* and another subsystem may own, or take over, the extension of an entry. *)
(***************************************************************************)
EXTENDS Naturals, Sequences, FiniteSets

CONSTANTS
    Products,   \* the product configurations: records with the fields
                \*   mixed        the node also runs the validator and drives
                \*   slot, caps   logical device and process images of CiA 401
                \*   hooks        the product functions it supplies
                \*   axes         sequence of drives (name, slot, interface)
                \*   descriptors  sequence of slots and profile numbers
    MaxForeign  \* bound: entries another subsystem extends at a time

(* A product has the process images and the profile modes there are; the   *)
(* descriptors of a mixed node are of these two profiles; and a drive is   *)
(* told from the other owners of an extension.                             *)
BindingAssumption ==
    \A p \in Products :
        /\ p.mixed \in BOOLEAN
        /\ p.caps \subseteq {"DI", "DO", "AI", "AO"}
        /\ \A i \in DOMAIN p.descriptors : p.descriptors[i].profile \in {"401", "402"}
        /\ \A i \in DOMAIN p.axes : /\ i \in Nat /\ p.axes[i].name \notin {"none", "foreign", "io"}
                                    /\ p.axes[i].interface.profile \subseteq {"PP", "PV", "HM"}

VARIABLES
    product,    \* the configuration of this node
    flaw,       \* where the generated dictionary breaks its contract
    extension,  \* entry -> owner of its OD extension, or "none"
    registry,   \* slot -> profile number, of the published registry
    bound,      \* how many managers of Managers are bound
    phase       \* unbound, binding, bound, releasing

vars == <<product, flaw, extension, registry, bound, phase>>

LogicalDevices == 0 .. 7                \* CO_PROFILE_LOGICAL_DEVICE_COUNT_MAX
Channels == 2                           \* banks or channels of every process image
Managers == IF product.mixed THEN <<"validator", "io", "drives">> ELSE <<"io">>
IsBound(m) == \E i \in 1 .. bound : Managers[i] = m

-----------------------------------------------------------------------------
(* Contracts: object shape, number of elements above sub-index 0, width of *)
(* one element and the attributes it must and may have.  A row applies     *)
(* when the device has "cap"; an optional object may also be missing.      *)
R == {"sdoRead"}
RW == {"sdoRead", "sdoWrite"}
PDO == {"tpdo", "rpdo"}
MB == {"multibyte"}

Row(index, cap, shape, count, width, required, allowed) ==
    [index |-> index, cap |-> cap, shape |-> shape, count |-> count, width |-> width,
     required |-> required, allowed |-> allowed, optional |-> index \in {"6430", "6450"}]
Array(index, cap, width, attrs) == Row(index, cap, "array", Channels, width, attrs, attrs)
Mapped(index, cap, width) ==
    Row(index, cap, "array", Channels, width, RW, RW \cup PDO \cup IF width = 1 THEN {} ELSE MB)
Var(index, cap, width, attrs) == Row(index, cap, "var", 0, width, attrs, attrs)

IoRows ==
    {Array("6000", "DI", 1, R \cup {"tpdo"}), Array("6200", "DO", 1, RW \cup {"rpdo"}),
     Array("6401", "AI", 2, R \cup {"tpdo"} \cup MB), Array("6411", "AO", 2, RW \cup {"rpdo"} \cup MB),
     Row("6423", "AI", "var", 0, 1, RW, RW \cup PDO), Var("6005", "DI", 1, RW),
     Row("6422", "AI", "array", 1, 4, R, R \cup {"tpdo"} \cup MB)}
    \cup {Mapped(index, "DI", 1) : index \in {"6002", "6003", "6006", "6007", "6008"}}
    \cup {Mapped(index, "DO", 1) : index \in {"6202", "6206", "6207", "6208"}}
    \cup {Mapped("6421", "AI", 1), Mapped("6443", "AO", 1)}
    \cup {Mapped(index, "AI", 4) : index \in {"6424", "6425", "6426", "6427", "6428",
                                              "6430", "6431", "6432"}}
    \cup {Mapped(index, "AO", 4) : index \in {"6444", "6446", "6447", "6450"}}

AxisRows ==
    {Var("603F", "base", 2, R \cup MB), Var("6040", "base", 2, RW \cup {"rpdo"} \cup MB),
     Var("6041", "base", 2, R \cup {"tpdo"} \cup MB), Var("6060", "base", 1, RW \cup {"rpdo"}),
     Var("6061", "base", 1, R \cup {"tpdo"}), Var("6064", "base", 4, R \cup {"tpdo"} \cup MB),
     Var("607A", "base", 4, RW \cup {"rpdo"} \cup MB), Var("606C", "base", 4, R \cup {"tpdo"} \cup MB),
     Var("60FF", "base", 4, RW \cup {"rpdo"} \cup MB), Var("6502", "base", 4, R \cup MB),
     Var("6081", "PP", 4, RW \cup MB), Var("6086", "PP", 2, RW \cup MB),
     Var("607C", "HM", 4, RW \cup MB), Var("6098", "HM", 1, RW), Var("609A", "HM", 4, RW \cup MB),
     Row("6099", "HM", "record", 2, 4, RW \cup MB, RW \cup MB),
     Var("6071", "CST", 2, RW \cup {"rpdo"} \cup MB), Var("6077", "CST", 2, R \cup {"tpdo"} \cup MB)}
    \cup {Var(index, mode, 4, RW \cup MB) : index \in {"6083", "6084", "6085"}, mode \in {"PP", "PV"}}

(* supportedModesForAxis(): only modes the product can execute completely. *)
SupportedModes(interface) ==
    IF ~interface.switchesModes THEN {}
    ELSE interface.profile
         \cup IF interface.handoff THEN interface.cyclic \cap {"CSP", "CSV", "CST"} ELSE {}

AxisCaps(axis) == {"base"} \cup SupportedModes(axis.interface)

-----------------------------------------------------------------------------
(* The generated dictionary: what each row asks for, but for the flaw.     *)
Absent == [shape |-> "absent"]
Generated(row) ==
    [shape |-> row.shape, count |-> row.count, highest |-> row.count, width |-> row.width,
     stride |-> row.width, attrs |-> row.required]
Alterations ==
    {"missing", "present", "shape", "count", "highest", "width", "stride", "attrs", "mapping"}
Altered(row, kind) ==
    LET entry == Generated(row) IN
    CASE kind = "missing" -> Absent
      [] kind = "present" -> entry
      [] kind = "shape"   -> [entry EXCEPT !.shape = "domain"]
      [] kind = "count"   -> [entry EXCEPT !.count = @ + 1]
      [] kind = "highest" -> [entry EXCEPT !.highest = @ + 1]
      [] kind = "width"   -> [entry EXCEPT !.width = @ * 2, !.stride = @ * 2]
      [] kind = "stride"  -> [entry EXCEPT !.stride = 1 + (@ % 2)]
      [] kind = "attrs"   -> [entry EXCEPT !.attrs = @ \ {"sdoRead"}]
      [] kind = "mapping" -> [entry EXCEPT !.attrs = @ \cup {"srdo"}]
Entry(slot, row, caps) ==
    IF flaw.slot = slot /\ flaw.index = row.index THEN Altered(row, flaw.kind)
    ELSE IF row.cap \in caps THEN Generated(row) ELSE Absent

(* Device type objects: profile number and capability half.                *)
DeviceType(profile, half) == [profile |-> profile, half |-> half]
SlotType(slot) ==
    IF flaw.slot = slot /\ flaw.index = "67FF" THEN DeviceType(flaw.kind, {})
    ELSE IF ~product.mixed THEN DeviceType("absent", {})
    ELSE IF slot = product.slot THEN DeviceType("401", product.caps)
    ELSE DeviceType("402", {"drive"})
ModuleType ==
    IF flaw.index = "1000" THEN DeviceType(flaw.kind, {})
    ELSE IF ~product.mixed THEN DeviceType("401", product.caps)
    ELSE DeviceType(IF product.slot = 0 THEN "401" ELSE "402", {"multiple"})

-----------------------------------------------------------------------------
(* The validators.                                                         *)

(* validateArrayContract(), validateVariable8(), validateOneScalar(),      *)
(* validateHomingSpeeds(): only an array's sub-index 0 and address stride  *)
(* are looked at.                                                          *)
MatchesButStride(row, entry) ==
    /\ entry.shape = row.shape
    /\ entry.count = row.count
    /\ entry.width = row.width
    /\ row.shape = "array" => entry.highest = row.count
    /\ row.required \subseteq entry.attrs /\ entry.attrs \subseteq row.allowed
Matches(row, entry) ==
    /\ MatchesButStride(row, entry)
    /\ row.shape = "array" => entry.stride = row.width

(* validateCapabilityObject(), validateOptionalArray(): an object of a     *)
(* process image the device does not have must not exist.                  *)
IoRowHolds(row) ==
    LET entry == Entry(product.slot, row, product.caps) IN
    IF row.cap \notin product.caps THEN entry = Absent
    ELSE \/ row.optional /\ entry = Absent
         \/ Matches(row, entry)

(* validateModeObjects(): objects of a mode the axis cannot execute are    *)
(* not looked at.                                                          *)
AxisRowHolds(axis, row) ==
    row.cap \in AxisCaps(axis) => Matches(row, Entry(axis.slot, row, AxisCaps(axis)))

(* validateDeviceType(): slot 0 without 16#67FF is a standalone device.    *)
DeviceTypeHolds ==
    LET expected == DeviceType("401", product.caps) IN
    IF product.slot = 0 /\ SlotType(0).profile = "absent" THEN ModuleType = expected
    ELSE /\ ModuleType.half = {"multiple"}
         /\ product.slot = 0 => ModuleType.profile = "401"
         /\ SlotType(product.slot) = expected

(* validateConfig() of CiA 401 *)
HooksOf(cap) ==
    CASE cap = "DI" -> {"readDigital8", "setDigitalInputFilter8"}
      [] cap = "DO" -> {"writeDigital8", "writeDigital8Masked"}
      [] cap = "AI" -> {"readAnalog16"}
      [] cap = "AO" -> {"writeAnalog16"}
ConfigHolds ==
    /\ product.caps # {} /\ product.slot \in LogicalDevices
    /\ \A cap \in product.caps : HooksOf(cap) \subseteq product.hooks

(* validateConfigs() of CiA 402 *)
SharedSlots == TRUE
DistinctSlots ==
    \A i, j \in DOMAIN product.axes : product.axes[i].slot = product.axes[j].slot => i = j
AxesHold == /\ \A i \in DOMAIN product.axes : product.axes[i].slot \in LogicalDevices
            /\ DistinctSlots

(* CO_profileRegistryBuild() *)
DescriptorsHold ==
    LET d == product.descriptors IN
    /\ \A i, j \in DOMAIN d : d[i].slot = d[j].slot => i = j
    /\ \A i \in DOMAIN d : /\ d[i].slot \in LogicalDevices
                           /\ SlotType(d[i].slot).profile = d[i].profile

-----------------------------------------------------------------------------
(* Entries with an OD extension, and the owners of them.                   *)
IoExtended == {<<product.slot, row.index>> : row \in
                 {r \in IoRows : r.cap \in product.caps
                                 /\ r.index \in {"6000", "6003", "6200", "6401", "6411", "6422"}}}
AxisExtended(axis) == {<<axis.slot, "6040">>, <<axis.slot, "6060">>}
AxesOf(p) == {p.axes[i] : i \in DOMAIN p.axes}
Extended == IoExtended \cup UNION {AxisExtended(a) : a \in AxesOf(product)}
AxisNames == {a.name : a \in AxesOf(product)}

(* validateExtensionSlot(), validateExtensionOwnership() *)
AnySlot(entry, owner) == TRUE
SlotFree(entry, owner) == extension[entry] \in {"none", owner}

Nothing == [slot |-> 8, index |-> "none", kind |-> "none"]
Flaws(p) ==
    {Nothing}
    \cup {[slot |-> p.slot, index |-> row.index, kind |-> kind] : row \in IoRows, kind \in Alterations}
    \cup {[slot |-> 0, index |-> "1000", kind |-> kind] : kind \in {"absent", "401", "402"}}
    \cup UNION {{[slot |-> a.slot, index |-> row.index, kind |-> kind] :
                   row \in AxisRows, kind \in Alterations}
                \cup {[slot |-> a.slot, index |-> "67FF", kind |-> kind] : kind \in {"absent", "401"}}
                : a \in AxesOf(p)}

Init ==
    /\ product \in Products
    /\ flaw \in Flaws(product)
    /\ extension = [e \in Extended |-> "none"]
    /\ registry = [s \in LogicalDevices |-> "none"]
    /\ bound = 0
    /\ phase = "unbound"

-----------------------------------------------------------------------------
(* CO_RTT_lifecycle bind dispatch: one callback per step.                  *)
StartBinding ==
    /\ phase = "unbound" /\ phase' = "binding"
    /\ UNCHANGED <<product, flaw, extension, registry, bound>>

Advance ==
    /\ bound' = bound + 1
    /\ phase' = IF bound + 1 = Len(Managers) THEN "bound" ELSE "binding"
    /\ UNCHANGED <<product, flaw>>

Turn(m) == phase = "binding" /\ Managers[bound + 1] = m

BindValidator ==
    /\ Turn("validator") /\ DescriptorsHold
    /\ registry' = [s \in LogicalDevices |->
                      IF \E i \in DOMAIN product.descriptors : product.descriptors[i].slot = s
                      THEN SlotType(s).profile ELSE "none"]
    /\ Advance
    /\ UNCHANGED extension

(* CO_401_device_bindOD(): extensions are installed after every check.     *)
IoHolds ==
    /\ ConfigHolds /\ DeviceTypeHolds
    /\ \A row \in IoRows : IoRowHolds(row)
    /\ \A e \in IoExtended : SlotFree(e, "io")
BindIo ==
    /\ Turn("io") /\ IoHolds
    /\ extension' = [e \in Extended |-> IF e \in IoExtended THEN "io" ELSE extension[e]]
    /\ Advance
    /\ UNCHANGED registry

(* CO_402_device_bindOD(): every axis is checked before any is installed.  *)
DrivesHold ==
    /\ AxesHold
    /\ \A a \in AxesOf(product) :
         /\ \A row \in AxisRows : AxisRowHolds(a, row)
         /\ \A e \in AxisExtended(a) : SlotFree(e, a.name)
LastOwner(e) ==
    LET mine == {i \in DOMAIN product.axes : e \in AxisExtended(product.axes[i])} IN
    IF mine = {} THEN extension[e]
    ELSE product.axes[CHOOSE i \in mine : \A j \in mine : j <= i].name
BindDrives ==
    /\ Turn("drives") /\ DrivesHold
    /\ extension' = [e \in Extended |-> LastOwner(e)]
    /\ Advance
    /\ UNCHANGED registry

(* A failing callback has published nothing of its own; the lifecycle      *)
(* quiesces those bound before it.                                         *)
BindFails ==
    /\ \/ Turn("validator") /\ ~DescriptorsHold
       \/ Turn("io") /\ ~IoHolds
       \/ Turn("drives") /\ ~DrivesHold
    /\ phase' = "releasing"
    /\ UNCHANGED <<product, flaw, extension, registry, bound>>

CommunicationReset ==
    /\ phase = "bound" /\ phase' = "releasing"
    /\ UNCHANGED <<product, flaw, extension, registry, bound>>

(* onQuiesced(): unbindOwnedExtensions() of either adapter detaches only   *)
(* what is still its own; the validator clears the registry.               *)
OwnersOf(m) == CASE m = "validator" -> {} [] m = "io" -> {"io"} [] m = "drives" -> AxisNames
Detached(m) == [e \in Extended |-> IF extension[e] \in OwnersOf(m) THEN "none" ELSE extension[e]]

Quiesce ==
    /\ phase = "releasing"
    /\ IF bound = 0
       THEN phase' = "unbound" /\ UNCHANGED <<extension, registry, bound>>
       ELSE LET m == Managers[bound] IN
            /\ extension' = Detached(m)
            /\ registry' = IF m = "validator" THEN [s \in LogicalDevices |-> "none"] ELSE registry
            /\ bound' = bound - 1
            /\ UNCHANGED phase
    /\ UNCHANGED <<product, flaw>>

(* Another subsystem installs its own extension with OD_extension_init(),  *)
(* and gives it up between generations.  Bound: only on a sound dictionary.*)
TakeOver(e) ==
    /\ flaw = Nothing /\ extension[e] # "foreign"
    /\ Cardinality({f \in Extended : extension[f] = "foreign"}) < MaxForeign
    /\ extension' = [extension EXCEPT ![e] = "foreign"]
    /\ UNCHANGED <<product, flaw, registry, bound, phase>>
GiveUp(e) ==
    /\ phase = "unbound" /\ extension[e] = "foreign"
    /\ extension' = [extension EXCEPT ![e] = "none"]
    /\ UNCHANGED <<product, flaw, registry, bound, phase>>

Next ==
    \/ StartBinding \/ BindValidator \/ BindIo \/ BindDrives \/ BindFails
    \/ CommunicationReset \/ Quiesce
    \/ \E e \in Extended : TakeOver(e) \/ GiveUp(e)

Spec == Init /\ [][Next]_vars

-----------------------------------------------------------------------------
(* What the passes of a bound device read and write: <<index, width,       *)
(* highest sub-index, an array>>.  OD_get_*() and OD_set_*() fail on any   *)
(* other width, and elements closer together than their width overlap.     *)
IoAccesses(cap) ==
    CASE cap = "DI" -> {<<i, 1, Channels, TRUE>> : i \in {"6000", "6002", "6003", "6006", "6007", "6008"}}
                       \cup {<<"6005", 1, 0, FALSE>>}
      [] cap = "DO" -> {<<i, 1, Channels, TRUE>> : i \in {"6200", "6202", "6206", "6207", "6208"}}
      [] cap = "AI" -> {<<i, 4, Channels, TRUE>> : i \in {"6424", "6425", "6426", "6427", "6428",
                                                         "6431", "6432"}}
                       \cup {<<"6401", 2, Channels, TRUE>>, <<"6421", 1, Channels, TRUE>>,
                             <<"6422", 4, 1, TRUE>>, <<"6423", 1, 0, FALSE>>}
      [] cap = "AO" -> {<<i, 4, Channels, TRUE>> : i \in {"6444", "6446", "6447"}}
                       \cup {<<"6411", 2, Channels, TRUE>>, <<"6443", 1, Channels, TRUE>>}
AxisAccesses(cap) ==
    CASE cap = "base" -> {<<i, 2, 0, FALSE>> : i \in {"603F", "6040", "6041"}}
                         \cup {<<i, 1, 0, FALSE>> : i \in {"6060", "6061"}}
                         \cup {<<i, 4, 0, FALSE>> : i \in {"6064", "606C", "6502"}}
      [] cap = "PP"  -> {<<i, 4, 0, FALSE>> : i \in {"607A", "6081", "6083", "6084", "6085"}}
                        \cup {<<"6086", 2, 0, FALSE>>}
      [] cap = "PV"  -> {<<i, 4, 0, FALSE>> : i \in {"60FF", "6083", "6084", "6085"}}
      [] cap = "HM"  -> {<<"607C", 4, 0, FALSE>>, <<"6098", 1, 0, FALSE>>, <<"609A", 4, 0, FALSE>>,
                         <<"6099", 4, 2, FALSE>>}
      [] cap = "CSP" -> {<<"607A", 4, 0, FALSE>>}
      [] cap = "CSV" -> {<<"60FF", 4, 0, FALSE>>}
      [] cap = "CST" -> {<<"6071", 2, 0, FALSE>>, <<"6077", 2, 0, FALSE>>}
Served(access, entry) ==
    /\ entry # Absent
    /\ entry.width = access[2]
    /\ entry.count >= access[3]
    /\ access[4] => entry.stride >= access[2]

TypeOK ==
    /\ product \in Products /\ flaw \in Flaws(product)
    /\ extension \in [Extended -> {"none", "foreign", "io"} \cup AxisNames]
    /\ registry \in [LogicalDevices -> {"none", "401", "402"}]
    /\ bound \in 0 .. Len(Managers)
    /\ phase \in {"unbound", "binding", "bound", "releasing"}

(* Every access a pass of a bound adapter makes finds an entry of that     *)
(* width with elements that do not overlap, whatever is wrong in the       *)
(* dictionary.                                                             *)
BoundAccessesAreServed ==
    /\ IsBound("io") =>
         \A cap \in product.caps : \A access \in IoAccesses(cap) :
           \E row \in IoRows : row.index = access[1]
                             /\ Served(access, Entry(product.slot, row, product.caps))
    /\ IsBound("drives") =>
         \A a \in AxesOf(product) : \A cap \in AxisCaps(a) : \A access \in AxisAccesses(cap) :
           \E row \in AxisRows : row.index = access[1]
                               /\ Served(access, Entry(a.slot, row, AxisCaps(a)))

(* Binding is all or nothing: an adapter's extensions are on all its       *)
(* entries, each on its own, while it is bound, and on none while it is    *)
(* not; the adapters of a mixed node are bound only under a registry that  *)
(* gives every described slot to the profile its Device type states.       *)
BindingIsWhole ==
    /\ \A e \in IoExtended :
         IF IsBound("io") THEN extension[e] \in {"io", "foreign"} ELSE extension[e] # "io"
    /\ \A a \in AxesOf(product) : \A e \in AxisExtended(a) :
         IF IsBound("drives") THEN extension[e] \in {a.name, "foreign"} ELSE extension[e] \notin AxisNames
    /\ product.mixed /\ (IsBound("io") \/ IsBound("drives")) =>
         \A i \in DOMAIN product.descriptors :
           registry[product.descriptors[i].slot] = product.descriptors[i].profile

BindingIsSafe == TypeOK /\ BoundAccessesAreServed /\ BindingIsWhole

(* No bind, failed bind or unbind of an adapter ever displaces the         *)
(* extension of another subsystem ("must never replace another component's *)
(* callbacks", CO_402_device_od.c).                                        *)
ForeignExtensionsAreKept ==
    [][\A e \in Extended :
         extension[e] = "foreign" /\ extension'[e] # "foreign" => phase = "unbound"]_vars
=============================================================================
