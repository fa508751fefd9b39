# A TLA+ verification of CANopenNode for RT-Thread

This project models the parts of this repository that are hard to test: the
life of a CANopen stack object shared by several RT-Thread threads, the
extensions that hang on it, the CAN driver in both directions, the main loop's
sleep, what survives a power cycle, the CiA 401 and CiA 402 device profiles with
the controller and the transport at the other end, and the test services.  The
modules are translated from the C sources; the line ranges behind every
definition are in `PROJECT.json` ("map").

## 1. The system

### Threads and what they share

| Thread or context | Code | Works on |
| --- | --- | --- |
| init caller | `canopen_app_rtt_init()` | builds everything, rolls back in `cleanup:` |
| `co_main` (priority 10) | `co_app_rtt_main_thread_entry()` | `CO_process()`, communication reset, LSS, storage, profile master, test services |
| `co_rt` (3) | `co_app_rtt_realtime_thread_entry()` | SYNC, RPDO, TPDO, SRDO, synchronous extension work |
| `co_prof` | `CO_RTT_lifecycleSharedWorkerEntry()` | one deferred pass over all extensions: the profile devices |
| `co_rx` (2) | `co_rtt_rx_thread_entry()` | reads frames, calls receive callbacks |
| shell | `canopen_gw`, `cia401`, `cia402` | looks the stack or the profile runtime up per command |
| application threads | callers of the profile master and the controllers | one remote request at a time |
| `co_tmr` | hard timer interrupt | posts `rtSem`, requests a deferred pass |
| CAN RX indication | interrupt | posts `rx_sem` |

They share `app->canOpenStack` (the `CO_t`), which a communication reset deletes
and rebuilds.  `lifecycleMutex` pins it: a thread takes the mutex, reads the
pointer, and keeps the mutex for its whole pass.  `co_main` alone keeps the
pointer in a local without the mutex, because it is the thread that replaces
it.  `co_rx` is not covered by the mutex; it is drained by
`CO_CANmodule_disable()` (tell, wake, await exit).  The OD mutex orders data
access and lives inside the CAN module, so it dies with it.

### Inventory

For each component: its state, its operations, what makes it correct, and the
module that models it.  `PROJECT.json` lists each with its status.

* **Application runtime** (`CO_app_RTT.c`).  State: stack pointer, `lastRtUs`,
  timer, semaphores, LSS bitrate state.  Operations: init with cleanup, the two
  thread loops, timer callback, reset, bitrate activation.  Correct when nobody
  uses a deleted stack, a reset ends, a failed step leaves nothing half built,
  protocol timers are charged real time only, and no frame meets a bitrate
  switch.  `CommunicationReset`, `LssBitrate`.
* **Lifecycle extensions** (`CO_lifecycle_RTT.c`).  A fixed array of slots; hooks
  are called on stop, quiesced, bind, ready, tick, SYNC and deferred work.
  Correct when hooks come in their order, a failure is rolled back, and a
  coalesced wakeup is never lost for good.  `LifecycleRegistry`,
  `CommunicationReset`.
* **CAN driver** (`CO_driver_rtthread.c`).  Receive: binding, `co_rx`, the two
  semaphores; no frame is stranded and stopping is complete when it returns
  (`RxPath`).  Transmit: gate, overflow bits, observer, error and drop counters;
  no failure and no overflow is forgotten (`CanTransmit`, `LssBitrate`).
* **Hardware receive filter** (`CO_can_filter_RTT.c`).  A table of few hardware
  rules compiled from many software rules, with a dirty flag.  Correct when no
  frame a rule asks for is filtered out, and a change reaches the hardware.
  `CanFilter`.
* **Time base and mainline** (`CO_time_RTT.c`, `CO_mainline_RTT.c`).  Two clocks
  that wrap, deadlines merged into one bounded sleep, one wake-up event.
  Correct when time is charged once and `co_main` sleeps through nothing.
  `Mainline`.
* **LSS persistence and OD storage** (`CO_lss_persist_RTT.c`, `CO_storage_RTT*.c`).
  Correct when a power loss at any point leaves the old data, the new data, or
  an error that is reported.  `Persistence` (files), `EepromLayout` and
  `EepromStorage` (AT24 EEPROM).
* **CiA 402 device** (`profile/cia402/device` and its RT-Thread adapter).  Per
  axis: PDS state, one asynchronous callback that owns the drive, operation
  mode, diagnostic latch, SYNC image.  Correct when one callback owns the drive,
  safety commands win, faults end in Fault, motion starts on real edges, and
  Statusword and EMCY tell the truth.  `PdsSupervisor`, `MotionModes`, and for
  the software drive behind it `DemoDrive`.
* **CiA 401 device** (`profile/cia401/device` and its adapter).  Digital and
  analogue inputs with event masks, filters and references; outputs with error
  values.  Correct when an event lasts until it was sent, and a stop or a fault
  reaches every output before anything else does.  `DigitalInput`,
  `AnalogInput`, `OutputSafety`.
* **Dictionary binding** (`CO_401_device_od.c`, `CO_402_device_od.c`,
  `CO_profile_registry.c`, `CO_profile_mixed_RTT.c`).  Correct when a bound
  dictionary serves every access the profile makes and a refused one is left
  as it was.  `ProfileBinding`.
* **Profile master** (`CO_profile_master_RTT.c`).  Callers block on one request
  slot that `co_main` serves; teardown drains them.  Correct when a caller gets
  the outcome of its own request once.  `ProfileMaster`, `RemoteCall`.
* **CiA 402 controller** (`profile/cia402/controller`).  Target state, transition
  and feedback timeouts, fault reset pulse.  Correct when it understands the
  device, commands no motion nobody asked for, and ends every target.
  `DriveController` (transfers and time), `PowerLink` (joined with a device).
* **Console commands** (`*_msh.c`).  Correct when a command works on a runtime
  that is there and is seen whole.  `DeviceShell`, `ShellArguments`,
  `MotionModes`.
* **Test services** (`src/port/rtthread/demo`).  Objects 16#2300 ff. that drive NMT, SDO,
  storage, EMCY, GFC, SRDO and block transfers on request.  Correct when what
  they report happened.  `NmtMasterTest`, `SdoClientTest`, `StorageTest`,
  `EmcyDiagnostic`, `SafetyTests`, `SdoBlockTest`.
* **CANopenNode core**: an external submodule, not in the repository.

## 2. Modules

| Module | Models | Kind |
| --- | --- | --- |
| `GenerationPin` | what the mutex and the drain promise: a used `CO_t` is the current one, a retired one is unused | abstract |
| `RxDrain` | what the driver promises about `co_rx`: told, left, closed | abstract |
| `ConfigRegister` | what the LSS record promises: a register holding one whole configuration, or none | abstract |
| `RemoteCall` | what the profile master promises a caller: accepted, decided once, returned | abstract |
| `CommunicationReset` | init, cleanup, reset, all users of the stack | implements `GenerationPin`, `RxDrain` |
| `RxPath` | receive side of the driver, down to single flag accesses | implements `RxDrain` |
| `Persistence` | LSS record, storage files and the start-up path that reads them | implements `ConfigRegister` |
| `ProfileMaster` | request slot, admission, mainline hook, teardown | implements `RemoteCall` |
| `LifecycleRegistry` | registration, factories, init, teardown, one callback per step | detailed |
| `LssBitrate` | Activate Bit Timing with `CO_CANsend()` and the switch | detailed |
| `CanTransmit`, `CanFilter`, `Mainline` | rest of the driver, filter, main loop with both clocks | detailed |
| `PdsSupervisor`, `MotionModes`, `DemoDrive` | one CiA 402 axis: power states, profile modes and homing, software drive | detailed |
| `DriveController`, `PowerLink` | CiA 402 controller with its client; controller and device through their two words | detailed; composition |
| `DigitalInput`, `AnalogInput`, `OutputSafety` | CiA 401 device and adapter | detailed |
| `ProfileBinding` | dictionary binding of both profiles, and of the validator that keeps them apart | detailed |
| `DeviceShell`, `ShellArguments` | console commands: locks and writes; the number parser | detailed; algorithm |
| `EepromLayout`, `EepromStorage` | EEPROM areas; store, automatic saving, start | detailed |
| `NmtMasterTest`, `SdoClientTest`, `StorageTest`, `EmcyDiagnostic`, `SafetyTests`, `SdoBlockTest` | test services | detailed |
| `Profiles`, `Node`, `Services` | the components of one layer side by side, for any values of their constants; their safety properties | composition |
| `MCProfiles`, `MCNode`, `MCServices` | the three with values for their constants, and their liveness properties, see section 3 | model checking |
| `*_proofs` | theorems about the module named, see section 4 | proofs |

**How they compose.**  `CommunicationReset` uses `co_rx` through the promise of
`RxDrain` (an idle/busy thread that leaves when told), and is checked to drive it
only as `RxDrain` allows (`DrainSpec`).  `RxPath` models the same calls flag by
flag and is proved to implement the same `RxDrain`, so the two meet at that
interface.  `PowerLink` joins the deciding halves of controller and device: what
`DriveController` and `PdsSupervisor` each know of the other as an arbitrary
environment is there the real other side.  `OutputSafety`, `DigitalInput` and
`AnalogInput` are passes of one worker that share no variable but the OD lock.

### The runtime

`CommunicationReset`.  A CO_t is represented by its generation number.  `stack` is
`app->canOpenStack`, `co[t]` the pointer thread `t` holds.  `mpc` is the control
point of the init thread and then of `co_main`; the two never run at once, since
`co_main` is started as the last act of init.  `boot` tells which of the two is
running and `failed` that an error is on its way out.  One action is a stretch
of code in which nobody else can see or change what is touched.  Each fallible
call has a failure disjunct.  `rtFirst` is chosen at the start: TRUE is one
processor with `co_rt` more urgent than `co_main` (the default configuration),
FALSE is any schedule.  The bitrate switch of Activate Bit Timing is two tries
under `lifecycleMutex`, at the new rate and then at the old one (`LssSet`,
`LssStart`, `LssFailed`); each starts a `co_rx` that is off, and a try whose
`RT_CAN_CMD_START` fails tells `co_rx` to leave and waits for it.  Everything but `FreshBaseline` holds in both.
`FreshBaseline` needs the priority: with `co_rt` able to lag, a token it took
before the reset can still be turned into a pass between the unlock
(`CO_app_RTT.c:993`) and the new baseline (`:1013`).  Kconfig asks for that
priority order.

`LifecycleRegistry`.  `CommunicationReset` takes a fixed set of extensions as
given; this module is about how that set comes to be and how it is dismantled.
`slots` is the slot array; each slot keeps the code's flags, and `holds` records
what the extension itself has acquired in its callbacks, so a flag the code
forgets to set or clear shows as a difference between the two.  Every callback
may fail, and one callback is one step.  Hooks that only loop over ready slots
(tick, SYNC, NMT) are left out.

`LssBitrate`.  A sender keeps `lifecycleMutex` for a whole pass and blocks in
`rt_device_write()`; `co_main` closes the gate without the mutex and takes it for
the switch.  `hw` is the bitrate the controller really runs at, `None` after a
failed switch that left it in an unknown state.  `silence` is a history clock:
milliseconds since the gate was closed or the controller switched.  `now` wraps
at `Span`, and starts anywhere.

`Mainline`.  Time passes in units on a counter that wraps at `MaxCount`; the
high-resolution timer wraps one count early, ticks wrap at a whole tick.  `lag`
is the time that has passed and was not charged yet; charging more or less than
it shows as a difference.  `due` is the earliest deadline of the last pass and
`owed` that a wake-up has come since.

### The driver

`RxPath`.  Every access to `rxStop`, `rxRunning`, `rx_thread`, the binding table
and the semaphores is a step of its own.  `RxFirst` says that `co_rx` preempts
`co_main`.  `owed` is a history variable for `NoStrandedFrame`.

`CanTransmit`.  `CO_CANsend()` is split at its two critical sections, with the
blocking write between them.  `unreported` and `lost` remember what the status
word must still come to say.  `CanFilter`.  A rule is the set of identifier bits
it fixes; merging two rules keeps the bits on which both agree, as the code's
mask arithmetic does.

### Storage

`Persistence`.  One action per access to the medium.  A write may be complete,
torn or lost, and it may report success or failure in each case; power goes off
between any two steps.  The record is split where the code splits it: `body`
(everything before the commit field, with its CRC) and `commit`.  A file of the
DFS backend is missing, torn or valid; a CRC or length check is modelled by
telling a torn file from a valid one, so a collision of the CRC is outside the
model.  `Decoded`, what a start would read, is the abstract register's value.
`acked` and `expected` record what the master was told is stored.  Builds without
`ENOENT` treat any open error as a missing file (`CO_storage_RTT_dfs.c:649`); the
model is of a build that has it.  Nobody writes an entry's RAM while it is being
stored (Store runs in `CO_process()` under the OD lock).  A restore deletes the
file and leaves RAM alone, so a communication reset keeps the values and only a
power cycle brings the defaults back; nothing is asked of an entry that was
restored.

`EepromLayout` takes any sizes and offsets Kconfig allows.  `EepromStorage` is one
entry: payload bytes, signature, and the round-robin of automatic saving,
against RAM that the program goes on changing.  A CRC is as good as the payload
it was made from, but for the one the code makes up: `CO_eeprom_getCrcBlock()`
answers 0 for a block it cannot read, and 0 is the CRC of a payload of zeros.
`CrcRead` therefore is the CRC of the payload or that of `Zeros`, and
`StoreIsHonest` excepts an acknowledged payload of zeros; without the exception
TLC finds it violated (section 5).

### The profiles

`PdsSupervisor`.  A pass of `CO_402_device_process()` runs under the OD lock; it
is split into phases only to keep each action readable, and nothing touches the
axis between them.  The EMCY flush runs after the lock is released, so a master
may write before it.  A drive callback answers BUSY, DONE or ERROR at any call.
`busy` records what the physical drive is still doing, apart from the software
tokens; `raised` records a 0 to 1 write of bit 7.

`MotionModes`.  What the mode step of a pass hands to the product; the PDS side
may do in a pass whatever it may do.  `promised` remembers an acknowledged
`cia402 start`, `risen` an edge nobody has consumed, `interrupted` that homing was
let go of, `ordered` the parameters the command began with.

`PowerLink`.  A word is the set of its bits.  The controller reads one word,
decides, and writes the other; the device runs whenever it likes.  `goal` is the
target the standing command was written for, `intended` that a target was set
since the last fault.

`DriveController`.  Each SDO transfer is a step that may fail after it took
effect.  `sinceGoal` and `sinceHeard` are the true elapsed times.

`DigitalInput`, `AnalogInput`, `OutputSafety`.  A bank of eight inputs is one
bit; of an output only "driven" and "safe" are told apart.  Every frame may be
refused and every product call may fail, per bank or output.  `owed`, `eventOwed`,
`sourceOwed` and `mustStop` remember what the network or the product is owed.

`ProfileBinding`.  `flaw` is the one place where a generated dictionary breaks its
contract: every check of the code has its flaw, and a check that is missing shows
as a bound access nobody serves.

`ProfileMaster`.  `admission` is the biased counter of callers.  `PromptUndo`
says that a refused caller takes its tentative count back before the runtime is
initialised again; the run `master_undo` drops it.

`DeviceShell`.  Three mutexes, the consoles and the worker, and the dictionary
writes of a command one object at a time; `left`, `unseen` and `halfSeen` tell whether
the worker saw a command whole.

### The test services

Each module is one object with its `process()` hook and the SDO writes and reads
that may fall before any pass; a communication reset may fall between any two.
What is reported is compared with what happened: `executed` and `meddled` in
`NmtMasterTest`, `startedIn`, `inFifo` and `atServer` in `SdoClientTest`, `baseline` in
`StorageTest`, message numbers in `EmcyDiagnostic`, `owed` in `SafetyTests`,
`committed` and the content of each byte in `SdoBlockTest`.

`SdoClientTest`.  The other node ends a transfer when it likes, and may announce
the length of an upload, truly or not, or leave it open.  The code decides the
result from its own counters (`UploadFits`, `DownloadFits`); the property is
about what is left in the FIFO and what the other node served and announced
(`Agreed`).  An upload of unannounced length that ends early is a success here
as in the code: nobody on this side could know better.

`SdoBlockTest`.  `Streams` are the SDO server and the node's own SDO client, which
`CO_demo_sdo_client.c:22-24` wants able to transfer locally; their pieces come in
any order.  `authors` are the streams that wrote since the newest piece at offset
0.  While that is one stream, uploads see one committed payload
(`UploadIsOnePayload`); with two, they may not (section 5).

## 3. Runs

| Run | Module, cfg | Shows | Distinct states |
| --- | --- | --- | --- |
| `reset_safety` | CommunicationReset, `MCCommunicationReset.cfg` | nobody uses a deleted object, wakeups, baseline, both refinements, a reset ends | 210,774 |
| `rx_slow` | RxPath, `MCRxPathSlow.cfg` | violation: detach before `co_rx` has left | |
| `pds_safety` | PdsSupervisor, `MCPdsSupervisor.cfg` | ownership, edges, diagnosis, EMCY, Statusword | 1,193,349 |
| `pds_live` | PdsSupervisor, `MCPdsSupervisorLive.cfg` | fault reactions end, Disable voltage wins | 139,518 |
| `pds_emcy` | PdsSupervisor, `MCPdsSupervisorEmcy.cfg` | violation: the error bit of an old fault stands for a new one | |
| `lss_bitrate` | LssBitrate, `MCLssBitrate.cfg` | no frame during a switch, rate known or silent, PRE_DELAY kept, activation ends | 135,968 |
| `persistence` | Persistence, `MCPersistence.cfg` | atomic record, whole configurations, no silent loss | 835,836 |
| `profile_master` | ProfileMaster, `MCProfileMaster.cfg` | each caller gets its own outcome once, full timeouts, teardown drains | 110,383 |
| `master_undo` | ProfileMaster, `MCProfileMasterUndo.cfg` | violation: the admission count goes wrong | |
| `profiles` | MCProfiles | CiA 401 and CiA 402 device parts, controller, console | 94,855 |
| `node` | MCNode | registry, binding, mainline, filter, transmit | 150,202 |
| `services` | MCServices | receive path, EEPROM, test services | 201,539 |

**Compositions.**  `Profiles`, `Node` and `Services` instantiate components that
share no state, with the components' constants as their own.  A behaviour picks
one (`part`) at the start and leaves the others in an initial state, so the
reachable states are the sum and not the product of the components', and a
property is the conjunction of the components' own.  `MCProfiles`, `MCNode` and
`MCServices` extend them, give the structured constants (products, rules,
attach orders, ranges) their values, and add fairness and liveness.  The theorems are about
`Profiles`, `Node` and `Services`, so they hold for any values; and since each
follows from the theorem of the component alone, which never uses `part`, nothing
rests on the components taking turns.

| Property | Conjuncts |
| --- | --- |
| `InputEventsLast` | `DigitalInput!EventsAreRemembered`; `AnalogInput!AnalogInputIsSafe`: a drift is reported against the value last sent, an event and its source bit last until sent |
| `ProductComesFirst` | `DigitalInput!PublishedUnderFilter`, `OutputSafety!StopComesFirst` |
| `OutputStateIsSafe` | of `OutputSafety`: warning, EMCY bit, supervision and pending stop agree with the outputs |
| `RetriesAreAccounted` | of `DriveController`: the age of feedback and the time of a transition are exact, a pending command serves the present target |
| `EdgesAreReal` | `DriveController!ResetIsAnEdge`, `MotionModes!EdgeIsFresh`, `PowerLink!LinkIsSound` (a standing command approaches its target; motion was asked for since the last fault) |
| `MotionIsSafe` | `MotionModes!MotionIsSafe` (starts are kept, homing is honest, commands are owned), `DemoDrive!DemoDriveIsTrue`, `PowerLink!WordsAreUnderstood` |
| `ConsoleIsSafe` | `DeviceShell!ShellIsSafe` (pinned, whole, processed, no circular wait), `ShellArguments!ArgumentsAreExact` |
| `ProfilesSettle` | events are sent, stops reach every output, targets and pulses end |
| `StartIsSound`, `StartIsUndone` | of `LifecycleRegistry` and `ProfileBinding`: one releaser, reverse order, clean failure, a bound dictionary serves its profile; attach is atomic, foreign extensions are kept |
| `MainlineIsSafe` | of `Mainline` |
| `DriverIsSafe`, `FilterCatchesUp` | `CanFilter!FilterIsSafe`, `CanTransmit!TransmitIsAccountable`; `CanFilter!FilterCatchesUp` |
| `RxPathIsSafe`, `DrainSpec` | of `RxPath` |
| `StorageIsSafe` | `EepromLayout!LayoutIsSound`, `EepromStorage!StoreIsHonest`: an acknowledged entry has its signature and, unless it is all zeros, its payload on the EEPROM |
| `TestsAreSound`, `TestsStartClean` | of `NmtMasterTest`, `StorageTest`, `EmcyDiagnostic` and `SafetyTests` |
| `TransfersAreWhole` | `SdoClientTest!SdoTestIsSound`: a request's result is its own and true, and no request outlives its stack; `SdoBlockTest!UploadIsOnePayload` |
| `ServicesSettle` | a stop of the module returns, the NMT test ends, the last message is shown, an automatic entry is saved |

`OwnershipIsClear` (one owner, the drive does what its owner stands for, Follows
only when enabled), `FaultsAreCoherent` (diagnosis, EMCY), `EdgesAreEarned` (legal
edges, no reset by a held bit) and `AxisComesToRest` (reactions end, Disable
voltage wins) are conjunctions within `PdsSupervisor`, as are `ObjectsOutliveUse` within
`CommunicationReset`, `BitrateIsSafe` within `LssBitrate`, `StartIsHonest` within
`Persistence` and `MasterIsSafe` within `ProfileMaster`.  Type invariants are part
of them.

**Bounds.**  `Ext` = 2 extensions: one bound and one not is the smallest
inhomogeneous case.  `MaxGen` = 3 (runtime): a first stack, one reset, and a reset
after a reset; 2 for the profile master, whose only question is whether a
request meets another stack than its own.  `SemMax` = 2: one token, and a
saturated semaphore.  One requester next to the timer is enough to overlap
test-and-set with a reset.  `Batch` 2 and `FifoMax` 3 in `RxPath`: a queue longer
than a batch.  One cyclic and one profile mode, two faults (to tell an old fault
from a new one).  `Capacity` = 3 slots for four extensions, so a registration is
refused in the middle of an attach, and two attach orders, so factories sort
either way.  `Span` = 8 for a wrapping tick with delays of 0 and 2: the longest
delay and a pass fit in half the range, as 65,535 ms and a pass do in 2^31;
`MaxPass` = 1 ms is the shortest that lets time pass within a pass.  Two bitrates,
one of which the controller refuses, an assigned and an unassigned node-ID, and
two entries with two values: enough to mix two configurations and to corrupt one
entry of two.  Two callers of the profile master: one that holds the slot and one
that is refused or waits.  A timeout of 2 and gaps of 1: a request initiated
within a pass, one pass in between, and a timeout on the next.  `MaxCount` = 11
units with ticks of 2: both wraps, a deadline of 5 on either side of them.
Three-bit identifiers with two hardware entries for three receive buffers: merging, and the
broad table when merging is not enough.  Two banks, two outputs, one analogue
channel with four raw values (banks, outputs and channels do not influence each other, but a pass may
fail on one of them).  Three products for binding: full, partial, and without
drives.  8-bit registers in `ShellArguments` for the parser's 64: overflow is at the
same distance from the ranges.  An EEPROM of at most 6 bytes with pages of 2:
every arrangement of areas that fits or does not.  Three EMCY messages against three attempts at a copy
of two words.  Two requests, and a payload longer than a chunk and as long as the FIFO, in the SDO test; two streams,
two contents and a buffer of two pieces in the block test.

**Deadlock** is checked but in `profile_master`, `master_undo` and the union runs:
there a bound is reached (the last generation, the last message, the end of a
parsed text) or the program is done (a finished NMT test, an application torn down).

**Fairness.**  Threads that can run, run (weak fairness); a thread that waits for
a mutex is handed it on release, so its lock step is strongly fair.  `co_rt`'s
period is longer than its pass, so it lets less urgent threads run again and
again (`[]<>~RtRunnable`), and frames take longer on the bus than in `co_rx`
(`[]<>RxBlocked`).  In `PdsSupervisor` the worker keeps running passes, a reset
ends, and the product eventually answers `faultReaction` and a `disableVoltage`
that has been latched; no other callback need ever answer.  In `LssBitrate` the
tick advances, a sender's blocking write returns and a pass sends finitely many
frames, which is what hands the mutex on.  Where a transfer, a frame, a reading or
an EEPROM write may fail, it succeeds again and again if it is tried again and
again (strong fairness of the successful alternative): nothing that needs them
could end otherwise.  In a union run the fairness of an alternative is that of
the component the behaviour exercises.  Frames, timer wakeups, resets, commands
and requests are never forced to happen.

**Assumptions on the constants.**  Each is what the code or its build
configuration guarantees, and TLC evaluates each in the run of its module:

* `MasterAssumption`: the callers are finitely many and at most half of the
  admission bias (`CO_profile_master_RTT.c` biases by 2^30; a system has no such
  number of threads).
* `MainlineAssumption`: the longest sleep and the work of a pass stay within one wrap
  of the counter, and a wrap is a whole number of ticks.
* `BitrateAssumption`: the longest delay and a pass fit in half the range of the tick.
* `BindingAssumption`: a product's descriptors name one of the two profiles, its axes a mode
  the device has.
* `FilterAssumption`: an identifier has a width, the receive buffers are numbered
  1 to n, a filter has at least one bank.
* `AnalogInputAssumption`: values and limits are integers in the range of the
  object, the identity is among the conditionings, deltas are not negative (they
  are `UNSIGNED32` in 16#6426 to 16#6428).
* `DeviceShellAssumption`: consoles, the worker and the lifecycle thread are
  different threads.
* `ShellArgumentsAssumption`: the ranges are as the callers of `mshParseLong()` and
  `mshParseUnsignedLong()` pass them: within a signed register, or from zero.
* `PowerLinkAssumption`: the mode bits of the two words are none of the PDS bits.
* `EepromStorageAssumption`: 0 and 255 are two bytes, and an entry has at least one.
* `SdoBlockTestAssumption`: the buffer has room, and the baseline is a content.
* `RxPathAssumption`, `ResetAssumption`, `PersistenceAssumption`, `PdsAssumption`
  and the others: sizes are natural numbers, and marker values are not members of the sets they mark.

**Mutants.**  `PROJECT.json` holds one bug per property that its run finds.
The modules keep further mutated forms beside the definitions they belong to, each named for its bug
(`LastSeen` beside `LastCommunicated` in `AnalogInput`, `TargetKept` beside `AfterFault` in `PowerLink`,
`NotSticky` beside `Sticky` in `OutputSafety`, `MutexIgnored` beside `MutexFree` in `CanFilter`, and so on).
Put in place of its definition, each is found by the union run, so every conjunct of a merged property
can be broken by a bug of its own module.

## 4. Proofs

Each theorem holds for every value of the constants that the assumptions of
section 3 allow.  Every invariant and every action property of the passing runs,
and every refinement, is stated by a theorem; TLC checked each on the instance
of its run before it was proved.  Liveness is model-checked only.

| Module | Theorems that state the property of a run | Rest on |
| --- | --- | --- |
| `CommunicationReset_proofs` | `ObjectsAreSafe`, `QuiescingIsOrdered`, `WakeupsSurvive`, `BaselineIsFresh`, `ImplementsPin`, `ImplementsDrain` | `TypeOK` and `ControlInv`; `FreshInv`; `RxOffInv` |
| `Persistence_proofs` | `ImplementsRegister`, `StartsAreHonest` | `TypeInv`, `StoreInv`, `StartInv`, `FileInv` |
| `LssBitrate_proofs` | `BitrateIsKept`, `DelayIsKept` | `FlagInv`, `LockInv`, `GateInv`, `RateInv`; `PassInv`, `DelayInv` |
| `PdsSupervisor_proofs` | `OwnershipClear`, `FaultsCoherent`, `EdgesEarned` | `TypeOK` and `Sound` |
| `ProfileMaster_proofs` | `CallersAndClientsAreSafe`, `NoEarlyTimeout`, `ImplementsRemoteCall` | `ControlInv`, `IpcInv`, `CountInv` |
| `Profiles_proofs` | `InputsAreRemembered`, `ProductIsFirst`, `OutputsAreKnown`, `RetriesAreCounted`, `EdgesAreTrue`, `MotionIsHonest`, `ConsoleSafe` | a section per component, below |
| `Node_proofs` | `StartsAreSound`, `StartsAreUndone`, `TimeIsCharged`, `DriverServes` | a section per component, below |
| `Services_proofs` | `ReceptionIsSafe`, `PathImplementsDrain`, `StorageSafe`, `TestsReportTruly`, `TransfersAreTrue`, `StacksStartClean` | a section per component, below |

A section of the three long modules is about one component: its inductive
invariant, lemmas about its operators, one lemma per conjunct and step, and the
component's theorem.  The last section joins them.  The arguments:

**Runtime, storage, drive, transport**

* `CommunicationReset`.  That a thread's pointer is current
  follows only from who holds the mutex at which control point.  `ControlInv` ties
  program counters to each other (`PcOK`), to the start-up phase (`BootInv`), to
  lock owners (`LockInv`), to pointers (`PinInv`), to the CAN module (`ModuleInv`)
  and to bindings (`BindInv`).  `WakeNotLatched` is inductive relative to it.
  `FreshInv`, for `BaselineIsFresh`: from the reset of the semaphore to the restart of
  the timer no token exists (`SilentInv`); `co_main` gets the mutex only when the more
  urgent `co_rt` has used up what it had taken (`ParkedInv`), so until the new
  baseline is set nobody can charge time to it (`ChargeInv`).  Only the last two need the priority.
* `Persistence`.  The refinement needs to know that the
  commit marker is written over nothing but the body that was asked for
  (`StoreInv`): otherwise the step that sets it would give the register a value
  nobody stored.  `StartInv` ties the pending values to `loaded` from the load to
  the first `CO_CANinit()`; `FileInv` says that a stored value stays in its file,
  and that every file passed so far was read well unless corruption has been
  noticed.
* `LssBitrate`.  That no frame is under way during a switch
  follows from two facts together: behind the closed gate nobody starts to
  submit, and who submits holds the mutex the switch needs.  `RateInv` says what
  the controller runs at, at each point of the switch.  For `DelayIsKept`, `DelayInv`
  says that the deadline is the present tick plus what is left of the delay, modulo
  the range, and `PassInv` that the time of the pass is at most a pass old: the two distances
  together stay below half the range, where the signed comparison is exact.
* `PdsSupervisor`.  `OwnerInv` says which tokens may exist in
  which state and that a latched transition still has its edge; `BusyInv` that
  the physical drive does what the token stands for, but for the stretch of a
  pass from a fault to its reaction; `EmcyInv` that the event slot always leads
  the error bit to the latched fault; `EdgeInv` that an edge of bit 7 unseen by
  the last snapshot was written since, which is why a held bit never resets.
* `ProfileMaster`.  `CountInv` says in every phase of the teardown what
  `admissionState` counts: the callers behind admission and those about to take
  their increment back, with the bias from unpublishing on; and that the drain is
  over when the last token has come.  `IpcInv` follows: no caller is inside while
  the IPC is detached.  `RequestInv`, `DoneInv`, `StackInv` and `ClientInv` tie the one slot,
  the one completion token and the SDO client to the caller that waits and the
  stack that exists.  The theorems have the hypothesis `PromptUndo` in their statements:
  a refused caller is not delayed between its increment and its decrement
  across a whole initialisation.  Without it the count is wrong, which is the
  finding of `master_undo`.

**Profiles**

* Words (`PowerLink`).  The controller decides on an old reading; `ReadingInv` bounds how
  old it can be (one transition of the standing command, or a failure since), and
  `GoalInv` says that the command leads to its goal from wherever the drive has
  got to.  Four lemmas compute the coding of both words.
* Outputs.  `PendingInv`: after a Start that overtakes a Stopped, the pending flag
  alone knows that the outputs still owe a stop.
* Digital inputs.  `FilterInv`: an image that is not stale was read under the
  filter that 16#6003 holds.
* Analogue inputs.  Only selected and enabled comparators watch
  (`WatchInv`), a drift beyond the delta is unsent (`DriftInv`), and what is owed
  is remembered whether or not a consumer is attached (`OwedInv`).
* Controller.  Its timers saturate.  `FeedbackAgeIsExact` and `OwnTimeInv`
  are invariants over saturating sums: the age of feedback with the time deferred
  to the next pass is the time since the device was heard, and the time of a
  transition with the deferred time is at most the time since the target was set
  or the drive was seen to move.  Saturating addition is shown to be an addition
  up to the limit, so a timeout is neither early nor lost.
  `DrivePulseInv`: bit 7 is high only during a pulse, or while the edge that
  takes it back still waits to be transferred.
* Motion.  A bit that is up and was not sampled rose for this command, or the
  axis is still on its way through a state that samples it (`FreshInv`); a homing
  that runs and is not being aborted has its bit held (`HomingInv`, `AbortInv`);
  an acknowledged start is unsampled and its drive operational (`StartInv`).
* Console.  Each place in a command says which mutexes are held (`BindingInv`,
  `LifecycleInv`, `OdInv`); a holder of the OD or binding mutex waits for
  nothing, hence no circle (`NoCircle`).  Only a command at work has written
  something (`WrittenInv`), and one that has returned success was given to a
  runtime that runs (`RequestInv`).
* Parser.  The register equals the number typed so far until the parser gives up,
  in base 10 and 16; the test before the multiplication is exact (lemmas on division).
* Software drive.  A set-point is in flight only in profile position mode, a SYNC command only in a cyclic mode (`ModeInv`).

**Node**

* Registry.  Slots stay in the order of their attachment, a walk has bound or
  initialised exactly the slots on its near side, and what a partial start has put
  in place lies above the checkpoint, from where it is unwound last in, first out.
* Binding.  An accepted dictionary has every object a pass accesses with the
  assumed width, count and stride; a slot is owned by one profile.
* Main loop.  `GapInv`: what has passed since the clock was read is one sleep and
  at most three busy steps, less than half of either counter, so the difference of two
  readings is what has passed.  `WakeInv`: a wake-up nobody has served is still in
  the event, or its pass is coming.
* Filter.  Merging and compacting only widen, and a compilation that runs to its
  end has a table for every rule.  The compilation is a recursive function of the
  number of rules, so what it serves is proved by taking the least number for which
  it would fail (`LeastNatural`, from well-foundedness; the library's induction theorems cannot be
  used).  `MutexInv`: no rule changes between the compilation and the writing of the banks.
* Transmission.  `SenderInv`: who sends, who polls, and who may hold an observer it
  has captured; `LostInv`: the drops since the last poll are fewer than half the
  counter's range, so the difference of two counts is their number.

**Services**

* Receive path (`RxFirst`).  `RxPhaseInv` and
  `LeaveInv` relate the two program counters through `rxStop` and `rxExitSem`:
  `co_main` is past the stop only when `co_rx` is gone.  The theorems need the
  default priorities, and the run `rx_slow` shows that they are false without them.
* EEPROM.  Entries are placed upwards in the region, each behind the last
  (`AreaInv`, `PlaceInv`), so they are disjoint.  `StoreInv`: what a store has
  established at each of its stages, with automatic saving in between or not; when
  the signature is read back, the payload is that of RAM or RAM is all zeros.
* NMT test.  `TrackInv`: as long as nobody meddles, what the heartbeat consumer
  knows may be old, but the state that is aimed at has not been seen before it
  is reached; `EntryInv` returns the borrowed entry of 16#1016.
* SDO test.  `OrderInv`: complete <= active <= consumed <= requested.  `BytesInv`: of
  the bytes one end has given, those not yet at the other are in the FIFO, so the
  code's comparison of its counters says whether one is left behind; `OutcomeInv`:
  a result is that of the transfer that ended last.
* Storage test.  A back-up that is marked valid is the baseline, and a request
  waits only for the stack it was committed to (`RequestInv`).
* EMCY test.  The sequence number counts each message twice (`RecorderInv`), its
  words are those of the newest or the previous message (`WordInv`), so a copy
  under an unchanged even number is of one message (`CopyInv`).
* Safety tests.  `OwedInv`: a request is owed exactly while the stack runs and the
  request is pending.
* Block test.  `PieceInv`: while one stream alone has written since the newest
  beginning, everything up to its offset is its own content and the write flag is
  up; so when it completes, the buffer is its payload (`BlockInv`).

Only model-checked: the liveness properties `ResetIsLive`, `AxisComesToRest`,
`ActivationEnds`, `CallsReturn`, `ProfilesSettle`, `FilterCatchesUp` and
`ServicesSettle`.  They are properties under fairness, whose ENABLED these
provers do not handle.

## 5. Findings

Three runs expect a violation and show a disagreement of the code with its own words:

1. `rx_slow`: `co_rtt_rx_stop()` skips its wait when `co_rx` has cleared both
   of its flags but has not yet released `rxExitSem`
   (`CO_driver_rtthread.c:492-494`, `:597`), against the comment at `:489-490`.
   It needs a `co_rx` that does not preempt `co_main`.
2. `pds_emcy`: a fault reset that completes in the pass in which a mode callback
   fails is overwritten in the single event slot
   (`CO_402_device_diag.c:94`), and the error bit keeps the old fault's EMCY,
   against `CO_402_device_diag.h:117-119`.
3. `master_undo`: `onRuntimeInit()` zeroes `admissionState`
   (`CO_profile_master_RTT.c:455`) while a refused caller may still be between its
   increment (`:76`) and the decrement that takes it back (`:80`); the count is then
   one short of the callers inside, against the comment at `:69`.

Seen while modelling, and allowed for in the models (no property fails on them,
because none promises otherwise, or because the property excepts them by name):

* the POST_DELAY deadline is computed from the time read at the top of the pass
  (`CO_app_RTT.c:883`, `:405`), so the node transmits again before the delay
  after the switch has passed by as much as `CO_process()`, the wait for the
  mutex and the switch took;
* `cia402 start` during the abort of a homing is acknowledged and may be lost
  (`CO_402_device_RTT_msh.c:586`);
* a fault-reset pulse shorter than one pass of the device is not seen by it;
* a console that waits for `lifecycleMutex` while its runtime detaches the mutex
  is woken with an error;
* EEPROM, automatic saving: a read that fails inside a void function looks like
  an erased byte (0xFF), so a byte may be written without the signature being
  refreshed; RAM that changes during a scan gives a signature of no payload; a
  restore whose read-back failed looks like success;
* EEPROM, 16#1010: `CO_eeprom_getCrcBlock()` answers 0 for a block it cannot read
  (`CO_storage_RTT_at24c.c:566-567`, `:574-575`), and the update of a signature only
  compares that with the CRC of RAM (`CO_storage_RTT_eeprom.c:92-94`), although the
  comment at `:75` says it verifies the payload.  A payload of zeros whose write
  was lost is then signed and acknowledged: the exception of `StoreIsHonest`;
* block test: a piece at offset 0 begins a transaction for any stream, and the stream
  that completes clears the write flag (`CO_demo_sdo_block.c:91`, `:110-111`), whoever
  else has written the one buffer since; the payload is then of both streams,
  although `:41-42` wants staged bytes hidden.  It needs a local transfer of the
  node's SDO client next to one of the SDO server: the hypothesis `OneAuthor` of
  `UploadIsOnePayload`;
* NMT test: stopping and starting the local node makes its heartbeat consumer
  forget the other node, which the test takes for a boot-up; a borrowed entry of
  16#1016 whose restore is refused twice is lost at the reset; while CAN is
  unusable past the timeout the test asks for a pass at once, again and again;
* GFC: the result of the last request stays in 16#2302 after a reset;
* DFS: an automatic store that fails after truncation is not repeated if the value
  returns to the one last stored (`CO_storage_RTT_dfs.c:752`); the application
  registers no automatic entry, so the code is not reached.

## 6. Hazards

`PROJECT.json` ("hazards") lists each at its line with the properties that cover
it.  One has none: the freshness of bit 12 between two SYNC messages
(`CO_402_device.c:343`: the contract is not written down).

## 7. Not modelled

* **Generated data and tests**: `examples/demo_device/OD.c`, `OD.h`, the host
  tests under `.github/ci`, configuration headers, build scripts.
  `ProfileBinding` models what the profiles ask of a dictionary.
* **CANopenNode core**: a submodule that is not in the repository; modelled from its
  use where a component needs it (SDO client and server, heartbeat consumer,
  `CO_errorReport()`, NMT states), and marked external.
* **CiA 401 controller**: stateless accessors on the profile master.
* **CiA 401 demo**: arrays that callbacks copy.
* **`CO_demo_time.c`, `CO_demo.c`**: printing, and calling the enabled demos in turn.
* **DFS automatic saving**: unreachable, see above.
* **Of partly modelled components**: LED pins, the CPU reset, tick, SYNC and NMT
  dispatch loops, console output, polarity of 8-bit banks, set points of the
  cyclic modes, which are copied and not computed; NMT, time and heartbeat
  services of the profile master, which take the same path as SDO.
