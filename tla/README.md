# Verification of enocean-core

TLA+ models of the receiver of EnOcean BLE telegrams in this repository and of the
platform layer under it, their TLC configurations, and theorems about them checked by
TLAPS.

## 1. The system

| Part | State it keeps | Operations | What makes it correct |
|---|---|---|---|
| EnOcean driver (`src/enocean/EnoceanDriver.ipp`) | `devices_[8]` (active, address, key, `seq_num`, rssi, type), `commissioning_enabled_`, `initialised_` | `init`, `enable_/disable_commissioning`, `process_advertisement` → `handle_commissioning`, `handle_switch`, `handle_sensor` | one slot per device, keys read from the right place, no telegram reported twice or out of order, numbers consumed only by authentic telegrams |
| Advertising-data parser (`extract_manufacturer_data`) | read position | loop over AD structures | finds the first EnOcean payload, stays in its bytes, ends |
| Sensor report decoder (loop of `handle_sensor`) | read position, `SensorData` | loop over TLV entries | decodes what the sensor encoded, stays in its bytes, ends |
| POSIX BLE scanner (`platform/posix_core/ble`) | `running_` (atomic), `hci_fd_`, `scan_thread_`, the HCI socket, the controller | `init`, `start_scan`, `stop_scan`, destructor; `scan_loop` on its own thread; `dispatch_adv_report` | `running_`, thread, socket and controller agree after every call, whatever fails inside it; every report of an event is handed out, inside the bytes received |
| Zephyr BLE scanner (`platform/zephyr_core/ble`) | static `s_instance_`, the registered `scan_cb_` | `init`, `start_scan`, `stop_scan`; `zephyr_scan_cb` on the Bluetooth thread | how far callbacks into a scanner that is gone are ruled out |
| Application (`application/AppEntry.cpp`) | none of its own | `run_impl`: driver init, scanner init, start, enable, sleep | hears only what was sent, and everything that should be heard |
| Start-up (`posix_main.cpp`, `zephyr_main.cpp`, `boards/*/watchdog`, sleep) | the main thread object, the watchdog | Zephyr: watchdog, Bluetooth, thread, feed for ever; POSIX: thread, join | a boot that fails or hangs is repeated, one that keeps its time is left alone, nothing is left behind |
| Threads (`platform/*/thread`) | `active`, the OS thread, attribute objects | `create` with a retry, `destroy`, destructor | flag and OS thread agree, whatever fails |
| Mutex, locker (`platform/*/mutex`) | `initialized_`, the OS mutex; `locked_` | `init`, `lock`, `unlock`, RAII | a locker knows whether it holds the mutex |
| Semaphore (`platform/*/semaphore`) | `initialized_`, the OS semaphore | `init`, `take`, `give`, destructor | permits are neither invented nor lost |
| Message queue (`platform/*/message_queue`) | `mqd_` or `queue_`; the kernel's queues and their names | `init`, `send`, `receive`, `get_free_space`, destructor; `ms_to_timespec` | deadlines are exact; what an earlier process left is explained |
| Error handler (`include/error_handler/ErrorHandler.hpp`) | a value or an error | `and_then`, `or_else`, `transform`, `transform_error`, `value_or` | the result of a chain tells what took effect |
| LED, GPIO (`boards/*/led`, `gpio`) | `status`, the pin, a global mutex | `init`, `blink`; `set_mode`, `write` | no blink is lost, the pin shows the last |
| Serial wrapper (`boards/common/iserial`) | the driver it owns, `is_initialized_` | `initialize`, `write`, `read`, moves, destructor | one owner per open port, closed once |
| Crypto backends, logging, USB | see section 7 | | |

How they interact: `main()` creates a thread that runs `AppEntry`. The scan thread (on
Zephyr the Bluetooth stack's) calls `advertisement_cb` → `process_advertisement` with
every report; the driver calls the crypto backend and then, synchronously, a callback of
the application. The application's thread calls the operations of driver and scanner.
There is no lock: driver state is shared by the two threads, `running_` is the only
atomic. Operations of the platform layer return `ErrorHandler`s, which callers join in
chains. Hard behaviours: the two threads of the scanner, commands that fail or time out
half-way, a radio that loses, repeats, reorders and damages telegrams, transmitters that
restart their counter or change their key, lengths that come from the air, limits (table
full, last sequence number, full queue, last second of the clock), waits that end as what
they waited for arrives, kernel objects that outlive the process, and a watchdog that
counts during a boot of unknown length. `PROJECT.json` lists each hazard with the line
where it bites and the properties that watch it.

## 2. Modules

| Module | Models | State and actions |
|---|---|---|
| `EnoceanDriver` | the driver | `devices`, `commissioning_enabled`, `initialised`; one action per public operation; `process_advertisement(t)` is one step that contains the handler it calls. `log` is a history variable: the callbacks made per address since `init()` |
| `DeviceRegistry` | nothing in the code: the abstract specification of what the application sees (members, their last number, events told) | `Clear`, `SetOpen`, `Join`, `Accept` |
| `SensorTlv` | the decoding loop | one step per iteration; `sent` is what the sensor meant |
| `AdParser` | `extract_manufacturer_data` | the call, then one step per iteration; `sent` is what the transmitter wrote |
| `BleScanner` | `Ble::Scanner` (POSIX) with `Thread::create` and `~Thread` | application thread `pc`, scan thread `thread`; a step is a system call, an HCI command or an access to `running_` |
| `HciReports` | the header test of `scan_loop` and `dispatch_adv_report` | one step per report; `event.sent` is what the controller meant |
| `ReceivePath` | the scan thread between two `read()`s, composing `HciReports` and `AdParser`: `dispatch_adv_report` calls back into `process_advertisement`, which calls `extract_manufacturer_data` on a span of the read buffer | the next report is taken when the walk has returned; the byte behind the span is the report's signal strength |
| `EnoceanSystem` | `AppEntry::run_impl`, scan thread, transmitters, radio, extending `EnoceanDriver` | `app`, `delivering`, `nodes`, `air` |
| `Platform` | what the platform modules share: the build, the end of the process, the last result | none |
| `Mutex`, `Led`, `Semaphore`, `Thread`, `Serial` | one class each, both platforms | OS object, flag and callers; a call that waits is two steps, `create` is one step per system call |
| `PlatformObjects` | a program that uses them | `uses` chooses the objects; composes the modules above |
| `ErrorHandler` | the monadic operations | operators only; `logged` counts the lines written |
| `Deadline` | `ms_to_timespec` | operators only; `Exact` says what a deadline has to be |
| `MessageQueue` | the queue of both platforms, called through chains of `ErrorHandler` | objects, the kernel's queues, `linked` (what the name finds), chains and calls per thread, `run` (the process) |
| `Boot` | both `main()` functions, the watchdog, `run_impl`'s thread and the Zephyr scanner, extending `Thread` | one action per call of `main()` or `run_impl`; `zephyr_scan_cb` is two, the load of the pointer and its use; `Tick` is a second, in which any step of `main()` may go on, `Reset` the watchdog's |
| `MC…` | the instances for TLC | constants only |
| `…Proofs` | the theorems | |

`EnoceanDriver` sees an advertisement through what the handlers look at: address,
PDU and address type, payload size, sequence number, marker byte, where which key
was written, reserved bits, and what the tag was computed from. `SensorTlv`,
`AdParser` and `HciReports` supply the byte level that `EnoceanDriver` and `BleScanner`
leave out: a report that `HciReports` delivers is an advertisement, the payload that
`AdParser` finds in it is the payload of an `Advert` (size 0 if there is none), and the
callback that ends `SensorTlv` is the `sensor` event. Cryptography is ideal: a tag
verifies exactly for the key, address and number it was made from; a backend that
fails for another reason has the effect of a telegram with a bad tag.

`BleScanner` treats BlueZ as external: a command may be carried out, refused, or
carried out while its reply is lost (the reply is awaited on the socket the scan
thread reads), a request may swallow an event, other processes may start scans,
and closing a socket does not wake a `read()` on it. The client makes any calls in
any order, more than `AppEntry` does today.

The platform modules keep both directories in one model: `platform` is chosen in the
initial state, and an operation that differs is `posix_…` in one and `zephyr_…` in the
other. What an OS call may answer is a set of errno values, which the error tables of the
code turn into the interface's errors. Callers are free, with two limits the code itself
needs: one thread initialises an object (`initialized_` is not atomic), and an object is
not destroyed under a waiter. In `MessageQueue` a message is the number of the process
that sent it; a process may end in order or be killed at any point, and the next finds
the kernel's queues as they are.

Operators named `X_Variant` next to an operator `X` are faulty variants of it: each
property has one that must make TLC report it, which shows the property can fail. The
ranges of `map` begin at the comment of the item they stand for.

## 3. Runs

| Run | Result | Shows |
|---|---|---|
| `driver` | passes, 13 196 states | table, keys, replay protection, `ImplementsRegistry` |
| `tlv` | passes, 19 332 states | the decoder inverts an encoder written independently in `MCSensorTlv` |
| `receive` | passes, 64 299 states | the reports of an event are delivered whole, in order, inside its bytes, and in each the first EnOcean payload is found |
| `scanner` | passes, 141 972 states | life cycle of scanner and scan thread, `JoinWaitsForEvent`, `InboxServed` |
| `system` | passes, 42 600 states | genuineness end to end, learning, reception |
| `platform` | passes, 75 849 states | mutex, LED, semaphore, thread and serial objects stay in step with the OS; `CallsReturn` |
| `queue` | passes, about a million states | chains tell the truth, leftovers are explained, deadlines are exact |
| `boot` | passes, 13 457 states | `CallsLiving`, `BootRecovers` |
| `adspan` | violated | the bound of the AD walk is off by one |
| `hcishort` | violated | an event of header and one whole report without data, 15 bytes, is dropped |
| `restart` | violated | `start_scan` after `stop_scan` always fails |
| `rekey` | violated | re-commissioning is unreachable |

The four violated runs state what a comment or header says and show a run of the
code that does otherwise; `PROJECT.json` quotes the lines.

What the properties say that a test would hardly reach:

* `NoReplay`, `ConsumptionAuthentic`, `LogMatchesTable`: order of number check,
  authentication, store and callback, over every sequence of telegrams.
* `KeysAsTransmitted`: PTM keys that begin with the STM marker byte.
* `RunningIsServed`, `StoppedIsQuiet`: every failure inside `start_scan`, with the
  old scan thread still in `read()`.
* `AtMostOneLate`: `stop_scan` does not wait; the reports of one late event are
  possible, those of two are not.
* `JoinWaitsForEvent`: the destructor may hang, and only in one way: the scan thread
  is in a `read()` that no event ends. The code gives no stronger guarantee.
* `QuietUntilEnabled`: telegrams that arrive between `start_scan` and
  `enable_commissioning`.
* `Tiled`, `DeliversWhole`: several reports, each with its own length, cut anywhere. Of
  an event of exactly 15 bytes `DeliversWhole` says only that nothing but its report is
  delivered; that it is not delivered at all is the subject of `hcishort`.
* `ExtractsFirst`: a whole EnOcean structure is found behind any others, and nothing but
  the first one's payload is ever returned. It holds with the bound as it is and with the
  bound corrected: about a structure that is one byte short it does not decide, which is
  the subject of `adspan`.
* `TypeOK` of `BleScanner`: `hci_fd_` never names a socket the scanner has closed.
* `LockersExact`: a second lock by the owner (refused on POSIX, counted on Zephyr) and a
  time-out that meets the owner's unlock; a wrong `locked_` would unlock for another.
* `BlinksKept`: threads toggle one status and write one pin, and the write may fail.
* `PermitsAccounted`: waits that end as the permit comes; limits of either platform.
* `ThreadsBalanced`: any step of `create` failing, in the first attempt or the second.
* `PortsOwned`: every order of moves, assignments and ends of scope.
* `CallsReturn`: `blink()` comes back through every failing write, `create` through its
  retry, which is made once, and `join` once the thread has ended.
* `ChainVerdict`: a success of `send(…).or_else(…)` means one copy was accepted, an error
  of `init(…).and_then(send…)` that exactly the calls before the failing one took effect.
* `LeftoversExplained`: two objects of one name, failed second `init()`, a kill.
* `CallsLiving`: `zephyr_scan_cb` may be interrupted between the load of `s_instance_` and
  its use, while the scan is stopped and the scanner's scope ends. `AppEntry` never leaves
  a started scan, so it is safe; a user that stops and leaves can meet one such callback,
  and no second. The code gives no stronger guarantee.
* `BootRecovers`: a step of `main()` may take any time, and `bt_enable` need not return. A
  boot whose steps take up to 3 s each is not reset; one that is slower than the watchdog,
  fails or hangs is started again.

Divergences and surprises met while modelling that have no run of their own:

* `EnoceanDriver.hpp:222` says `check_sequence` accepts 0 when 0 is stored, which
  `new_seq > stored` does not; the offsets in the comment on `handle_commissioning`
  (`EnoceanDriver.hpp:168`) are not those of the code.
* A timed lock that runs out on Zephyr is `-EAGAIN`, which the mutex's table does not
  have: the caller gets `Unknown`, not `Timeout`. Likewise `-ENOMSG` of a queue call
  with time-out 0 becomes `Unknown`. On POSIX time-out 0 of a queue waits for ever.
* `count_limit` of a semaphore is ignored on POSIX; `give()` at `SEM_VALUE_MAX` ends the
  program.
* The re-initialising branches of `do_init` (mutex, semaphore) are unreachable, since
  `init()` refuses first. `LedBlinker::init()` can therefore not succeed any more once it
  failed after its mutex was initialised. A second `init()` of a POSIX queue is accepted
  and forgets the first descriptor.
* `destroy()` called by the thread itself fails, and the thread stays joinable.
* The Zephyr `main()` feeds the watchdog whatever becomes of the application, and a
  failed watchdog initialisation leaves a board that nothing resets; the POSIX `main()`
  returns 0 also when the application failed.
* An error is logged again by every stage of a chain that passes it on.

### Bounds

`driver`: two slots for three devices (the table fills), numbers 0..2 (a first, a
repeat, a successor and the last number, standing for `UINT32_MAX`), two keys, both
signal strengths. One device has the address of a cleared slot. `tlv` and
the advertisements of `receive`: every kind of entry or structure in every pair and many
triples, cut at every byte, which reaches every branch in every position relative to the
end.
`scanner`: two sockets (a repeated `init`) and three events (one before, one during
and one after a stop). The events of `receive`: one to three reports of 0, 1 or 3 bytes,
cut at every byte, with the count right, one too low and one too high, 14, 15 and 16
reports, around the limit, and reports that the driver ignores. `system`: one switch, one sensor, two telegrams each, one reset;
data telegrams may be damaged, commissioning telegrams, which carry no tag, are not.
`platform`: two threads and two mutexes (the LED's and another, two lockers deep: nested
and repeated locks), two blinks, semaphores of every pair of counts 0..2 with three
gives (at and above both limits), stack sizes 0, below the minimum, unaligned, and one
that wraps, priorities below, in and above the range, three wrappers and two ports. A
program uses mutex and LED together and the other objects alone, since they share
nothing. `queue`: two objects, two threads, two queues, two processes, capacity 0 and 1
(0 is refused), clocks one and two seconds before the last second of a `time_t` that ends
at 9, time-outs that carry and that do not; objects are symmetric. `boot`: the code's 10 s
watchdog and 1 s sleep, steps of any length, of which those beyond 3 s count as slow,
three boots.

### Fairness

Loops of one thread (`SensorTlv`, `ReceivePath`): weak fairness, the scheduler
runs the thread. `BleScanner`: weak fairness of a call that has begun (HCI commands have a
time-out of one second) and of the scan thread; none for the client, the controller
or other processes. `EnoceanSystem`: weak fairness of `run_impl`, and of reception:
while some telegram in the air could still change the driver, some such telegram is
received; transmitters repeat, and the assumption says nothing of one telegram in
particular. `PlatformObjects`: the kernel gives a free mutex to a waiter and lets a deadline
pass, and a `blink()` or `create()` that has begun goes on; nobody has to call, to give a
permit, to end the scope of a locker or to return from a thread. `Boot`: `main()` and the application run on, the
clock ticks, an expired watchdog resets; `bt_enable` need not return, stopping a scan need
not succeed, the air may be silent and a callback may be held up for ever. Deadlock is not checked where a loop ends, an object is destroyed, a process
has ended, or bounded transmitters and boots come to their bound.

## 4. Theorems

All hold for every value of the constants, so for every number of devices, threads,
objects and telegrams, every input length and every program of queue calls.

* `EnoceanDriverProofs`, the driver: `TypeCorrect`, `TableCorrect`, `ReplayProtected`,
  `SlotsKeptAlways`, `LogFollowsTable`, `ConsumptionAlwaysAuthentic`, `KeysGenuine`,
  `DriverImplementsRegistry`. `NoReplay` is not inductive: a telegram is compared with the
  stored number, not with the log. `ReplayInv` adds that no event is ahead of its slot's
  number and that an address without a slot has no events, which in turn needs that an
  address has one slot (`TableWellFormed`). `Announced` says the same of announcements:
  the first event of an address, and no other, is one. Each action is first shown to be a
  `JoinStep`, an `AcceptStep` or a rejection; invariants and refinement are proved of
  those. Refinement is under `RegistryLast`.
* `EnoceanDriverProofs`, the running program (`EnoceanSystem`): `SystemTypeCorrect`,
  `SystemKeepsPromises`, `SystemImplementsRegistry`, `SystemQuiet`, `SystemEventsGenuine`.
  `SystemIsDriverStep` shows that a step of the program is a step of the driver under a
  well-typed telegram or leaves the driver alone, so what was proved of the driver under
  any traffic carries over. `EventsGenuine` needs that telegrams long enough to commission
  carry no valid tag (`AirInv`), that a slot keeps its key (`KeyKept`) and the above.
  `QuietUntilEnabled` needs that commissioning is disabled until `run_impl` is in its loop.
* `SensorTlvProofs`: `DecoderInBounds`, `DecoderProgresses`, `DecodedAsMeant`. For the
  last, `DecodeInv` says where the loop is in terms of what the sensor wrote: at the start
  of some entry, with the measurements of exactly the entries before it. What is sent is
  known by the offset at which each entry ends, so no induction over the input is needed.
* `ReceivePathProofs`: `ReportsTileTheEvent`, `ReportsWellTyped`, `WholeReportsDelivered`,
  `WrongByOneAtMost`, `FirstExtracted`. `HciInv` adds that the header was accepted before
  any report is taken, which is what makes the count byte, and so the bound on reports, a
  byte of the event. `WholeInv` says that as many reports were delivered as were passed,
  each as meant, and that the position is where the next one starts; so the driver is
  called on exactly the data a transmitter wrote (`CallCarries`). `WrongByOneAtMost` is the
  most that can be said of the bound as it is written: the byte behind the span is still
  one of the event (`BufferInside`). `FindInv` says that the walk is at the start of some
  structure and none before it is EnOcean's; its steps are lemmas of `AdParserProofs`.
* `BleScannerProofs`: `ScannerTypeCorrect`, `RunningServed`, `OneLateReport`,
  `DestructionCompletes`, `StoppedQuiet`. `RunningIsServed` speaks of the time between
  calls; `ServedInv` adds what holds inside them (`running_` is set exactly from the store
  to the undo, and a live thread ends only when it is clear). `LateInv` adds that a thread
  which may still dispatch has dispatched nothing late. `SocketsInv` says that a socket is
  open exactly if it is the scanner's or lost, `DestroyedInv` that the destructor passes
  its join only without a thread, `QuietInv` at which steps of `start_scan` and
  `stop_scan` the controller may scan without an excuse.
* `MessageQueueProofs`: `DeadlinesExact`, `LeftoversAreExplained`, `ChainsTellTruth`. The
  arithmetic of `ms_to_timespec` is a lemma over quotients and rests
  (`DeadlineArithmetic`). The second theorem needs `QueueInv`: a call keeps the open queue
  it found, since `init()` has its object to itself (`Structure`), and a queue in use, or
  found by its name, holds messages of this process only unless one was left behind
  (`Fresh`). The third follows a chain stage by stage: `VerdictInv` says what the handler
  and the list of effects tell of the first n stages, also while a call is under way
  (`Agrees`); `StageAgrees` and `CallAgrees` carry it over the next stage and over the
  return of a call, for programs of any length and mixture.
* `PlatformObjectsProofs`: `LockersStayExact`, `BlinksStayKept`, `PermitsKept`,
  `ThreadsStayBalanced`, `PortsHaveOneOwner`. `MutexInv` adds that only an initialised
  mutex is waited for or owned, and that one without owner is not locked; the number of
  holding lockers is followed through `Append` and the end of the innermost. As a
  by-product `UnlockKeeps` shows that the branch of `do_unlock` that ends the program is
  never taken by a locker. `LedInv` adds that a thread between toggling and the end of its
  locker holds the LED's mutex, so there is one such thread. `SemaphoreInv`, `ThreadInv`
  and `SerialInv` state the properties inside calls as well as between them.
* `BootProofs`: `CallbacksFindTheirScanner`, `NoSpuriousReset`, `MainKeepsItsThread`.
  `LivingInv` ties `scanning` to the steps of `run_impl` at which its scanner is alive and
  counts the callbacks that can still be in flight. Until a step is slow, `WatchdogInv` bounds the seconds since the last feed by the steps of `main()` since then
  plus the sleep left. `OwnerInv` follows `main()` through `create` and the join: which
  step has a thread, and that `create` says so.

Assumptions: `DriverAssumption` (a table of at least one slot, telegrams of the
declared shape), `SystemAssumption` (there is a signal strength, and the tag that
stands for a bad one is no valid tag), `TlvAssumption`, `HciAssumption` (inputs are
arrays of bytes), `ScannerAssumption`, `PlatformAssumption`, `MutexAssumption`,
`LedAssumption`, `SemaphoreAssumption`, `SerialAssumption` (values that stand for nothing
are not members), `ThreadAssumption` (the minimal stack is whole words and fits `size_t`),
`DeadlineAssumption`, `QueueAssumption` (clocks are valid times, programs are chains) and
`BootAssumption` (three steps that do not count as slow take less than the time-out). TLC evaluates
them in the runs.

Four theorems have a hypothesis on the inputs, since they compare with what was sent:
`KeysGenuine` (`WellFormed`: a commissioning telegram is laid out as one of the two
product families lays it out), `DecodedAsMeant` and `FirstExtracted` (`Carries`: the bytes
are the entries, one after the other, cut somewhere; for the latter `AdsCarried`, of every
report) and `WholeReportsDelivered` (`Carried`). They are stated over the bytes, independently of the code that reads them;
the MC modules assume them of every input of their runs, which TLC evaluates, so they are
satisfied by the encoders written there.

## 5. Only model-checked

Liveness, since the proof system has no fairness: `CallbackMade`, `Returns`,
`JoinWaitsForEvent`, `InboxServed`, `LearnsDevice`, `FreshReceived`, `CallsReturn` and the
last two parts of `BootRecovers`, whose first two are `NoSpuriousReset` and
`MainKeepsItsThread`. Every invariant and every action property of the passing runs is
also a theorem.

## 6. Plan

1. Done: driver, registry, parsers, scanner, system, and their first theorems.
2. Done: the bytes of HCI events, the platform layer on both platforms, the error
   handler, message queues, start-up with watchdog and Zephyr scanner, and theorems about
   each.
3. Done: theorems for the remaining invariants, and for the running program.
4. Left: the safety that the liveness properties rest on, such as where a
   `blink()` or a `create()` can still be held up.

## 7. Not modelled

Formatting, logging and the texts of errors; USB and MCUboot configuration; build files
and tests; the C++ type machinery (CRTP, concepts, the overloads of `ErrorHandler` that
differ only in how a value is moved); OpenSSL and PSA inside, whose answer is that of ideal
cryptography; the contents of queue messages and what thread parameters point to; reading
a pin, which has no caller; a serial driver, of which the repository has none. Of the errors of a
join only that of a thread joining itself is modelled, as the thread object is the only
one that knows the handle. Destroying
a mutex in use and concurrent `init()` calls are outside what the classes promise.
`decommissioned` and `loaded` callbacks are declared in the code and never called. Data
races on `commissioning_enabled_` and `hci_fd_` are modelled as accesses that see the old
or the new value, which is what the supported builds do with aligned words.
