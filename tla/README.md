# nrfdfu_ng: a TLA+ model of the BLE firmware update

`nrfdfu` sends a firmware package to a Nordic nRF5 device over Bluetooth LE.
Its own code is small (`dfu.c`, `ble.c`, `nrfdfu.c`, `manifest.c`, `zip.c`, ...);
below it lie the parts of BlueZ it carries along in `bluez/`: the ATT transport,
the GATT client and the main loop. All of it runs in one thread, one callback at
a time. What makes it hard is not parallelism but the order in which answers,
notifications, timers and hang-ups arrive, what a peer or a radio may leave out,
and what an earlier run of the program left in the device.

## 1. The system

| Part | Code | State | Operations | Correct means |
|---|---|---|---|---|
| Package transfer | `dfu.c` | bytes acknowledged (`send`), position in the block, size of the next object, static `dontResume`, retries | SELECT, CREATE, chunks, CHECKSUM, EXECUTE; resume, retransmit, retry | success only when the device executed the whole init packet and then the whole firmware; the client's count is the device's; retries can succeed |
| Requests over the control point | `ble.c` | `notify_waiting_for_op`, `notify_code`, `notify_buf` | `ble_wait_setup`, `ble_send_cp`, `ble_wait_run`, `ble_register_notify`, `disconnect_cb` | an answer belongs to the request it is returned for; nothing is left over that ends a later wait; every wait ends |
| Connection | `ble.c` | handles found by discovery, MTU | `ble_open`, `ble_close`, scanning for the bootloader's address | the handles are those of the DFU service; nothing outlives `ble_close` |
| Main loop | `bluez/mainloop.c` | `epoll_terminate`, `exit_status`, `fatalError_`, fd table, timers | `mainloop_run`, `mainloop_quit`, `mainloop_exit_*`, add/modify/remove | a run waits unless there is a reason not to; after a fatal error none waits |
| Socket and timer glue | `bluez/io-mainloop.c`, `timeout-mainloop.c` | read, write and disconnect handlers, the epoll mask | `io_callback`, `io_set_*_handler`, `io_shutdown` | a handler that is set is called; none after it was removed |
| ATT transport | `bluez/att.c` | request, indication and write queues, the pending operations, `in_req`, `writer_active` | send, cancel, `can_read_data`, `can_write_data`, timeout, disconnect | one request at a time, in order, each callback at most once and with its own answer, nothing forgotten |
| GATT client: notifications | `bluez/gatt-client.c` | per characteristic: `notify_count`, `ccc_write_id`, `reg_notify_queue`; per registration: `att_id`, `ref_count` | register, unregister, `enable_ccc_callback`, `notify_cb`, Service Changed | notifications are enabled on the device while somebody is registered; every registration is told |
| GATT client: writes | `bluez/gatt-client.c` | `long_write_queue`, `in_long_write`, `pending_requests` | write, long write, reliable write, cancel, execute | the device has one prepare queue: two long writes never mix in it |
| Discovery | `bluez/gatt-client.c`, `gatt-helpers.c` | `discovery_op`: pending services and characteristics, handles | primary, secondary, included services, characteristics, descriptors | it ends, and the database is the device's |
| GATT database | `bluez/gatt-db.c` | services ordered by handle range | insert, remove, clear, claim, find | ranges stay disjoint and ordered |
| Queue | `bluez/queue.c` | linked list with reference-counted entries | push, pop, remove, foreach | a walk survives what its callback removes |
| Package file | `zip.c`, `manifest.c` | the manifest's text, file buffers | `parse_manifest`, `fake_parser`, `read_file_from_zip` | the image found is the one asked for, with its own files |
| Session | `nrfdfu.c`, `libnrfdfu.c`, `example.c` | options, the images of the package | main, update | SoftDevice and bootloader, then bootloader, then application; stop at the first failure |
| Checksum | `crc32.c` | none | `crc32_compute` | detects what the transfer relies on it to detect |

How they interact: `dfu()` asks `ble.c` for one request at a time. `ble.c` queues
a write with the GATT client and runs the main loop; the GATT client puts it in
the ATT transport's queue; the transport gets the socket from the main loop
through `io-mainloop.c`. Answers travel back as callbacks, and a callback of
`ble.c` ends the run of the main loop by a global flag. `ble.c` therefore learns
that *something* ended the run, never what; that is the seam where the layers
can disagree.

What is hard, with its line, is the list `hazards` of `PROJECT.json`.

## 2. Modules

```
  Update  <------------- Dfu  <-- DfuSend  <-- Peripheral (external)
   (implemented by)       |          |
                          |   the outcomes of a request: Fails, Answered
  Request <------------- BleWait                    Dfu, BleWait, Att, GattNotify, MainLoop,
   (implemented by)       |                        Queue, Discovery --> *Proofs
                          |   a queue, a pending request, a timer, a hang-up
                         Att
                          |   a handler that is set is called; a timer rings
                       MainLoop

  GattNotify, Discovery: the GATT client between BleWait and Att, each on its own
  WalkedList <-- Queue   the lists all of bluez/ keeps  (implements WalkedList)
  Session: one run of the program, where Dfu is one step per image
  Crc: the checksum, evaluated with Dfu's constants
```

**Peripheral** is the nRF5 bootloader, which is not in this repository: one
object per type, with the bytes received (`off`) and executed (`exOff`) and the
length of the open object (`size`). It is what `dfu.c` relies on. Contents are
one bit: are the bytes the first `off` bytes of the package being sent? A CRC
matches exactly when they are, so collisions are left out. A bootloader may
refuse a data object shorter than a block (`StrictSizes`): the comment at
`dfu.c:178` says that it "seems to fail".

**DfuSend** is `dfuSendPackage()`. Each request (`ble_wait_setup`, `ble_send_cp`,
`ble_wait_run` and the look at the code) is one action, since the bootloader
does nothing unless asked; each chunk is one action, which may arrive, be lost
or be corrupted. Chunks are applied when they are queued: they leave before the
request queued behind them, which is what `OnlyRequestsOvertaken` of Att shows.
A request ends in one of five ways: answered; the link is lost, with the effect
or without (`Disconnected`); the write is rejected and the main loop is dead
while the link is up (`WriteRejected`); the bootloader reports a failure though
it had no reason (`Faulty`, which spends one of `MaxFaults`); or it refuses with
reason (`Refused`). Or it does not end: the peer acknowledges the write and then
keeps silent (`conn` is "silent"), and only the loss of the link ends the wait. `transferSize`, `send` and `idx` are the C variables of
`dfuSendPackage` (`idx` is `currentBlockIndex`).

**Dfu** adds `dfu()`: open, the buttonless switch into the bootloader, the
retry loop with its `int8_t` count, and a program that is killed at any point
and started again (`RunAgain`) while the device keeps its objects, keeps only
what was executed, or forgets everything. A registration that is refused makes
`dfu()` return (`RegisterFails`); one during which the link is lost does not
(`RegisterAborts`): `ble_close` then fails the assertion of `gatt-client.c:2991`,
which GattNotify shows under `UnregisterEarly`, and the process ends.

**Update** is what all that promises: firmware is installed front to back behind
an accepted init packet, and success is reported only when all of it is there.

**BleWait** opens the request that DfuSend takes for one step: registering for
notifications, the two runs of the main loop per request, `epoll_terminate`,
`exit_status` and `fatalError_`, the ATT queue and its timer, and a peer that
sends the write response and the notification in either order, late, or not at
all. PDUs still to be sent and PDUs sent but unread are one set (`owed`), for
the hang-up is handled first and drops what has not been read.

**Request** is what `dfu.c` may rely on: an answer is to this request and means
that the bootloader served it; without an answer the connection is of no more
use. Its outcomes are the ones DfuSend uses, so BleWait justifies DfuSend.

**Att** is the transport: both queues, the pending request, the callbacks that
may queue the next operation, cancelling, the write handler that must be set
whenever something can be sent, the timer, the hang-up, and a peer that follows
the protocol, with requests and indications of its own. `prog` says whether the
program is outside the main loop, sleeping, or in it.

**MainLoop** is what Att takes for granted: that a handler that is set is called
and that a timer rings. `mainloop.c` numbers its table by descriptor, and the
system hands out the lowest free one; a timer's id is its descriptor; the epoll
set holds addresses of table entries that are allocated and freed; and a batch of
events is handed out one after the other while the callbacks change all of this.
The state is just that (`k`: open files, `mainloop_list`, entries, epoll set),
under the program's use of it: updates, connections, requests with their timers,
`ble_close` before or after the hang-up, the second `ble_init` of `dfu()`. Entry
places are reused, so a stale event may meet a new entry. Using an entry after it
was freed is undefined: the model ends there or goes on as if nothing had been
called. The sockets of `crypto.c` stand as one descriptor that may be missing,
`MAX_EPOLL_EVENTS` is never reached by one connection, the socket is always
writable, and descriptors start at 1 for standard input is 0.

**Queue** is `queue.c`: entries with links and reference counts, and
`queue_foreach` as one step per call of its function, between which that function
may do anything to the queue. A walk keeps the entry it is at, also when that is
removed, with the link it had, but nothing keeps what the link leads to. So a
callback that has removed its own entry should leave the next one alone while others
stay, and not push where the old link does not lead; `heedful` says whether the
callbacks of the walk did so far (`MindsRemoval`, `MindsPush`). When they did not, the
walk can use a freed entry; the model ends there (`freed`, `LeftOpen`). The only
list of this program that changes under a walk is `notify_list` with its two
registrations: a callback that removes both leaves the list empty, and then the
walk ends by its look at `queue->head`. **WalkedList** is the promise: a sequence,
and a walk that visits once and in order what lies ahead of it, what is put there
meanwhile included. It is made for walks whose callbacks are heedful.
What the code does in loops, following links and removing until nothing matches,
is `Repeated`: a function applied a number of times.

**Crc** is `crc32_compute` on sets of bit positions, with the division of
polynomials it stands for. `MCDfu` assumes three facts of it, which TLC
evaluates: it computes the remainder, it can be continued, and short contents of
one length that differ have different checksums.

**GattNotify** is the registration for the notifications of one characteristic,
whose CCC descriptor all registrations share: `count`, `waiting` and `cccWrite`
are `notify_count`, `reg_notify_queue` and `ccc_write_id`. `inFlight` is the same
write as the transport has it; the two may differ, since a hang-up or a timeout
drops the one and leaves the other. Assertions set `aborted`. How the callers
behave is a constant: `UnregisterEarly` lets them unregister before they were
told how their registration ended, as `ble_close` may; `RegisterLate` lets them
register while notifications are being disabled. Service Changed removes all of
it, nobody is told, and a write that is under way becomes `stale`: its callback
would read a `notify_chrc` that is freed, and there the model ends (`aborted` is
"freed"). BleWait has the one registration of this program in more detail.

**Discovery** is how the client fills its database and keeps it up to date.
`op`, `proc` and `db` are `struct discovery_op`, the procedure of `gatt-helpers.c`
that is under way, and the services of `gatt-db.c`. One action is one answer of
the device with everything the client does with it: a page of any size, from the
device's table of that moment, so a table that changes between two answers gives
pages of two tables. Attributes are kinds (service, included service,
characteristic, value, descriptor, the value of Service Changed) at handles;
UUIDs and values are left out. The device's tables are any that conform
(`TablesAssumption`): services do not overlap, a service starts with its declaration, a
characteristic is followed by its value, included services come first and descriptors
behind a value; handles between two attributes may be empty (a gap).
On a hang-up a repeated discovery clears the range it was about, and the first one keeps
what it has found, for `exchange_mtu_cb` has set `op->success` before. The guards of the code against answers that do
not fit (a descriptor that clashes, a service in the place of another, handles
out of order) are there and fail as the code does. A request is refused at most once.

**Session** is one run of the program over a package: `manifest.c` searches the
manifest as text, and the model keeps just that, a sequence of strings with the
words that occur in them.

The names of actions and variables are those of the code where TLA+ allows it;
`map` in `PROJECT.json` gives the lines of each definition. Operators marked
*Mutant* in a module are wrong on purpose: each is a plausible bug, and shows
that a property would notice it.

## 3. What the runs check

| Run | Module, configuration | Shows |
|---|---|---|
| `dfu` | `MCDfu`, `MCDfu.cfg` | everything DfuSend and Dfu claim, over resumed, retransmitted, repeated and killed transfers |
| `dfu_retransmission` | `MCDfuRetransmit.cfg` | finding: the object made for a retransmission has the wrong size |
| `dfu_retry_count` | `MCDfuRetries.cfg` | finding: `-c 127` makes no attempt |
| `wait` | `MCBleWait`, `MCBleWait.cfg` | requests and answers are paired, nothing is left over, waits end |
| `att` | `MCAtt`, `MCAtt.cfg` | the transport keeps order, pairs answers, forgets nothing |
| `mainloop` | `MCMainLoop`, `MCMainLoop.cfg` | table, entries, epoll set and descriptors agree; a request has its own timer and ends; only a timer's event outlives its entry |
| `queue` | `MCQueue`, `MCQueue.cfg` | links, tail, count and references agree inside of walks too; a freed entry is used only where a callback did not mind its removed entry's link; without such callbacks Queue implements WalkedList |
| `notify` | `MCGattNotify`, `MCGattNotify.cfg` | who registered has notifications enabled, is counted, is told, is not forgotten; no assertion fails; a Service Changed does harm only when it overtakes a write |
| `notify_early` | `MCGattNotifyEarly.cfg` | finding: unregistering before the answer fails an assertion |
| `discovery` | `MCDiscovery`, `MCDiscovery.cfg` | the database is the device's table whenever the client is at rest, but for what lies behind a gap, and it comes to rest |
| `discovery_deaf` | `MCDiscoveryWide.cfg` | finding: after two changes of all handles the client no longer listens for changes |
| `session` | `MCSession`, `MCSession.cfg` | finding: of a package with several images one image's files are sent for all |

### Bounds

*dfu*: an init packet of 3 bytes in one object of at most 4; a firmware of 7
bytes in blocks of 3, so two full blocks and a short one; chunks of 2, so a
full chunk and a cut one per block; foreign leftovers of 2, 6 and 9 bytes: inside
a block, on a block boundary, longer than the package. Two faults reach every
combination of two places at which a transfer can go wrong, two runs of the
program every state it can be started from. The proofs have none of these
bounds.

*wait*: two op codes and four requests, so that one op code can be asked twice
in a row and again with another one in between. The state a request leaves does
not depend on how many came before it; the proofs confirm it for any number.

*att*: three operations of the program and its callbacks, two PDUs of the peer:
a command on either side of a request, a request behind a pending one, a
cancelled request whose answer comes when the next one is pending, an indication
or a request of the peer in the midst of it.

*notify*: four registrations, so that one writes the CCC, two wait behind it (of
which the first may fail and pass the turn on) and one comes after; two changes of the
service. Callers neither unregister before they were told nor register while
notifications are being disabled.

*mainloop*: a process with seven descriptors and a table of six, two updates and
three connections of two requests each. An update keeps two descriptors for ever,
so the second one meets the end of the table, for a socket and for a timer, and
the end of the process's descriptors. Three entry places suffice, for the table
never holds more than a socket and one timer, and one more may be freed and still
be in the batch. The limits of the code (128 and about 1024) are met only in a
process that keeps calling the library.

*queue*: four elements and five entries: a callback can remove its own entry and
the one behind it, while others stay in front and behind, and the removed entry
is still held; and it can be put in again, at the address of the one that the
held link leads to.

*discovery*: nine tables of up to 13 handles: devices without Service Changed, one
of them with a gap before its last service, which ends its discovery; the DFU service
alone, with room behind it, with another service behind it; a service with a gap
behind a value; a secondary service, which another one includes; services that end
where it ended.
Between two changes the GATT service itself stays. Three changes, so that two
queue behind the one being discovered. In this run no change has Service
Changed itself in its range (`Wide = FALSE`): it is indicated with the range that differs.

*session*: a package with an application, and one with two images.

*crc*: contents of up to three bytes with no bit, one, four and all bits set; and
the check value of the standard.

### Fairness

`Dfu!FairSpec` has weak fairness of the program's next step while the peer is not
silent: the program is sequential, and what it asks is answered, fails or loses
the link. Nothing is assumed of a silent peer, nor that the link breaks. `Returns`
has three exceptions, each of them necessary (without it TLC finds the property
violated): the silent peer of `mainloop.c:149`, the loop of `dfu.c:205` that counts
nothing (next section), and the assertion that ends the process when the link is lost
while the registration waits. `BleWait!FairSpec` is fair to what the
main loop does with what is ready: a run that was ended returns, the queue is
sent, a hang-up is handled, the ATT timer fires. It is not fair to the peer.
`WaitReturns` names the one case nothing bounds: a peer that acknowledges the
write, keeps the link and never sends the notification. `Att!FairSpec` is fair to
the handlers of the main loop, and strongly to `Run`: the program may queue,
cancel and sleep in between, but comes back to the main loop.
`GattNotify!FairSpec` is fair to the callbacks, the timer of the transport and
the hang-up, not to the device. `Discovery!FairSpec` assumes that a request ends:
the device answers it or the ATT timer ends the link, which `Att` shows
(`EverythingSettles`); and that indications that have arrived are read.
`MainLoop!FairSpec` is fair to the main loop, to the program, which comes back to
it or ends the connection, and to time; strongly to `ble_close` after a fatal
error, for `dfu()` tries a bounded number of times. It is not fair to the peer.

### Deadlock

Only `queue` checks for deadlock: a walk can always go on, up to the use of a freed
entry, where nothing more is said (`LeftOpen`). Everywhere else the
system may really stop: the program ends, the transfer is over, the link is
gone and nobody calls any more. What must not stop is stated as liveness
(`Returns`, `WaitReturns`, `EverythingSettles`, `EveryoneTold`, `InitEnds`, `CatchesUp`,
`RequestEnds`).

### Findings

* **`RetransmissionFits`** (`dfu.c:316-319`). After a CRC error the code says it
  "will now retransmit the data", from the start of the block, but sizes the new
  object by `packageDataLength - returnedOffset`, where `returnedOffset` is the
  position after the block. In the last blocks the object is too small for what
  is sent into it; the bootloader drops the chunks that do not fit, and
  the retransmission does not help. When not even the first chunk fits, the same
  thing repeats and nothing counts the rounds. `SuccessMeansInstalled` and `InStep` still
  hold: the transfer fails or hangs, it does not corrupt.
* **`RetriesHonoured`** (`dfu.c:354`). `int8_t maxRetries = retryCount + 1`: from
  127 on the count is negative, no attempt is made and the program reports too
  many retries.
* **`NeverAborts`** under `UnregisterEarly` (`gatt-client.c:2991`).
  `complete_unregister_notify` says "If a procedure to enable the CCC is still
  pending, then cancel it and return" and does it, but its only caller asserts
  before that nothing is pending. `ble_close` unregisters whenever `notify_id` is
  set, so a link lost while `ble_register_notify` waits ends in the assertion.
* **`ListensAgain`** under `Wide` (`gatt-client.c:1134`). A change whose range has Service
  Changed itself in it, as one of all handles, removes the handler with its service. With a
  second event queued it is not registered again, and the second event's range decides
  whether it ever is. A deaf client's database grows stale, so `MirrorsDevice` fails with it;
  without such a range both are proved (section 4).
* **`SentAsPackaged`** (`manifest.c:44`). `fake_parser` finds the image anywhere in the
  manifest and then the first `dat_file` and `bin_file` of the whole manifest;
  "bootloader" is found in "softdevice_bootloader". The signature check of the
  bootloader is what stops the wrong image.

Stated in the property instead of a run of its own:

* The comment at `gatt-client.c:797` promises to "discover descriptors for each
  characteristic and insert the characteristics into the database as we proceed". When
  the handles behind a characteristic's value hold no descriptor, `discover_descs_cb`
  (`gatt-client.c:655`) goes to the next service and leaves the service's other
  characteristics out, although it activates it. `MirrorsDevice` and `ActiveIsComplete`
  therefore allow a service to be cut at such a gap (`CutAtGap`), and nowhere else. The
  run has tables with a gap, in which both fail without that exception. The same
  function called for the last service of a database without Service Changed fails the
  discovery, which makes the client not ready rather than incomplete.

Observed on the way, with no statement in the repository to hold against it:

* With `RegisterLate`, `NobodyForgotten` does not hold (`gatt-client.c:1483`): after a
  disabling write, `disable_ccc_callback` pops the registration that waits but
  writes the CCC in the name of the one that has left. `ble.c` registers once.
* A Service Changed that arrives during a CCC write frees the `notify_chrc` that
  the write's callback reads (`gatt-client.c:1178`), and drops a registration that
  waits from two lists which hold one reference. `NeverAborts` allows just that.
  A change at any other time leaves `ble.c` with a registration that is gone: its
  next request waits like one whose notification never comes.
* The answer to a request frees its timer's entry; when the timer's event is in the
  same batch, `mainloop_run` calls through freed memory (`OnlyTimersStale` says that
  nothing else can be stale). It takes an answer and an expired timer at one
  wake-up, that is a process that was stopped for 30 seconds.
* `open_zip` does not close the package and `dfu()` calls `ble_init` twice
  (`dfu.c:381`), each of which costs a descriptor per update. When those below 128
  have run out, connections are refused and requests have no timer (`TimerPerRequest`).
* `queue_foreach` follows the link of an entry that its callback removed. With three
  registrations, one callback that removes its own and the next one would end in
  freed memory; the run `queue` reaches it (`QueueOK`, `MindsRemoval`).
* `timeout_set` turns milliseconds into nanoseconds by a factor of 1000 (`mainloop.c:320`).
  All timeouts here are whole seconds.
* The `sleep(1)` of `dfu.c:240` does not let the short block go out: the chunks are
  queued and the main loop does not run. It does no harm, for the queue keeps
  its order (`OnlyRequestsOvertaken`).
* `process_service_changed` removes services before it discovers them again. When
  that fails, which a second change can bring about without an error of the
  device, nothing tries again; `MirrorsDevice` claims then only that what is in the
  database is right.
* A manifest with a SoftDevice alone is taken for one without images: the
  program succeeds and sends nothing.
* A key that is missing leaves the file name of the search before (`Session!parse_value`).

## 4. What is proved

`DfuProofs`, `DfuRetryProofs`, `BleWaitProofs`, `GattNotifyProofs`, `AttProofs`,
`MainLoopProofs`, `QueueProofs` and `DiscoveryProofs` prove, for every value of the constants:

| Theorem | Establishes |
|---|---|
| `DfuProofs!TypeCorrect` | `Spec => []TypeOK` |
| `SuccessIsInstalled` | `Spec => []SuccessMeansInstalled` |
| `InitBeforeData` | `Spec => []DataAfterInit` |
| `ClientInStep` | `Spec => []InStep` |
| `OnlyVerifiedExecuted` | the action property `ExecutedIsVerified` |
| `UpdateImplemented` | `Dfu` implements `Update` |
| `DfuRetryProofs!EveryFailureIsPaidFor` | `Spec => []AttemptsSuffice` |
| `BleWaitProofs!TypeCorrect` | `Spec => []TypeOK` |
| `AnswerIsOwn` | `Spec => []OwnAnswer` |
| `NothingLeftOver` | `Spec => []NoLeftovers` |
| `SilenceIsTheEnd` | `Spec => []SilenceIsFinal` |
| `RequestImplemented` | `BleWait` implements `Request` |
| `GattNotifyProofs!TypeCorrect` | `Spec => []TypeOK` |
| `AssertionsHold` | `Spec => []NeverAborts` |
| `ServedHaveNotifications` | `Spec => []EnabledWhileServed` |
| `CountCorrect` | `Spec => []CountIsServed` |
| `NoneForgotten` | `Spec => []NobodyForgotten` |
| `AttProofs!TypeCorrect` | `Spec => []TypeOK` |
| `InOrder` | `Spec => []OnlyRequestsOvertaken` |
| `OneAtATime` | `Spec => []OneRequestAtATime` |
| `NeverBlamed` | `Spec => []PeerNotBlamed` |
| `WriterAwake` | `Spec => []NoLostWakeup` |
| `FatesAreFinal` | the action property `FateIsFinal` |
| `MainLoopProofs!TypeCorrect` | `Spec => []TypeOK` |
| `TablesAlwaysAgree` | `Spec => []TablesAgree` |
| `OneTimerPerRequest` | `Spec => []TimerPerRequest` |
| `StaleOnlyForTimers` | `Spec => []OnlyTimersStale` |
| `NeverGivenUpEarly` | the action property `GivenUpInTime` |
| `QueueProofs!LinksAlwaysAgree` | `Spec => []QueueOK`, for any callbacks |
| `WalkKeepsItsPromise` | `Queue` implements `WalkedList` while the callbacks mind the link |
| `DiscoveryProofs!TypeCorrect` | `Spec => []TypeOK` |
| `DatabaseMirrorsDevice` | `Spec => []MirrorsDevice`, if `NoGaps` and not `Wide` |
| `ActiveServicesComplete` | `Spec => []ActiveIsComplete`, if `NoGaps` |
| `ListensForChanges` | `Spec => []ListensAgain`, if not `Wide` |

*Assumptions.* `SizesAssumption`: packages, blocks and chunks are not empty (an
empty package and a block size of 0 are hazards of their own, without a check in
the code). `InitFitsAssumption`: an init packet fits one object; a second CREATE
would start the update over. `RunsAssumption` and `WaitAssumption` only give the
types of bounds; `NoOp` is not an op code. The theorems of GattNotifyProofs assume
`~UnregisterEarly` and `~RegisterLate`: with the first the assertion fails
(`notify_early`), with the second a registration is forgotten. `MainLoopAssumption`
types the bounds and keeps 0 out of `Places`: it is the NULL of `mainloop_list`.
`QueueAssumption`: the elements and the entries are finitely many. `TablesAssumption`: the
device's tables conform, as the Bluetooth specification asks of every device; the code's guards
against others are modelled but nothing is claimed of what they keep out. Two hypotheses stand
in the theorems of Discovery that need them, for without them they are false (section 3):
`NoGaps`, no handle between a service's attributes is empty; and `~Wide`, no change is
indicated with a range that has Service Changed itself in it. The types need neither.

*Dfu.* None of the properties is inductive. `IInv` adds three parts to the type.
*Stored* is the bootloader's bookkeeping: no more is executed than was received,
and if the received bytes are the package's then so are the executed ones.
*Believed* is what the client may conclude at each place of `dfuSendPackage`: where
EXECUTE is due, the received bytes are the package's and `send` is their number;
where CREATE is due and while a block is streamed, the same holds of the executed
bytes. *Order* says when the init packet has to be on the device: whenever the
firmware is sent, and once `done` is set. The step that needs all three is a
resumed EXECUTE, where the only thing known about the object is its checksum.

*Retries.* `AttemptsSuffice` counts: an attempt that fails while the link is up has
cost a fault, or it set `dontResume`, which nothing resets. `Allowance` is what these
pay for. `Budget` says that the attempts made so far are within it, and that the one
under way is either paid for already or `Undisturbed`: no fault has touched it, so the
bootloader's object has the size the client will fill (`Regular`) and holds what was
streamed, and a request that fails now takes a fault. What has to be excluded is a
refusal with reason in an undisturbed attempt, and a leftover that is met again after
the flag was set: the init packet was sent afresh by then, and creating its object
dropped the firmware's.

*BleWait.* `InFlight` counts events: at each place of the two runs of the main loop
it says exactly what is queued, what is pending and which PDUs can still arrive,
and that all of them belong to the current request. `Past` says what the last
request left behind. From both, a notification with the right op code can only
be this request's, and the second run ends with nothing left.

*GattNotify.* None of the properties is inductive: whether a callback's assertion
holds depends on what the transport still has. `Writes` says that the write on
record is the one in the transport that is not stale, and that nobody is served
while there is one; `Waits` that who waits is listed once, behind an enabling write
that is another's, and that nobody listed is in neither place; `Stales` that behind
a stale write nothing is answered, and nobody is served by the descriptor it was
for. The count of those who waited is `DistinctCount`: a sequence without
repetition has as many members as it is long.

*Att.* `QueueOrder` compares identities, which are given in the order of queueing:
both queues are sorted, what was sent is older than everything in the write queue,
and sent requests are older than every queued one. `OnlyRequestsOvertaken` follows
at the step that sends. `Alive` says that what is queued or has a callback is
open, and that the two are disjoint for writes: so each step that decides an
outcome decides it once. `Pairing` says that what the peer owes, or what it has
answered and nobody has read, belongs to the one pending request; a cancelled
request stays pending, and that is what the step of `handle_rsp` needs. `PeerOrder`
follows the peer's own request from its arrival over `in_req` to the response in the
write queue. `NoLostWakeup` is inductive as it stands, given `wakeup_writer`.
`RemoveAt`, `Head` and `Tail` enter through the lemmas `Removed` and `HeadAndTail`,
stated over the set of a queue's elements.

*MainLoop.* `Linked` says of the tables alone that list, entries, epoll set and files
agree; every operation of `mainloop.c` keeps it, and `mainloop_init`, which clears the
list without freeing what it holds, does because it is called only when the table is
`Empty`. That needs `Connection`: a file of the main loop belongs to the connection or
to the pending request. The batch is the difficult part, since an entry that is freed
may be allocated again, for the next request's timer and with the same descriptor,
while the batch still holds the event of the old one. `RequestIds` orders the requests:
what is queued is numbered from `Oldest` on, the pending request is older. `Fetched`
says that a timer's event belongs to a request older than `Oldest`, that its address
is never the socket's, and that the socket's event is the only one of its kind and
gone from the batch while `io_callback` runs. So a new timer, whose request is
`Oldest`, is never the one a stale event was for, and `OnlyTimersStale` is inductive
together with them. For `NeverGivenUpEarly` the entry at the event's address decides:
`TimerPerRequest` says that it is the pending request's, and `timeout_callback` gives
up only after the read of its descriptor found an expiration.

*Queue.* The invariant is about a sequence, of which there is one in every state:
`Inv(s)` says that the links from the head lead through the entries of `s`, that these
differ, and that tail and count are its end and its length (`Shape`); that an entry has
one reference for being in `s` and one for being held by the walk (`Counted`); that
entries in use have elements of their own (`Named`); and that the link of a removed
entry that is held leads into `s` or ends, unless `s` is empty (`Leads`). All but `Leads` holds
whatever the callbacks do (`Base`): a walk that follows its link meets an entry of the list, or
its end, or one without references, and that is the use of a freed entry. `Leads` is
what `MindsRemoval` and `MindsPush` keep, so it holds while the walk is `heedful`, and
with it the walk stays in the list. When the walk ends there is no link left to mind.
`ChainIs` shows that following the links gives `s`. Every insertion is one of `Put` at
a place, every removal one of `Without` a place (`Linked` and `Unlinked` say how the
links change), and `RemoveMatching`, a loop in the code, removes all that matches by
induction over its rounds. The principle of induction is had from the well-foundedness
of the numbers, stated for sets (`SetInduction`, `RepeatedInduction`), since the
library's theorem takes an operator.

For the refinement, what lies ahead of a walk is `Rest(s, k)`, the list from one of its
places on (`GoesOn`), whether the walk holds an entry of the list or a removed one. The
steps then are about sequences: a removal takes the same entries out of the list and
out of its rest; an insertion at place `p` is one into the rest exactly if `p` lies
ahead (`LiesAhead`, `RestOfPut`), which is where appending, inserting in front and
inserting behind an element differ; and a step of the walk takes the rest's head. `queue_new`
changes nothing that WalkedList sees.

*Discovery.* `IInv` has three layers, each a conjunct proved for every step with the help of
the ones before it. *Shape* is what holds whatever the device answers: types, and for the
procedure under way that the services it works through are in the database, start in their
order and at different handles, and that what was found lies ordered behind what was asked
for. That alone gives `TypeOK`, and that `Service` always has something to choose.

*Listening* is about the handles of the service that has Service Changed. While nothing that
is due touches them, whatever the client stores about Service Changed, in the database,
among the characteristics still to be added or in what was found, lies on them; so a
discovery after the first can neither remove the handler nor find another one.

*Meaning* relates the database to the device's table of the moment, although answers of
several tables mix in it. What the client will still learn of is `Due`, the queued ranges and
the unread indications; a service that none of them overlaps is `Clear`, and only of those
anything is said. `Agree`: a clear service of the database is one of the device's, and has just
its declaration (`New`), the attributes before its characteristics (`BegunOnes`), or all of
them, by where the discovery stands; the one being filled (`Open`) has the beginning of the
layout, and `Lacks` says that the characteristics still in `op` are just those that it lacks,
each with the handles up to the next one. `FoundAll` says that what a procedure has found is
what there is of it up to the place it has come to, and `KnownOrAhead` that every clear service
is in the database or still ahead. `NotOf` is needed since the code leaves characteristics
behind (`gatt-client.c:655`, and when another table's answers came in between): they are not
those of a service that follows. Ranges need not end where a service does, when a table has
changed twice; `AllAligned` says that whatever cuts through a service is followed by a range
that contains it, so that no clear service is ever half removed. A change then only has to
touch services inside its own range (`Altered`), which is appended to `Due` in the same step: what
was clear and still is, is as it was. At rest `Due` is empty, so every service is clear, and
`MirrorsDevice` is what `Agree` and `KnownOrAhead` say. `ActiveIsComplete` is about the first
discovery: services that are still in a list are not active (`NotActiveYet`), and the one that
is activated lacks nothing, for without gaps the answers only end where the layout does.

*Only model-checked.* All liveness, which is beyond the prover; Session, a short sequential
program whose claim is violated; Crc, over samples, for what it computes recurs over the data.

## 5. What is not modelled

* Output, allocation, hexdump and option parsing: no state a property is about.
* `crypto.c` and signed writes: the program never sets a signing key.
* UUID arithmetic and byte order: conversions that only compare.
* Bonding, security elevation and the kernel's L2CAP: outside of this repository.
* The contents of packages: only whether the bytes are the package's.
* GattNotify: callbacks that call the client again, which `ble.c` has none of, and
  freeing the client, which `ble_close` does outside of the main loop and with the
  transport.
* MainLoop: signals and `mainloop_modify_timeout`, which are never called.
* Long and reliable writes, reading, and the server side of `gatt-db.c` and `att.c`:
  this program calls none of it.
* Discovery: the correction for devices that answer 0xffff as the end of a group, 128 bit UUIDs of
  included services, and changes that remove the characteristic whose CCC is
  being written at that moment.
* Session: the read buffer of `zip.c`, file names longer than 63 bytes, the address
  that `dfu()` leaves behind, the waits between images.

## 6. Plan

Done, in this order: Peripheral, DfuSend, Dfu, Update, their proofs; Request,
BleWait, their proofs; Att; GattNotify; Discovery; Session; MainLoop; Queue and
WalkedList; Service Changed in GattNotify and the proofs of GattNotify; Crc; the
proofs of Att; the proofs of MainLoop; the retries of Dfu; the proofs of Queue, with
its refinement; the proofs of Discovery. Every safety invariant that a passing run checks
is a theorem now.

What could follow:

1. An abstract specification of Discovery (a database that becomes the device's table) with
   the invariant above as its refinement.
2. `MirrorsDevice` with `Wide`, for a client that still listens: today's claim ends where
   Service Changed itself is in a range.
3. Composing GattNotify with Att, so that what is `inFlight` is a request of Att, and the two
   proofs meet in one invariant as those of BleWait and Dfu do in Request.
