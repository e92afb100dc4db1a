# Verification of the hawkBit + MQTT FOTA application

TLA+ models of the device application in this repository, checked with TLC and,
for the results that matter most, proved with TLAPS for every value of the
constants. Paths below are those of the repository; `hawkbit.c` is
`src/lib/hawkbit.c`.

## 1. The system

The application runs on Zephyr. One thread (main) starts the services and then
runs the application's work queue for ever. The services are delayed works that
resubmit themselves. A second thread, the network RX thread, runs the HTTP and
MQTT callbacks; a third, the network management thread, runs the interface
callbacks; the clock interrupt runs expired timeouts. A Bluetooth disconnect
reboots the device from whatever thread reports it.

| Component | State | Operations | Interacts with |
|---|---|---|---|
| hawkBit client (`hawkbit.c`) | `failures`, `json_acid`, `poll_sleep`, the pair of action ids on flash; `tcp_buffer`, `url_buffer`, `status_buffer` and `http_req`, shared by all requests | `hawkbit_init_flash`, `hawkbit_work_fn`, `hawkbit_ddi_poll` and the calls it makes | server (HTTP), flash, boot loader, work queue |
| Firmware download (`hawkbit_install_update`, `install_update_cb`) | `hbc->dl`, `hbc->sem`, `last_offset`, `dfu_ctx`, slot 1 | erase, request, wait, checks; callback: erase sectors, write, give | RX thread, flash |
| Flash and boot loader (external) | slots 0 and 1 and their trailers, application-state partition | erase, write, confirm, request upgrade; swap at reset | hawkBit client |
| Work queue (`app_work_queue.c`, Zephyr's `k_work`) | queue, pending bits, timeouts | submit, submit delayed, run | all services |
| Start-up (`main.c`, `hawkbit_start`, `mqtt_temperature_start`, `blink_led_start`) | which service has started or subscribed | start, subscribe to the interface event | interface, work queue |
| MQTT temperature service (`mqtt_temperature.c`) | `failures`, `mqtt.connected`, `mqtt_wait_sem`, `tc_results` | connect loops, read sensors, publish, report tests, reboot | broker, RX thread, work queue |
| LED (`blink_led.c`), Bluetooth (`bluetooth.c`), product id (`lib/product_id.c`) | a pin, nothing, a number | blink; reboot on disconnect; read | work queue, reset |
| Roll-out script (`scripts/hawkbit.py`), build files | none on the device | | hawkBit server |

What is hard, and what makes each part correct:

- **Resets between any two steps** of the client: the two ids are erased and
  rewritten in place, in another order than the trailers change. The device
  must always boot, must not report a success it cannot vouch for, and must not
  try an update for ever.
- **Lost requests and answers, repeated polls**: every final feedback may be
  sent again, much later, and must still be true.
- **Two threads in a download**: the wait times out while the callback is between
  two blocks of a chunk; callbacks go on after an error or after the wait was
  given up. A return of 0 must mean that slot 1 holds the artifact, and a
  download that advances must not be given up.
- **Documents refused at different depths**: `json_obj_parse` fails before the id of
  a deployment is read, the checks of `hawkbit_parse_deployment` after it; the
  failure is reported of whatever id is there.
- **One queue for everything**: a service lives only by its own resubmission;
  timeouts, interface events and handlers submit the same work concurrently,
  and no result is looked at. No service may drop out or block the others.
- **Shared buffers**: the base resource, the configuration report, the
  deployment and the feedbacks of a poll go through one receive buffer, one URL
  buffer and one request structure, and parsed strings point into the receive
  buffer. No request may carry what belongs to another.
- **A connection whose end nobody reports**: `mqtt.connected` may be stale in
  both directions; the service must recover.

`PROJECT.json` lists each of these hazards at its line.

## 2. Modules

| Module | Models |
|---|---|
| `DeviceFlash` | what survives a reset, and MCUboot at a reset (external) |
| `Hawkbit` (extends `DeviceFlash`) | boot and poll of the client, with resets, faults and the server |
| `OtaContract` | abstract: what over-the-air update promises the operator; implemented by `Hawkbit` |
| `DdiPoll` | the requests of a poll, the buffers they share, the documents, the polling interval |
| `DdiSession` | abstract: the conversation hawkBit asks of a device; implemented by `DdiPoll` |
| `Download` | `hawkbit_install_update` against `install_update_cb`, data in units |
| `InstallContract` | abstract: what an install promises its caller; implemented by `Download` |
| `AppWorkQueue` | the queue, its works, and `k_delayed_work` (external) |
| `FotaMain` (extends `AppWorkQueue`) | start-up, handlers' resubmissions, interface events, resets |
| `ServiceContract` | abstract: what the work queue promises the services; implemented by `FotaMain` |
| `MqttTemperature` | the publishing work with its connection |
| `MCHawkbit`, `MCDdiPoll`, `MCDownload`, `MCFotaMain`, `MCMqttTemperature` | instances for TLC |
| `HawkbitProofs`, `HawkbitFaultProofs`, `DdiPollProofs`, `DownloadProofs`, `FotaMainProofs`, `MqttTemperatureProofs` | theorems |

How they fit. The client's poll is split by what its state is about: `Hawkbit`
has every step that touches flash, ids, the failure counter or the server's
view, and takes a request as one that arrives or is lost; `DdiPoll` has the
requests themselves, and leaves the decision that the ids on flash make
(`AcidCheck`) to choice. `Hawkbit` takes an installation as one step that
succeeds or fails (`InstallSucceeds`, `InstallFails`); `Download` opens that
step, and `InstallContract` is the interface between them: `Succeed` of the
contract is what `InstallSucceeds` relies on, its `Fail` leaves the slot in the
state `InstallFails` allows. `FotaMain` takes a handler as one or two steps;
`Hawkbit`, `DdiPoll` and `MqttTemperature` open them. `Hawkbit!InstallErase` is
the erase of the default build; the progressive one (`boot_request_erase`) is in
`Download` only.

### Correspondence

`Hawkbit`. `pc` is the place in `hawkbit_init_flash` and `hawkbit_ddi_poll`
where the next operation on flash or network is due, so that a reset may fall
between any two of them. `json_acid`, `failures`, `deployment_base` and
`device_acid` are the variables of that name. `PollReturn` is the part of
`hawkbit_work_fn` after the poll, and so part of every action that returns from
it. `server` is the server's view of each action. `last_flashed` is a history
variable. The ids are model values; the image that action `a` deploys is `a`.
Two kinds of deployments are refused however often they are read (`Refused`).
`Unfit` are those `hawkbit_parse_deployment` refuses, after it has read the id: no
chunk, one that is not "os", no artifact, one that is too big. `Unparsable` are
those `json_obj_parse` refuses before that: two chunks or two artifacts, for which
the arrays of `struct hawkbit_dep_res` have no room; `json_acid` then keeps the id
of an earlier poll. The fault "json" is a document that cannot be parsed this
time. The server may have several actions open (`Overlap`); which of them the base
resource links to is its choice at every poll.

`DdiPoll`. `pc` is the place in `hawkbit_ddi_poll` and the functions it calls;
`tcp_buffer`, `url_buffer`, `status_buffer`, `http_req`, `hawkbit_results` (the
union), `deployment_base`, `download_http` and `json_acid` are the variables of
these names, holding which document, resource, id or body the text stands for.
A string of a parsed document is a pointer: `Read` gives `Garbage` when the
buffer holds another text by then. `sent` is the request as `hawkbit_query`
builds it from structure and buffers, whether or not an answer comes. An
interval is the sequence of its characters, a digit or any other; `atoi_n` and
`hawkbit_time2sec` are functions of these. `offered` is a history variable.

`DeviceFlash`. An operation that reports an error may have done part of its
work: a failed erase has kept or lost the content, a failed write of the two ids
may have written the first. Reads do not fail (`hawkbit_device_acid_read`
ignores the result). A reset in the middle of a write leaves what a failed write
leaves; a swap is atomic, as MCUboot resumes an interrupted one. The image
MCUboot reverts to is not validated by it.

`Download`. `dl`, `sem` and `last_offset` are the fields of the context, `writer`
is `dfu_ctx`. Data is counted in units; a cell of slot 1 is `n` if it holds the
unit of download `n`. `flash_img_buffered_write` flushes a full buffer only when
more data follows (its comparison is strict) and flushes the rest at the end. The
callback is cut where the main thread can run in between: its begin (`Receive`),
each sector erased (`EraseSector`), each block written (`WriteBlock`), and what
follows the last block (`Written`: the rest is buffered, `downloaded_size` and the
status change, the semaphore is given). `chunk` is what is left of the chunk, and
`rx = "writing"` says that a block of it has been written. `seen` is a history
variable: what had been written when the main thread last began to wait.
A missing Content-Length reads as 0; the division by it ends the RX thread
(`rx = "dead"`) or does nothing harmful, whatever the CPU does: only a reset
follows. `Begin` needs the previous callback to have ended: the client had an
answer from the server in between, which that same thread delivered.

The mapping to `InstallContract`: an install is `installing` from its call to its
return, `installed` or `failed` by its result; `slot`, `wanted` and `size` are
slot 1, the unit of the download and `file_size`.

`AppWorkQueue`, `FotaMain`. A call of the kernel is one step: those on a delayed
work run with interrupts locked, timeouts run in the clock interrupt, and the
queue is the kernel's own. The one plain work, which is submitted in two steps (bit,
then queue), is submitted by the main thread only, which is also the one that
runs it (`mqtt_temperature.c:249`). `SubmitDelayed` has the three outcomes of
`k_delayed_work_submit_to_queue`: cancel and start again, start, or -EINVAL for
a work that was taken from the queue but whose bit is still set. `pc` and `work`
are the main thread in `main()` and `app_wq_run`. One event waits at a time for
the management thread; a second one merges with it. `Reset` is a reboot by a
handler or a Bluetooth disconnect. The mapping to `ServiceContract`: a work is
due when its timeout runs, or it is in the queue, or it was taken and its
handler has not begun; it runs from the call of its handler to its return.

`MqttTemperature`. One step per call that may fail or block. `tcp` is the truth
about the connection, `connected` what the client believes: `mqtt_close` does
not clear it and a broken connection is reported to nobody (the client registers
no callback for it). `good` says whether the network, broker and sensors are
well; calls fail only while they are not.

## 3. Runs

All runs end within a minute or two.

| Run | Properties | Result and what it shows |
|---|---|---|
| `hawkbit_faults` | `TypeOK`, `IInv`, `SlotZeroBootable`, `SuccessTruthful`, `ImplementsContract` | pass: three deployments, all faults |
| `hawkbit_wellformed` | `NotFlashedTwiceInARow`, `FailureTruthful`, `FeedbackForOffered`, `EveryActionCloses` | pass under `FairSpec`: overlapping deployments, one of them unfit, with lost messages and bad images, without resets and flash errors |
| `hawkbit_false_failure` | `FailureTruthful` | **violated** by one reset (finding 1) |
| `hawkbit_stale_id` | `FeedbackForOffered` | **violated** by an unparsable deployment after a lost feedback (finding 2) |
| `ddi_poll` | `TypeOK`, `IInv`, `StringsOutlived`, `IntervalFollowsServer`, `ImplementsSession`, `OfferedIsRead` | pass under `FairSpec`: poll after poll, two deployments, every document and interval, resets |
| `download_faults` | `TypeOK`, `DInv`, `OkMeansStored`, `ImplementsInstall`, `WokenForReason`, `NotGivenUpAfterWriting`, `DownloadEnds` | pass under `FairSpec`, slot erased as a whole, all faults |
| `download_progressive` | `DInv`, `FirstOkMeansStored`, `EraseNearSlot` | pass, progressive erase, an artifact that fills the slot, all faults |
| `download_second` | `OkMeansStored` | **violated** by a second progressive download (finding 3) |
| `download_given_up` | `NotGivenUpWhileWriting` | **violated** by a timeout between two blocks, with no fault at all (finding 4) |
| `main_queue` | `TypeOK`, `OneActivation`, `ChainAlive`, `ReportIsComplete`, `ImplementsServices`, `BlinkNeverStarves`, `StartedKeepsRunning` | pass under `FairSpec`, one reset, unbounded flapping |
| `main_lost_up` | `PublishesOnceUp` | **violated** by a lost event (finding 5) |
| `mqtt_runs` | `TypeOK`, `IInv`, `ResultTruthful`, `RebootIsEarned`, `PublishesInSession`, `HandlerEnds`, `PublishingRecovers` | pass under `FairSpec` |

Every property of a passing run has a mutant, a plausible slip in the code that
TLC must find with it; the mutated operators stand next to the ones they mutate.

### Bounds

- `hawkbit_*`: two or three action ids are enough for the deployed one, the one
  before it and one that is read by mistake; they are symmetric (the symmetry is
  used only where no liveness is checked). The two flash words, the slots and
  the statuses make the state finite, so resets, retries and polls are
  unbounded. `MaxServerFail` is the real 5 in `hawkbit_faults`, 2 or 3 elsewhere:
  both sides of the comparison occur.
- `ddi_poll`: two deployments, so that one can be taken for the other. The
  intervals are zero, below and above the poll interval, the largest, one too
  short, one too long, and three of eight characters in another form. Polls are
  unbounded.
- `download_*`: the code's sector, chunk and buffer (4096, 2048 and 512 bytes) are
  as 8 to 4 to 1, and so they are in `download_second` and `download_given_up`, with
  a slot of two sectors and an artifact that fills it. `download_progressive` has
  the same buffer and chunk with the smallest sector that holds both (5), so that
  every order of their boundaries occurs in a slot of two sectors with all faults;
  `download_faults` a slot of 8, a buffer of 2 and chunks of up to 3, so that a
  chunk ends inside a buffer. `MaxAttempts` is 2 or 3 (1 where one download is
  the question): a first, a second and a third download, of one boot or of
  several. The worker may stop after the last attempt, so these runs do not check
  deadlock. A body without a Content-Length is bounded by the slot.
- `main_*`: the four works are the real ones. `NumTestResults` is 1 or 3 (5 in the
  code), `MaxBoots` bounds the resets; interface changes and timeouts are
  unbounded.
- `mqtt_runs`: three tries in each loop (10 in the code), the real 5 failures and
  5 results, both sensors. Runs are unbounded.

### Fairness

- `Hawkbit!FairSpec`: weak fairness of the device's own steps (the work is
  rescheduled on every path); strong fairness of the offer of an open action, of
  a readable document and of a feedback that gets through, for each action: the
  network loses messages but not every one of them. A server that offers two
  open deployments in turn may have them installed over each other for ever, so
  `EveryActionCloses` speaks of a deployment while no other is offered. It leaves
  out the unparsable ones, which are never closed (finding 2).
- `DdiPoll!FairSpec`: weak fairness of the poll: the work is rescheduled, and
  every query ends, at the latest by `HAWKBIT_RX_TIMEOUT`. Nothing is assumed of
  the answers.
- `Download!FairSpec`: weak fairness of the main thread, of its timeouts and of
  a callback that has begun. Nothing is assumed of the server.
- `FotaMain!FairSpec`: every ready thread is scheduled (`app_wq_run` yields after
  each work); a timeout expires unless interface events restart it infinitely
  often. Nothing is assumed of the interface.
- `MqttTemperature!FairSpec`: the queue runs the work, the handler takes its
  steps, the time-out of its wait runs on whatever the network does, and a
  CONNACK on a well network arrives.

## 4. Findings

1. A reset between the confirmation of an image and the write of its CURRENT id
   (`hawkbit.c:521-541`) makes the client report the running image as failed.
2. A deployment document that cannot be parsed, among them every one with two
   chunks or two artifacts, closes the deployment parsed before it, which may be
   the one that runs (`hawkbit.c:1062`, `1166`, `1253`). It is itself never closed:
   the checks that refuse it with its own id (`hawkbit.c:939-953`) are not reached,
   as `json_obj_parse` has no room for it and fails first, at every poll.
3. With progressive erase, the second download of a boot is written over cells
   that were not erased, and accepted (`hawkbit.c:592`, `1315`).
4. A download is given up while its blocks are being written: the size the main
   thread compares changes only after the last block of a chunk (`hawkbit.c:611-618`,
   `707`). Once a callback has returned its blocks count (`NotGivenUpAfterWriting`).
5. An interface that comes up between check and subscription leaves the MQTT
   service (and, by the same code, the hawkBit client) waiting
   (`mqtt_temperature.c:564`).

Limits that follow from the constants of the runs and the theorems:

- With "reset" in the faults of `hawkbit_wellformed`, `NotFlashedTwiceInARow` fails: a
  reset between `boot_request_upgrade` and the write of the UPDATE id
  (`hawkbit.c:1234`) makes the client install again what it flashed last.
- `NotFlashedTwiceInARow` speaks of the deployment flashed last, as the UPDATE id is
  one id: with overlapping deployments offered in the order a1, a2, a1 the first
  is downloaded and flashed again, for line 1212 compares with a2 by then. Without
  overlap no deployment is upgraded twice (`UpgradesAwaitReports`).
- With progressive erase, an artifact that reaches into the last sector of slot 1
  has the sector behind the slot erased (`hawkbit.c:593-594`; line 955 accepts one that
  fills the slot): `EraseNearSlot` cannot be sharpened to `last_offset <= Bank`. It
  is never more than that one sector.
- The activity check counts what was written to flash only: a link that delivers
  less than the writer's buffer in a period is given up.

Met on the way and not modelled: the MQTT password computed in
`init_mqtt_plumbing` is not the one sent (`mqtt_temperature.c:440-446`, `468`);
`app_work_queue.h:22` allows submissions only from threads started by `main()`,
while the network management thread submits too (`FotaMain` shows that this does
no harm: `ServicesStayAlive`).

## 5. Proofs

All theorems are about the specifications TLC runs, for every value of the
constants that the named assumptions of the modules allow. Every invariant,
every step property and every refinement of a passing run is proved, some under an assumption that is
named in the theorem; liveness is only model-checked.

| Module | Theorems | Beyond the modules' assumptions |
|---|---|---|
| `HawkbitProofs` | `TypeCorrect`, `AlwaysBootable`, `WorkerInvariant`, `OnlyDeployedRuns` | none |
| | `ClientInvariant` | `~Overlap`: the server opens one action at a time, hawkBit's default |
| `HawkbitFaultProofs` | `SuccessIsTruthful`, `ClientImplementsContract` | `~Overlap`, or no "flash" and no "reset" (`FlashAndPowerHold`) |
| | `FeedbackNamesOffer` | `~Overlap`, or no "net", or no "json" and nothing unparsable (`Readable`) |
| | `LastInstallIsNotRepeated` | no "reset", and not both "net" and "flash" (`IdsOrReports`) |
| | `UpgradesAwaitReports` | `IdsOrReports` and `~Overlap` |
| | `FailureIsTruthful` | no "json", no "reset"; "flash" only without "net" and without overlap; unparsable deployments only without "net" or without overlap (`NothingForgotten`) |
| `DdiPollProofs` | `TimeIsExact`, `PollTypeCorrect`, `Invariant`, `StringsAreOutlived`, `IntervalIsTheServers`, `ClientKeepsSession`, `OfferIsFollowed` | none |
| `DownloadProofs` | `DownloadTypeCorrect`, `WaitEndsForReason`, `WritingIsWaitedFor`, `WaitIsBounded` | none |
| | `InstallIsWhole`, `InstallIsKept` | `~Progressive` |
| | `DownloadInvariant`, `FirstInstallIsWhole` | `SectorAhead` |
| | `ErasesNearSlot` | the slot is a whole number of sectors |
| `FotaMainProofs` | `MainTypeCorrect`, `MainInvariant`, `WorkIsActivatedOnce`, `ServicesStayAlive`, `ReportsAreComplete`, `ServicesKeepContract`, `QueuedWorksAreRun`, `NoWorkOvertakes` | none |
| `MqttTemperatureProofs` | `MqttTypeCorrect`, `Invariant`, `ReportIsTruthful`, `RebootsAreEarned`, `RebootIsNotLate`, `MessagesGoOutInSession`, `RunIsBounded` | none |

- `HawkbitProofs`. `TypeCorrect` and `AlwaysBootable` rest on `BaseInv`: until
  the running image is confirmed nothing but `hawkbit_init_flash` runs
  (`BootInv`), so slot 1 keeps the fallback, and a boot starts without a request
  pending; from the parse to the reboot the action in hand is open, and the
  counter never steps over its limit (`WorkInv`); `WorkerInvariant` states it.
  `OnlyDeployedRuns`: the slots and the ids, in memory and on flash, hold only what
  the server opened (`AssignedInv`), also when actions overlap. `ClientInvariant` is `IInv`:
  `AcidInv` relates the two ids to the images in the slots in every place a reset
  can hit, and `PcInv` adds what the poll knows at each step. The refinement of
  `OtaContract` is proved there as initial states and steps (`ContractStep`, one
  case per action) from `ContractInv`, the part of the invariant it needs.
- `HawkbitFaultProofs`. Which faults, and which overlap of actions, each property
  of the client withstands. The assumptions are the weakest in these terms: for
  every combination they exclude, TLC finds the property violated (with three
  actions; set `Overlap`, `Unparsable` and `Faults` in `hawkbit_wellformed.cfg`,
  `hawkbit_false_failure.cfg`, `hawkbit_stale_id.cfg` and `hawkbit_faults.cfg` to the
  combination in question; findings 1 and 2 are two of them).
  - `SuccessIsTruthful`, `ClientImplementsContract`: `ContractInv` follows from
    `IInv` when actions do not overlap. While flash and power hold it follows, for
    any overlap, from the ids naming the running image at every step of an update
    and of the boot after it (`BootedInv`), and a pending upgrade being the one
    the UPDATE id names or is about to (`PendingInv`).
  - `FeedbackNamesOffer`: the id reported is that of the link (`LinkInv`), or both
    are of the one open action (`OfferInv`), or what is left over of an earlier
    poll is closed (`LeftOverInv`).
  - `LastInstallIsNotRepeated`: the last action whose upgrade was requested stays in
    the UPDATE id, or in the copy being written, or is being reported, until it is
    closed (`RememberedInv`).
  - `UpgradesAwaitReports`: hence, without overlap, the action upgraded before is
    closed when the next upgrade is requested, and what is being installed is open:
    no action is upgraded twice.
  - `FailureIsTruthful`: the running image of an open action has its id where the
    next step looks for it, and so has the image about to be swapped in
    (`KnownInv`); hence what is downloaded or given up does not run
    (`RefusedInv`), a refused deployment least of all (`FitInv`). An unparsable one is
    reported with the id of an earlier poll, which the same invariants show to be
    closed by then, or not running.
- `DdiPollProofs`. `IInv` says at each place of a poll which document the receive
  buffer holds (`DocumentInv`), what the request under construction is
  (`RequestInv`) and what was sent before it (`SentInv`); `StringsOutlived` is
  part of it. Each action preserves it and maps to a step of `DdiSession`, in one
  lemma per action. `OfferIsFollowed`: a poll that was offered a deployment does
  not end before asking for it. `TimeIsExact` is `hawkbit_time2sec` against
  HH:MM:SS, for every well-formed string.
- `DownloadProofs`. `DInv`: every unit received is written, buffered, dropped or
  in the callback's hand (`CountInv`); a download in which a unit was dropped
  does not get past the size checks (`EndInv`); up to the first dropped unit the
  written cells hold the body and the cells to come are erased (`CellInv`).
  `InstallIsKept` needs that no callback is left once the install returned 0
  (`EndInv`), and none before the first install of a boot (`IdleInv`). `WaitInv`
  says what a semaphore found given tells; with the part of `DInv` that needs no
  assumption (`LoadInv`) it also gives `WritingIsWaitedFor` (with no callback inside
  `flash_img_buffered_write`, the size that is compared is what was written) and
  `WaitIsBounded`: each timeout that lets the wait go on has seen more of the body
  written, up to its length. A block is written in one lemma (`WriteBlockEffect`)
  that each invariant uses.
  `SectorAhead`: a block holds the writer's buffer and a chunk together. The code
  does not check that; its sizes (4096 against 512 and 2048) satisfy it.
  `ErasesNearSlot` needs neither: when the loop erases a sector the callback holds
  a unit that is still to be written inside the slot (`HandInv`), so the sector
  begins at the end of the slot at the latest (`SectorInv`).
- `FotaMainProofs`. `OneActivation` (the pending bit says exactly that a work is
  in the queue, once, or just taken; a work that waits is neither) is what makes
  a cancel remove the only entry and what makes the -EINVAL case harmless;
  `ChainAlive` follows with it; `MainInvariant` states the two with the types and the
  places of the main thread as one invariant. Three lemmas on sequences without duplicates
  (append, tail, remove one) carry the queue, two lemmas the two ways to submit.
  The refinement of `ServiceContract` follows from the same invariant. The ways the
  queue can change (`QueueMoves`) give what a service waits for: a work that is
  queued is run after at most the others, each once (`NoWorkOvertakes`), unless a
  reset comes or the work is a network service submitted again
  (`QueuedWorksAreRun`); the LED's work is never cancelled (`BlinkInv`).
- `MqttTemperatureProofs`. `IInv`: the loops stay within their bounds and no more
  CONNACKs are under way than CONNECTs were sent (`LoopInv`), the result of a run
  tells whether its message went out and the counter counts the runs in a row
  without one (`RunInv`), and a connection that is open when a message is due has
  a session (`SessionInv`). `RebootIsNotLate` is the converse of `RebootsAreEarned`.
  `RunIsBounded` counts the steps a run can still take, `RunSteps` at most.

Only model-checked: `EveryActionCloses`, `OfferedIsRead`, `DownloadEnds`,
`BlinkNeverStarves`, `StartedKeepsRunning`, `HandlerEnds`, `PublishingRecovers`.
They are liveness under fairness, which is out of the prover's reach. Of five of
them the safety half is proved, which leaves to fairness that the steps are
taken and, for the first, that requests get through: `UpgradesAwaitReports` of
`EveryActionCloses` (without overlap), `OfferIsFollowed` of `OfferedIsRead`,
`WaitIsBounded` of `DownloadEnds`, `NoWorkOvertakes` and `QueuedWorksAreRun` of
`BlinkNeverStarves`, `RunIsBounded` of `HandlerEnds`.

## 6. Not modelled

- JSON descriptors, the text of URLs and bodies, headers, logging: whether a
  document parses is a choice, and a document has the members that decide
  something. The JSON that is sent always fits its buffers, and encoding it does
  not fail. `http_client_init` failing counts as a request tried.
- Eight characters that are no time are accepted by `hawkbit_time2sec` as some
  other interval (`DdiPoll` has them, and the interval stays within its range);
  an id that is no number is read as 0 by `strtol`; an artifact's size that is
  negative and a missing "part" are not distinguished from other documents that
  are refused.
- `cancelAction` is ignored by the code and so by the model.
- A way out when `main` returned because a later service failed to start
  (`main.c:47`): there is none in the code. `FotaMain` has the state
  (`pc = "returned"`, where the queue is never run) and exempts it from its
  liveness properties, as no document promises otherwise.
- Product id (a number read once), LED pin, Bluetooth address and the calls of
  the Bluetooth driver in `bluetooth.c`: data and drivers.
- MQTT topics, credentials, and the text of the messages.
- `scripts/hawkbit.py`: not part of the device.

## 7. Plan

Done, most important first: `DeviceFlash`, `Hawkbit`, `OtaContract`; `Download`;
`AppWorkQueue`, `FotaMain`; `MqttTemperature`; the polling interval and the
buffers of a poll (`DdiPoll`, `DdiSession`); the contracts of the work queue and
of an install; the proofs of all their invariants, step properties and
refinements; the faults each property of the client withstands. Left:

1. The client over `InstallContract` in one state space, with the progressive
   erase in the client, so that a boot loader reads what the callbacks wrote.
2. A well-founded measure for `EveryActionCloses`, of which
   `UpgradesAwaitReports` is one part: how often the polls before the upgrade and
   the report after it can be repeated, and by which faults.
