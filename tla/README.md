# Verification of simibox_downloader

The repository is the download firmware of a music box (ESP32, ESP-IDF). The
player firmware, *musicbox*, leaves a request in NVS and restarts into the
downloader; the downloader connects to WiFi, fetches a folder of files over
HTTPS to the SD card, verifies and installs it, stores a verdict in NVS and
restarts into musicbox. This directory holds TLA+ models of the parts whose
correctness depends on interleavings, crashes and failures, the TLC
configurations that check them, and TLAPS proofs.

## Inventory

| Component | Source | State | Operations |
|---|---|---|---|
| Double-buffered file download | `simibox_download.cpp` 112-141, 730-1134 | two PSRAM halves, the job record, two binary semaphores, the `.part` stream, the locals of both tasks | `download_file_standalone` (net task), `sd_writer_task` (other core), start, stop, allocate, free |
| Folder installation | `simibox_download.cpp` 78-109, 537-647, 1137-1354 | card contents (`<folder>`, `<folder>.tmp`), SD clock, result flags | `download_simi_folder`, `verify_download_integrity`, `delete_tree`, clock fallback |
| Boot protocol | `downloader_main.cpp` 101-126, 254-527, `simibox_boot_manager_idf.c`, `simibox_nvs_protocol.h` | NVS keys, boot counter, boot partition, `g_current_state` | NVS recovery, boot count and bail-out, load, verdicts, hand-over |
| WiFi | `simibox_wifi_creds_idf.c`, `downloader_main.cpp` 128-252 | `CONNECTED_BIT`, `s_is_connecting`, the list of saved networks, the driver's link and event queue | `connect_to_wifi_with_feedback`, wait, load, scan and match, connect to best; `wifi_event_handler` |
| HTTP client pool | `simibox_download.cpp` 653-728, 882-951, 1150-1199 | pooled client, its host | get, release, cleanup, one retry of a stale connection |
| SD mount | `simibox_download.cpp` 255-522 | card handle, bus flag, clock | mount with its ladder, unmount, bus reset |
| LED | `simibox_led_idf.c` | pattern, percentage, duty registers, recursive mutex, task handle and stop flag | setters, `led_update`, animation step, task start and stop |
| Progress | `simibox_download.cpp` 867-874, 1143-1220 | two byte counters | percentage for the LED |
| Configuration | `src/downloader_config.h`, `platformio.ini`, `sdkconfig*`, partition table | none | constants |
| Vendored and generated code | `managed_components/`, `build/` | - | nghttp2, zlib, esp-dsp, a websocket client and others, which this firmware does not call; build output |

How they interact: `app_main` connects to WiFi, where it shares an event bit and
a flag with the event task; then it mounts the card and calls
`download_simi_folder`, which takes an HTTP client from the pool and calls
`download_file_standalone` per file; that call shares memory and two semaphores
with the SD writer task. Every read of a body reports progress to the LED, whose
animation task shares the pattern and the LEDC registers with all callers. The
verdict reaches musicbox only through NVS, the data only through the card, and
both must make sense after a reset at any point.

What is hard: two tasks on two cores ordered by binary semaphores alone; partial
reads and writes; one writer task serving many calls, failed ones included; a
reset between any two card or NVS operations; events of the WiFi driver that
arrive late, for an attempt that is over; a connection the server drops while it
is idle; error paths whose results nobody looks at; retry loops and a crash loop
that must end.

What makes each part correct: the file is the response body, in order and
complete, or the call fails; a folder in place holds every file its manifest
lists, complete and of one download, and a failed download leaves the old one
alone; a verdict in NVS is true, a request is answered, and musicbox gets the
device back; the connection attempts end and account for every network seen; no
HTTP client is lost, used after its clean-up or reused in the middle of a
response; a colour on the LED is one colour and stays when it is meant to.

## Modules

`FileFetch` is the contract of one file download as its caller sees it: the
`.part` file is always an ordered prefix of the body; a call ends with one
outcome; OK means everything announced reached the stream. No task, buffer or
semaphore appears in it.

`PingPong` is the implementation: the net task and the writer task, one action
for every step between two points where the other task can interfere. `pc` and
`wpc` are the control points of the two tasks; the other variables have the
names of the C++ variables. Byte *i* of a body is the number *i* and 0 is a byte
that belongs to something else, so loss, repetition, reordering and stale data
are all visible. `CallDownload` stands for the file loop, which calls again
after OK and, at a lower clock, after SD_FAILED. Reads deliver any number of
bytes, end early or fail; each `fwrite` accepts any number of bytes, and any
tail of what it accepted may be lost unnoticed in the final `fflush`, `fsync`
and `fclose`. `FF` is the refinement mapping to `FileFetch`.

`FolderContract` is the contract of one folder download as `app_main` sees it:
it works beside the installed folder, may break that folder only in the swap,
reports OK only with a usable folder, and may be cut short by a reset at any
point.

`FolderInstall` is `handle_download_with_retry`: mount, `download_simi_folder`,
unmount, with a crash between any two steps. The mount walks its ladder of
clocks, with the bus flag beside the real state of the bus. `delete_tree` is one
action per directory entry. The contents of a file are reduced to their origin
(`new`, `short`, `stale`, `old`); one file download is its outcome as
`FileFetch` promises it: in particular OK may come with a short file, when no
length was announced or the final flush failed. Verification compares sizes
only, so it accepts a `stale` file. Calls are separated by boots: `CallFolder`
relabels what is on the card. `FC` is the refinement mapping to
`FolderContract`: `phase` is a function of `pc`, `folder` is `Usable`.

`BootProtocol` is `app_main` and the boot manager. A save writes the keys one by
one in the order of the code, with a possible crash after each. It is composed
with `FolderContract` (`FD`): the download takes the steps of the contract on
the folder named by `g_current_state`, so a crash may leave that folder broken
in the middle of a swap, and `SuccessTruth` is about what the card really holds.
WiFi is an outcome. Musicbox, the bootloader and power loss are external
actions: musicbox requests, asks again after a failure, clears a verdict.

`Wifi` is `connect_to_wifi_with_feedback`: the attempts with the remembered
network, then the saved ones. Each access of the main task to the shared flag,
the event bit or the driver is one action, because `wifi_event_handler` and the
driver run beside it. The handler's decision to reconnect and the call that
follows are two actions. The driver is external: it associates, gets an address
or loses the link at any time, and queues an event for the last two. Signal
strengths are reduced to the order they give; timeouts may expire whenever the
task waits.

`HttpPool` is the life of the HTTP clients over one folder: the client of the
list, then the pooled one. A client is a heap address that can be handed out
again after its clean-up, by the next call or by the one that cleaned it up, so
a dangling pointer is visible. The server may close a connection at any time; a
read loop may leave a response unread, and may see the end of the data before
the end of the response, if the server has closed the connection.

`Led` is the main task and the animation task over `led_state`, the registers
and the recursive mutex; `led_set_color` is its eight steps. It includes
`update_led_progress` with its 8-bit percentage. Colours are reduced to what
asked for them. All setters that do nothing but store a pattern are alike, and
the configurations use one of them.

`PingPongProofs`, `FolderInstallProofs`, `BootProtocolProofs`, `WifiProofs`,
`HttpPoolProofs` and `LedProofs` each extend the module they are named after
with its inductive invariant, the lemmas and the theorems.

Operators named `Mut...` are seeded bugs: each is the definition that follows it
(or the one it is listed with in PROJECT.json) with a plausible slip, used only
to show that a property notices it. No specification uses them.

## Runs

| Run | Configuration | Shows |
|---|---|---|
| `pingpong` | bodies of 0-6 bytes, halves of 2 or 3, bounce buffer 2, three calls, fairness | `TypeOK`, `BufferExclusion`, `InOrder`, `OkMeansAllAccepted`, `NoLostGive`, `WriterFileOpen`, `NoUseAfterFree`, the refinement `Contract`, and `EveryCallReturns`, `Shutdown` |
| `pingpong_flush` | one call | violation of `OkMeansOnCard`: the final flush is unchecked |
| `folder_safety` | three names, two calls, `unlink` may fail, both clock ladders, fairness | `SuccessMeansInstalled`, `SwapOnlyVerified`, `FinalAsVerified`, `KeepOld`, `BusReleased`, `ClockNeverRises`, `CallReturns`, the refinement `Promise`, `TypeOK` |
| `folder_swap` | same card | violation of `NeverLoseInstalled`: the swap is not atomic |
| `folder_sd_flag` | same card | violation of `SdFailureReported`: `out_sd_failed` stays false when `mkdir` or the rename fails |
| `boot_safety` | two folders, two requests, crashes at eleven points, NVS recovery and refused writes, fairness | `SuccessTruth`, `TriesBounded`, `UnansweredOnlyByBailOut`, `NoRepeat`, `AntiBrick`, `TypeOK` |
| `boot_led_crash` | crashes in `led_init` only, fairness | violation of `DeviceComesBack`: the bail-out resets the counter before it has left |
| `wifi` | three saved networks, three attempts, three queued events, fairness of the main task only | `BitTracksLink`, `AtMostOneLateRetry`, `FailAccountsForAll`, `ConnectReturns`, `TypeOK` |
| `wifi_ip` | the same | violation of `OkMeansAddress`: an association counts as a connection |
| `http_pool` | three clients, two hosts, four files | `NoDangling`, `NoLeak`, `CleanReuse`, `StaleNeverFails`, `TypeOK` |
| `led` | two bytes expected, six counted, fairness | `SolidSurvives`, `NoMixedColour`, `DropsOnlyAtWrap`, `OperationsReturn`, `TypeOK` |
| `led_speed` | the same | violation of `SpeedNeverDrops`: the percentage is cut to 8 bits before it is clamped |

Why the bounds are enough. The safety properties are also proved without them
(see Proofs); the bounds matter for liveness and for the violations.

* PingPong: a body of 6 gives no cycle, one, two and three cycles for halves of
  2, a body that is an exact multiple of the half, and halves of 3 that take two
  chunks, the last one short; three calls give a call that meets what two
  earlier ones left, failed or not.
* FolderInstall: a manifest, a file it lists and one it does not list; the
  second call meets everything a first one can leave. The ladders are those of
  the code.
* BootProtocol: two folders to confuse; the boot limit 5 and the retry limit 3
  of the code; 8 in place of the 256 values of a `uint8_t`, above both limits,
  as in the code. The crash points are every step of a boot but the one that
  resets the counter at the limit, `bail` (see `CrashLoopIsBounded` below).
  `AntiBrick` is about what the counter can do: musicbox gets the device back,
  unless a behaviour has infinitely many of the steps the counter does not
  protect against: crashes before the count, on the bail-out path or during the
  hand-over, an erased counter, a count NVS refused. Two requests do not reach
  the wrap of `retry_count`.
* Wifi: three networks give a first, a middle and a last candidate in every
  order; the three attempts are the code's. With three queued events a
  disconnection, an address and a further disconnection of an earlier attempt
  can all be late.
* HttpPool: three addresses, one more than are ever alive together; four files
  over two hosts give a change of host and back, and a retry after each.
* Led: a file that is fetched again after an SD failure is counted again, and
  when the server gives no sizes what is expected is an estimate, so nothing
  bounds what is counted. 6 for 2 is 300 per cent: past the clamp at 100 and
  past 256, where the `uint8_t` starts again.

`CHECK_DEADLOCK FALSE` is set where the model may stop: the bounded number of
calls, requests or files is used up, or the function has returned. In `pingpong`
and `led` it also lets a task that waits for ever count against the liveness
properties.

Fairness. `PingPong`: each task is weakly fair; they run on different cores at
their own priority, a read returns within the 45 s client timeout and an
`fwrite` within the driver's command timeout. `FolderInstall`: the one task
runs, and every call it makes returns for the same reasons; crashes are never
required and never excluded. `BootProtocol`: a boot goes on unless it crashes,
and a restart boots; musicbox need not do anything. `Wifi`: the main task is
weakly fair, its timeouts included; neither the driver, the event task nor an
access point has to do anything. `Led`: both tasks are weakly fair, main only
while it is in an operation, and strongly fair in taking the mutex: FreeRTOS
gives a released mutex to the task waiting for it, so a waiting task is not
passed by for ever.

Timing assumptions. `stop_sd_writer_task` waits 100 ms instead of waiting for
the task to exit. `PingPong!StopDelay` assumes that this outlasts the wake-up of
a writer blocked on `sem_job_ready` and its test of `stop`, and nothing more: it
does not assume that a write in progress ends. `NoUseAfterFree` shows that none
is. `led_stop_task` waits three frame times; `Led!StopDelay` assumes that the
animation task has ended its frame and seen the flag by then.

## Findings

The six violating runs are disagreements between the code and its comments:

* `OkMeansOnCard`: `fflush`, `fsync` and `fclose` at 1098-1100 are unchecked,
  while 1257 says that SD errors surface as SD_FAILED. The size check of the
  folder catches it later for files in the manifest, but the clock fallback is
  not tried.
* `NeverLoseInstalled`: the "atomic" swap deletes the old folder first; a crash
  or a failing rename leaves none. `FinalAsVerified`, `KeepOld` and `Promise` show
  what does hold: no damaged file that the manifest lists, no `.part` and no
  file of an earlier call is ever installed, and a failure before the swap
  leaves the old folder usable. A file the manifest does not list can be
  installed truncated: verification (587-647) looks at the listed ones only.
* `SdFailureReported`: `out_sd_failed` is not set for `mkdir` and folder rename.
* `DeviceComesBack` with a crash in `led_init`: both paths call it, the bail-out after
  resetting the counter, so a box whose LED driver crashes never returns.
* `OkMeansAddress`: `wifi_creds_wait_for_connection` returns ESP_OK for an
  association, before there is an address, while `downloader_main.cpp:181` says
  that it waits for the IP. The download that follows may then fail at once.

* `SpeedNeverDrops`: the percentage is cut to 8 bits at 869 before it is
  clamped, so at 256 per cent it falls from 100 to 0 and the rainbow, which
  should accelerate (`simibox_led_idf.c:247`), starts over. The estimate of 2 MB
  per file (1218), used when the server gives no sizes, makes this reachable
  with larger files. `DropsOnlyAtWrap` shows that a read slows it down nowhere
  else.

## Proofs

Every invariant, action property and refinement that a passing run checks is
also a theorem, for every value of the constants that satisfies the named
`ASSUME`s of its module. The assumptions say no more than that bounds are
naturals, sizes and clocks are positive, and names that stand for nothing
(`Null`, `NoFolder`, `.part`) are not names of something; `BootProtocol` also
assumes that both limits fit the `uint8_t` they are compared with. One theorem,
`CrashLoopIsBounded`, has a hypothesis of its own, given below. Each module has the same shape:
definitions of the parts of `IInv`, lemmas about the operators, one lemma per
action or per group of actions that change the same parts, then `InitInv`,
`StepInv`, `Invariance`, and the theorems as consequences of `IInv`. `IInv` was
checked by TLC on the instance of the module's run before it was proved.

| Module | Theorems (property) |
|---|---|
| `PingPongProofs` | `TypeCorrect` (`TypeOK`), `HalvesDisjoint` (`BufferExclusion`), `StreamInOrder` (`InOrder`), `OkIsComplete` (`OkMeansAllAccepted`), `NoSignalLost` (`NoLostGive`), `StreamOpen` (`WriterFileOpen`), `FreedAfterExit` (`NoUseAfterFree`), `ImplementsFileFetch` (`Contract`) |
| `FolderInstallProofs` | `TypeCorrect` (`TypeOK`), `TrueMeansInstalled` (`SuccessMeansInstalled`), `SwapIsVerified` (`SwapOnlyVerified`), `InstalledAsVerified` (`FinalAsVerified`), `OldIsKept` (`KeepOld`), `BusIsReleased` (`BusReleased`), `ClockIsBounded` (`ClockNeverRises`), `ImplementsFolderContract` (`Promise`) |
| `BootProtocolProofs` | `TypeCorrect` (`TypeOK`), `VerdictIsTrue` (`SuccessTruth`), `RequestIsAnswered` (`UnansweredOnlyByBailOut`), `RequestIsCurrent` (`NoRepeat`), `CrashLoopIsBounded` (`TriesBounded`) |
| `WifiProofs` | `TypeCorrect` (`TypeOK`), `BitIsTrueOrDoomed` (`BitTracksLink`), `HandlerIsDisarmed` (`AtMostOneLateRetry`), `NetworksAccountedFor` (`FailAccountsForAll`) |
| `HttpPoolProofs` | `TypeCorrect` (`TypeOK`), `ClientsAlive` (`NoDangling`), `ClientsFreed` (`NoLeak`), `ReuseIsClean` (`CleanReuse`), `StaleIsRetried` (`StaleNeverFails`) |
| `LedProofs` | `TypeCorrect` (`TypeOK`), `ColoursDoNotMix` (`NoMixedColour`), `FinalColourStays` (`SolidSurvives`), `RainbowSlowsOnlyAtWrap` (`DropsOnlyAtWrap`) |

Hardly any of the properties is inductive. What the invariants add, and why:

`PingPongProofs`.

* `Control`: the handle, semaphores, halves, stream and flags that exist at each
  pair of control points;
* `Handshake`: the hand-off is a token in exactly one place: with the net task,
  in `sem_job_ready`, with the writer, in `sem_job_done`;
* `Buffers`: what each half and the bounce buffer hold, relative to `Handed`, the
  number of bytes handed to the writer so far;
* `Progress`: how long the stream is at each step of a job, as a function of
  `Handed`, `remaining`, `offset` and `written`;
* `Accounting`: lengths against the response.

`Handshake` gives exclusion and the absence of lost signals; `Buffers` and
`Progress` together say that the next bytes accepted continue the stream, which
gives `InOrder`; and that a job without error leaves the stream at `Handed`,
which gives `OkMeansAllAccepted`. The refinement follows step by step: an
`fwrite` is `Store` (or stutters, if it accepts nothing), a returning call is
`Succeed` or `Fail`, and an ordered sequence is the prefix of its length
(`InOrderIsPrefix`).

`FolderInstallProofs`. Verification compares sizes, so by itself it would accept
a leftover of an earlier call. `Card` says that a directory that does not exist
holds nothing, and `Temporary` that from `mkdir` to the rename every file in
`.tmp` is of this call, with no `.part` among them once the loop has gone well.
Only then does passing the check mean complete. `Old` carries the usable folder
through `delete_tree`, whose return point tells which of its three callers is
deleting; `Placed` and `Mounting` cover the way out and the bus. `Highest` is a
`CHOOSE`; that it exists is shown with the well-founded order of the naturals.
For the refinement, the steps before the swap change neither `phase` nor
`folder`; deleting an entry of the installed folder is `Degrade`, the rename
`Place`, every error `GiveUp`.

`BootProtocolProofs`. `Saving` says which mixtures of old and new keys NVS can
hold in the middle of a save: the reason is written first, and the downloader
never changes the folder, so SUCCESS cannot meet the folder of another request.
`Loaded` says that until the verdict the keys in RAM are those in NVS, and
`Download` ties the outcome of the download to the card. `Counted` is separate:
while a request stands, the boots counted cover the downloads begun, and a boot
between its count and its download is one ahead. It is an invariant only under
the hypothesis of `CrashLoopIsBounded`, that no crash hits the instructions
between counting the boot and resetting the counter at the limit
(`"bail" \notin CrashPoints`, as in the runs). Each crash there counts one more
boot past the limit; enough of them in a row, 251 for the constants of the code,
wrap the `uint8_t`, and the boots that follow may download again.

`WifiProofs`. `LinkEvents` gives the queue its meaning: behind every `GOT_IP`
whose address is lost there is a `DISCONNECTED`. That is what makes the bit,
which `wifi_event_handler` sets when it takes the event, true or about to be
cleared. `Armed` says where `s_is_connecting` is off, in particular at every
return, and that a decision to reconnect is used once. `Ahead` says that the
networks the scan saw are divided into those handed to `esp_wifi_connect`
(`tried`), those a driver call refused (`refused`) and those still in the list,
but for the head, which is both listed and tried while it is waited for; it
starts from `OrdersProperties`, that a list without repetition as long as the set
holds all of it, and uses `DropHead` for the step to the next network. `Phase`
separates the two uses of the wait. A handler that reconnects at the wrong
moment can have every network refused; the theorem does not say that one of them
was connected to.

`HttpPoolProofs`. `Heap` says which client is alive at every control point, not
only where `NoDangling` and `NoLeak` look; `Pool` what the pooled one is good
for; `Attempt` that a second attempt follows a forced release.

`LedProofs`. `Held` computes from the control point of a task how often it has
taken the mutex, and `Locks` says that owner and depth agree with it. So at most
one task is between its first and its last register write (`OnePainter`),
`Registers` says what these have put on the channels, and `OneColour` that the
channels agree between two calls. `Final` says that a frame which began before
a final colour was chosen is over once main holds the mutex, and that the
pattern lets no other begin. `RainbowSlowsOnlyAtWrap` has no hypothesis on sizes:
integer division is monotone (`DivMonotone`), and so is the remainder between
two multiples of `Width` (`ModMonotone`), hence the clamped percentage
(`PercentMonotone`).

Only model-checked: liveness (`EveryCallReturns`, `Shutdown`, `CallReturns`,
`AntiBrick`, `ConnectReturns`, `OperationsReturn`), which needs fairness and
`ENABLED`, out of reach of the prover; and the six violations, which are
counterexamples.

## Not modelled

* `managed_components/` (nghttp2, zlib, esp-dsp and others) and `build/`: vendored and
  generated code, by far most of the lines in the repository. No function of the
  firmware in `src/` calls it; it is not part of what this project is about.
* Functions nothing calls: `wifi_creds_connect_auto`, `init_wifi`,
  `boot_mgr_update_progress`. Code of `DOWNLOADER_DEV_MODE`, which is not built.
* Pure I/O: the GPIO sequences of the bus reset, LEDC and WiFi driver
  configuration; the HSV arithmetic of the animations. A mutex or event
  group that cannot be created at boot.
* The volume, SSID, size and progress keys: nothing is decided by them. The SSID
  that is copied into a state nobody saves is one of them.
* Refused NVS writes of musicbox, and what it does with a verdict: its code is
  not in the repository. The factory launcher of `simibox_nvs_protocol.h` is
  another firmware too; the models follow `esp_ota_set_boot_partition`, which is
  what this code does.
* A missing musicbox partition, and an NVS that can never be opened.
* Two access points of one SSID, of which the last in the scan and not the
  strongest sets the order: `Wifi` allows every order. The phase of an animation
  (`led_state.hue`), which a setter and a frame may write at once.
* The erasure of other firmwares' namespaces in NVS recovery; `NvsRecover` models
  that of the protocol keys.
* Duplicate names in the server's list (the second rename fails and is then one
  of the SD failures), sub-directories, and files of 2 GB and more.

## Plan

The components are modelled and their safety is proved. What is left:

1. The steps of the liveness arguments that need no fairness, as theorems: the
   variants that decrease. For `Wifi` the attempts and candidates left, for
   `FolderInstall` the rungs below the clock in use and the entries still to be
   deleted.
2. A sharper bound for `CrashLoopIsBounded` with crashes in the bail-out: how
   many of them it takes before the counter wraps.
3. Shorter proofs: some leaves of `FolderInstallProofs` cite more definitions
   than they need.
