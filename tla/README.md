# A verification development for sensor-data-acquisition

TLA+ models, TLC runs and TLAPS proofs for the data acquisition system in
`src/`: a **service** per on-board computer that drives the sensors and records
their traffic with tcpdump, and a **gateway** that aggregates the services of a
vehicle and logs thumbnails.

Every definition is translated from the code and `PROJECT.json` names its lines.
Modelled are the acquisition of a sensor (`Acquisitor`, `TcpDump`), the storage
driver that chooses its disk, the two together, the gateway's operations over the
service's pool of workers, the thumbnail logger, the table of drivers with the
threads of the Python drivers, and the way of a lidar's packet from the network to
the rendered point cloud, through the two SDKs the repository carries.

## 1. The system

### Components, their state and their operations

| Component | State it keeps | Operations | Modules |
|---|---|---|---|
| Acquisition: `service/core/Acquisitor.py`, `TcpDump.py` (called through `ServiceServer.py`, `Drivers.py`) | `self.tcpdump`, an unlocked reference; per dump the event, the state, the child process, the current storage | `start_acquisition`, `stop_acquisition`, `check_acquisition`, the callback `on_stopped`, the thread `TcpDump.run` | `Acquisition`, `Recorder` |
| Storage driver: `drivers/Storage/driver.py` | `_connection`, `_snapshot`, `_recommend`, `_disk_usages`, each behind its own lock | the scan of `ReqBufferStorage.run`, `recommend_storage`, `on_stop` | `StorageMonitor` |
| Acquisition with storage | both | `TcpDump._select_storage` calling `Storage.recommend_storage` | `AcqStorage` |
| Thumbnail logger: `gateway/core/ThumbnailLogger.py` | `_thumbnail_file`, shared by two threads without a lock; the datasets of the file; the disks listed at the start | `ThumbnailLogger.run`, `StorageManager.run`, the callbacks `on_storage_change` and `on_storage_error`, `stop` | `Thumbnail` |
| Driver registry: `core/Drivers.py`, `main.py`; pseudo lidar: `renderer.py` | the table of drivers, `_is_init_ref`; the renderer's event, image and counter | `load`, `_register`, `stop_all`, `get_snapshots`; the renderer's thread, `snapshot`, `stop` | `DriverRegistry` |
| Worker pool: `ServiceServer.py` (10 threads) | queued and running calls | every gRPC handler | `Gateway` (the calls of the gateway's operations), `DriverRegistry` (`get_snapshots`) |
| Gateway devices: `Device.py`, `Devices.py` | channels, the polled connection and health, the sensor list fetched once | operations on all sensors and on one, per-call timeouts, polling | `Gateway` (not the polling) |
| Polling drivers, Bynav, CAN counter: `AT128/driver.py`, `RSBP/driver.py`, `BynavX1/*`, `AP500CAN/*` | the threads' places and events, their sockets, the first position | poll loops, web socket with its timer, NTRIP bridge, readers, counter, `on_stop` | `DriverThreads` |
| Cameras: `gst_pipe.py`, `USBCamera` | `_gst_pipe` without a lock; the loop of the pipe's thread | `start_acquisition`, `stop_acquisition`, `run`, `bus_callback` | `CameraPipe` |
| AT128's point cloud: `at128_converter.cpp`, `hesai_lidar_sdk_fix.hpp`, HesaiLidar_SDK_2.0 | two rings, the frame two threads share, the converter's last frame; a parser per lidar; the command client's stream | receive, `Run`, the parser's thread, start, stop, callback, snapshot; decode, split, count; `QueryCommand` | `HesaiLidar`, `At128Converter`, `HesaiPackets`, `HesaiParser`, `HesaiDevice`, `HesaiPtc` |
| RSBP's point cloud: `rsbp_converter.cpp`, rs_driver-1.5.10 | packet and cloud queues, the cloud in hand; a decoder per lidar; the datagram being reassembled | inputs, handling, conversion, start, stop; decode and split; reassembly | `RsDriver`, `RsAlgorithms`, `RsPackets`, `RsDecoder`, `RsDevice`, `RsJumbo` |

### How they interact

* A client calls the gateway, the gateway calls a service with a timeout
  (`call_timeout`, 0.5 s by default), the service runs the handler in one of ten
  pool threads. A call that timed out goes on in the service.
* `start_acquisition` creates a `TcpDump` thread and polls its state. The thread
  asks the storage driver for a path about once a second and, when the path
  changes, ends one tcpdump process and launches the next.
* The thread calls `Acquisitor.on_stopped` as its last act; this clears the
  reference that the handlers read and write.
* The storage driver's thread publishes what it found in four fields. Callers
  read one or two of them, and may read them on either side of a scan.
* `main` loads the drivers one by one into a table that the renderer's thread and
  the workers go through without a lock, and stops them in the same order.
* A lidar's packets pass three or four threads: the receiver, the SDK's decoder,
  (Hesai) a parser that computes the points, and the converter, whose last frame
  the renderer's thread reads. Buffers, clouds and the frame are shared and recycled.
* In the gateway `StorageManager` calls back into `ThumbnailLogger`, closing and
  opening the file the logger's own thread is writing.

### What is hard

Handlers of the same sensor may overlap, and the attribute they share is tested and then
read again. A stop may arrive while the process is being replaced. A directory or a
process may fail to come up half-way. A full, removed or unlisted disk must be noticed
by one thread and acted on by another. A file is closed under its writer. A device may
be silent, gone or reset while a thread waits for it and another joins that thread.
Packets of a lidar are lost, late or damaged where a frame is cut; memory is handed on
without a lock. `PROJECT.json` lists each such place under `hazards`.

### What makes each component correct

* Acquisition: no tcpdump outlives the thread that can end it; a stop call
  returns and ends the recording; what `check_acquisition` answers is true.
* Storage driver: the fields a caller reads together belong together; a disk
  that is full stops being preferred; `on_stop` returns.
* Composition: a recording moves away from a full disk; a start call gets a disk
  when there is one.
* Thumbnail logger: samples stay beside their time stamps, the log is on the
  chosen disk, `stop` returns.
* Gateway: a stop for all sensors reaches whatever was started, also when a device
  does not answer now; an answered stop is final, although handlers of calls that timed
  out are still at work; snapshots, which have no deadline, return.
* Drivers: whoever goes through the table finds it complete; each thread ends on
  its stop whatever its peer does, but for waits that are named.
* Lidars: a cloud or frame holds the points of one turn, of exactly its packets, in
  order and each turn once; losses are counted; an answer belongs to its command;
  no buffer is in two hands.

## 2. The modules

`Recorder` is the abstract specification: what a sensor's acquisition promises
to a caller who waits for each answer. The service is *armed* while something
may begin to record without a further call, and *recording* while a process
runs. A stop returns only when it is neither.

`Acquisition` is the code. One step is one read or write of `self.tcpdump`, one
lock section or one system call; local computations belong to the step before.
`pc[w]` is where a pool thread is in its handler, `thread[d]` where a dump is in
`TcpDump.run`, and each action is named for the statement it stands for:

| Code | Actions |
|---|---|
| `start_acquisition` | `StartTest`, `StartAlready`, `StartCreate` (the thread starts before the attribute is assigned), `StartCreateRaises`, `StartAssign`, `StartSpin`, `StartReport` |
| `check_acquisition` | `CheckTest`, `CheckRead` |
| `stop_acquisition`, `TcpDump.stop` | `StopTest`, `StopSet`, `StopJoin`, `StopClear` |
| `TcpDump.run` | `LoopTest`, `Select`, `SelectRaises` |
| `_stop_dump` in the loop / behind it | `StopOld`, `ReapOld` / `StopLast`, `ReapLast` |
| `_mkpath`, `_start_dump` | `MakePath`, `MakePathRaises`, `Spawn`, `SpawnRaises`, `Settle`, `SettleFails` |
| `Acquisitor.on_stopped` | `Notify`, `Clear` |
| tcpdump (external) | `Terminate`, `Crash` |

`own[w]` is the handler's own reference (a dump created and not yet stored, or
being joined). A read that finds `None` where a dump was tested for raises
`AttributeError`; the answer it is turned into is part of the action
(`AnswerState`). A dump object that is dead and that nothing refers to is reused
for the next one, so runs are unbounded in the number of recordings. Dropped:
path names, the filter string, log texts, `__del__`.

`StorageMonitor` is one iteration of `ReqBufferStorage.run` in ten steps: the
listing, then one step per lock section, with the error path (`ListRaises`,
`LostSnapshot`, `LostRecommend`) beside it, and the `OSError` nobody catches
(`MeasureRaises`). Disks and the mount point change at any time.

`AcqStorage` replaces the choice `Acquisition` leaves open by
`recommend_storage`: `SelectKeeps` and `SelectMisses` are its first lock section,
`SelectRecommended` its second, `SelectFindsNoDriver` the case in which the
driver was stopped. `missed` holds the dumps between the two.

`Thumbnail` has the logger thread (`Begin` to `JoinManager`) and the manager
thread (`ListOnce` to `CreateRaises`). `stop_logging` is three steps (test,
close, clear) of whichever thread runs it, and may find in its second that the
other has already set the attribute to `None`, which ends the thread. A frame is
one row per dataset. The model keeps the rows of a file for as long as anything
refers to it.

`Gateway` is the gateway's operations: on all sensors (`BeginAll`, then `Visit` for each
device, whose list of sensors is cached or asked for, `Ask` for each sensor, `Return`) and
on one (`BeginOne`, which calls it without that list). `Send` puts a call into the
service's queue, `Expire` is its deadline, after which a queued call is withdrawn and a
running handler goes on without a caller. `Take` is a pool thread that takes a call. The
handlers share `tcpdump[s]` with each other and with the recorders' `on_stopped`, and
each read and each assignment of it is a step: `StartTest`, `StartCreate`,
`StartAssign`, `StartPoll`; `StopTest`, `StopSet`, `StopJoin`, `StopClear`; `Notify`,
`Forget`. Of a recorder only its state and the end of its thread are here (`Records`,
`Halts`, `GivesUp`, `Dies`); what it does with disks and processes is in `Acquisition`.
`get_snapshots` stays in its worker until some driver that polls for a position has one
(`EndSnapshot`, `Locates`). A device is the set of its sensors; `Cpu` is the one whose
service records for all (`acq_ip`). Left out are the gateway's own pool, the reads of one
sensor, the moment after a restart in which the service answers *Initializing drivers*,
and the polling of `get_health`.

`DriverRegistry` has main (`StartDriver` to `StoppedAll`), the renderer's thread
(`RenderWaits` to `RenderImage`) and the workers in `get_snapshots`. A loop keeps the
size the table had when it began, as a Python iterator does, and ends when it finds
another. `DriverStopped` is the end of another driver's `on_stop`, `GetLocation` and
`PositionComes` are the poll for a position and its end; nothing says that they
come. `DriverThreads` is one driver's threads after `on_start`: an action is what a
thread does between two waits, its alternatives are what the peer may do, and
`OnStop` goes through `StopOrder`. `Handshake` is the answer to the upgrade to a web
socket, `ConverterStopped` the return of the SDK's own stop, which the converter's
`stop` calls before it sets the event. `CameraPipe` is the pipe's thread and the
USBCamera's two calls, with the attribute read as often as the code reads it.

`RsAlgorithms` holds the pure functions of rs_driver (split strategies, block iterators,
calibration, header fields), `RsPackets` the layouts of the packets, `RsDecoder` the
decoders as records with operations, `RsDevice` a turning lidar in front of one of them,
with any cut angle and field of view. `RsJumbo` is the reassembly of fragments, whose
16-bit identifications repeat. `RsDriver` is the four threads of `LidarDriverImpl` and
`RSBPConverter` over stops and restarts (`packetPut` is two steps, as it takes the
queue's lock twice); packets are numbers there, and what a decoder makes of them is
`RsDecoder`'s.

`HesaiPackets` holds the layouts, `HesaiParser` the ten parsers as records with
operations, `HesaiDevice` a lidar and a network in front of one, with a parser thread
that keeps up. `HesaiPtc` is the client that sends commands over TCP. `HesaiLidar` is
the threads of `Lidar` and `HesaiLidarSdk::Run`, in which the parser's thread does not
keep up. `Init` waits for nothing, since `SetLidarType` has made the parser before; on a
host of two processors `Run` is alone. `At128Converter` adds the callback and the
snapshots.

Each component has a module `MC...` that TLC instantiates; `MCLidars` and `MCDrivers`
put several side by side, of which one runs and the others rest, so that one run answers
for each of them alone. The modules `..._proofs` hold the theorems. Definitions
commented *Mutant* are plausible errors; each property is violated when one of them
takes the place of its original.

## 3. The runs

| Run | States | Question |
|---|---|---|
| `AcqConcurrent` | 346 000 | Two overlapping handlers, two dumps, `makedirs` may raise: `ProcessOwned`, `StopReturns`, `StopEndsRecording` |
| `AcqSequential` | 102 000 | One call at a time and every fault: `StateAgrees`, `NoOrphan`, `NotAcquiringIsQuiet`, and the refinement of `Recorder` |
| `Composed` | 1 123 000 | One handler and one dump on two disks, the driver may be stopped, `makedirs` and the launch may fail: `ImplementsAcquisition`, `RecordingLeavesFullDisk`, `StartGetsStorage` |
| `Gateway` | 872 000 | Two gateway threads with operations on all sensors or on one, two workers, two recorders of one sensor and another device; deadlines, a service that restarts, recorders that give up or die, positions that may not come: `StopCoversStarted`, `StopIsFinal`, `SnapshotsReturn` |
| `Thumbnail` | 268 000 | Two disks, two files, one sensor, two frames, every fault: alignment of the rows, the disk of the log, `ThumbnailStops` |
| `Drivers` | 393 000 | Parts: the table with a camera, a Bynav and the renderer in any order, start and stop may raise or not return, two workers (`TableStandsStill`, `EveryoneReturns`); the threads of a Bynav, a CAN gateway or a lidar (`OnStopReturns`); a camera with two overlapping callers (`CameraCallsReturn`); the storage driver with two disks, three amounts of free space, lost mount points and removed disks (`FieldsAgree`, `AnswersAgree`, `FullDiskIsDropped`, `StorageStops`) |
| `Lidars` | 2 044 000 | Parts: thirteen RoboSense decoders with eight sets of parameters, two speeds and two fields of view (`CloudIsOneRound`, `CloudsInOrder`), ten Hesai parsers (`FrameIsOneRound`, `LossCounted`, `ReadsFit`), the fragments of four datagrams, two of one identification (`JumboExact`), three commands to a slow lidar (`PtcAnswer`), the four threads of the RoboSense driver over two sessions (`OneHolder`, `PacketsInOrder`) |
| `HesaiLidar` | 1 295 000 | The four threads of the AT128 and one snapshot, hosts of two and four processors, rings of one place: `FrameExact`, `TornOnceAtMost`, `StopReturns` |
| `AcqTwoStarts` | violation | Overlapping starts lose a dump |
| `AcqExit` | violation | A tcpdump that exits is reported ACQUIRING |
| `CompRoot` | violation | A dump records on the empty path |
| `SplitWrap` | violation | A cut less than a step before zero is not seen |

### The bounds and why they are enough

* Two workers: every race in `Acquisitor` is between two accesses to one
  attribute, by two handlers or by a handler and `on_stopped`. The safety
  theorems of section 5 hold for any number.
* Two dumps: one that is lost or winding up, and the one that took its place.
* Two disks (and the empty path): one to leave and one to go to. Three amounts
  of free space in `Drivers` so that two disks can both be good and differ; two
  in `Composed`.
* `MaxFrames` = 2: a second frame is needed for a row to be put below a first
  one, in the same file or in a new one. Two files: the one being written and
  the one the manager opens meanwhile.
* `Gateway`: two workers are enough for every race on the attribute, and can both be
  polling for a disk, so that the pool is exhausted; two recorders are one that is lost or
  winding up and the one that took its place, and a third start finds no thread left,
  which is Python's `RuntimeError`. Two gateway threads so that one may stop what
  the other starts; a call that timed out overlaps with those its thread makes later. What
  a thread begins is bounded in `MCGateway`: in one part the first thread starts and stops
  the sensor while the others stop it, in the other it runs operations on all
  sensors, starts the sensor alone and asks for snapshots; and after a race that may have
  lost a recorder nothing is begun until the service restarts. `check` is not run:
  it changes nothing. The safety theorems of section 5 hold for any numbers and
  any operations.
* `Drivers`: two drivers besides the renderer, one of which polls for a position, so
  that each may be the first, a middle or the last one; `Polls` = 2 instead of 100,
  `ReadRetry` = 2 instead of 6: the counts only have to be reached. Three camera pipes:
  two that are lost and run for ever leave one to make.
* `Lidars`: a turn of the modelled lidars is a little more than two packets (RoboSense)
  or four datagrams (Hesai), so that eight and thirteen of them make three turns, and
  every cut falls within a packet and between two; a lidar with a micro mirror sends two
  and a half frames. Twelve or 28 firings a round are narrow fields of view around zero,
  each for the lidars with fewer blocks in a packet; the cuts are at 0, 180, 359.6 and
  359.9 degrees. A micro mirror, which knows neither speed nor cut nor split mode, is run
  with one speed and one mode (`RsOnce`). One loss, cut or delay (`MaxFaults`,
  `MaxDisturbances`) may fall on any packet, and a burst of up to nine on a micro
  mirror's. A turning lidar never loses two packets in a row: a loss of a whole round
  may join two rounds under any cut. Of the
  four datagrams two have the same identification and one has the one that the code
  reserves for *no datagram*; nine arrivals are their fragments, some of them twice or
  out of order. Three commands with payloads of two, one and no units, over a stream
  that is cut anywhere. Four buffers and clouds are more than the queues' bound and the
  hands together need.
* `HesaiLidar`: a field of two packets, rings of one place, so that they fill, and as
  many datagrams as a third frame needs to begin under a snapshot's reader, one of which
  may be lost. `Before` = 1 datagram of the lidar was sent before the first that can arrive,
  so that it joins in the middle of a field; with `Before` = 0 the run was checked once
  (4 442 000 states). With `kMinPackets` = 0 only empty frames are passed over; the two
  invariants were also checked once with 1 and five datagrams (4 335 000 states), where a
  lost datagram makes a frame that is passed over under a snapshot, and their
  theorems hold for any number.
* No symmetry is used where liveness or refinement is checked. `Thumbnail`, `Drivers`,
  `Lidars` and `HesaiLidar` are checked with `CHECK_DEADLOCK FALSE`: threads
  end, the disks can all be gone, and the bounds on packets and calls end the rest.

### Fairness

* `Acquisition`: weak fairness of each handler and each dump's thread, since they
  are operating system threads that never wait for a lock that is kept; and of
  the end of a tcpdump that got SIGTERM. No call is ever forced to arrive, and no
  process to crash.
* `StorageMonitor`: weak fairness of the scanning thread and of the second half of
  `on_stop`. Nothing about disks.
* `Gateway`: weak fairness of the gateway's threads, of the passing of each deadline, of
  each worker, of the end of a recorder that was told to end (its join), of `on_stopped`,
  and of another device's answer or failure. Nothing about disks, positions or restarts.
* `Thumbnail`: weak fairness of both threads, which assumes that
  `get_all_sensor_snapshot` returns. It has no timeout (`Device.py:156`): a
  service that never answers keeps the logger from stopping.
* `Drivers`: weak fairness of main, of the renderer's thread, of each worker, each
  driver thread, each handler and each pipe. The steps only a peer, an SDK or another
  driver can end (`ProxyConnects`, `Handshake`, `ProxyReceives`, `CanAccepts`,
  `CanReceives`, `ConverterStopped`, `DriverStopped`, `PositionComes`, `BusStops`) have
  none.
* `HesaiLidar`: weak fairness of the receiver (whose select has a timeout), of `Run`,
  of the parser's thread, of the join and of a snapshot that has begun; none of the
  arrival of datagrams.
* The conditions a liveness property needs from outside (a disk that stays full, a
  mount point that stays readable) are premises of the form `<>[]` in the property.

## 4. The properties

* `ProcessOwned`: a tcpdump never outlives its thread, and no second one is
  launched over it, on any path out of a failure.
* `StateAgrees`: ACQUIRING comes with a process that outlived its 0.1 s check and
  a thread that watches it; a running process is reported, but for named moments.
* `NoOrphan`, `NotAcquiringIsQuiet`: with one call at a time no live dump is lost
  and no process runs behind a NOT_ACQUIRING.
* `StopReturns`, `StopEndsRecording`: also when the event is set in the middle of a
  change of storage or after the thread died of `makedirs`.
* `ImplementsRecorder`: no recording without a start call; stop returns only when
  nothing records or ever will.
* `FieldsAgree`: the recommendation belongs to the published usages, but between
  the two writes, and but for a lost mount point, which clears only the first.
* `AnswersAgree`: connection, snapshot and recommendation do not contradict each
  other between scans.
* `FullDiskIsDropped`, `RecordingLeavesFullDisk`: a disk that stays too full is no
  longer preferred, and the recording on it moves to one with room.
* `StartGetsStorage`: a start call that came before the first scan, or when all
  disks were full, returns once a disk stays usable, but for a dump whose thread has
  died of `makedirs` before it recorded: its state stays UNKNOWN and the call spins on it.
* `StopCoversStarted`: a stop for all calls every sensor that a start was sent for, in an
  operation on all sensors or on it alone, whose device's list of sensors was fetched
  before; the list is cached, so it does not get lost with the network. A sensor started
  alone, of a device whose list was never fetched, is passed over in silence if the list
  cannot be fetched then.
* `StopIsFinal`: a sensor whose stop was answered, with no other start of it under way,
  stays off until another start is sent, although calls that timed out may still
  be at work; unless one of its starts found no recorder while another start, or a stop,
  was between its test and its assignment. That is the race of `AcqTwoStarts`, and of a
  stop that forgets the recorder a later start has stored.
* `SnapshotsReturn`: a snapshot call has no deadline. It returns once the workers that
  poll for a disk get free, no more recordings are started and the drivers have a
  position, but for a recorder that died in `makedirs` before it recorded. Each of the
  premises is needed: ten start calls without a disk fill the pool, and a Bynav without a
  position keeps the call for ever.
* `RowsAligned`: whatever writes fail and whenever the file is closed, a sample
  stands in the row of its own frame's time stamp.
* `LogsWhereChosen`, `NoSpaceNoLog`, `LogLeavesFullDisk`, `LoggingStarts`: the file
  and the manager's choice stay together, also after a change that failed.
* `TableStandsStill`: load sets `_is_init_ref` last, and whoever loops over the table
  has waited for it.
* `EveryoneReturns`: `stop_all` ends although the renderer looks at its event only once
  the table is complete, or stands for ever in another driver's `on_stop`. A snapshot call
  returns although the workers count their polls in one attribute that loses counts;
  unless it polls for a position that never comes, or the calls of another worker, each of
  which resets the counter, go on without end.
* `OnStopReturns`: `on_stop` returns or raises, whichever threads have died and whatever
  caster, data port and network do, or stands for ever in a wait that is named: for a
  first position, for the handshake or a message of a silent web socket, for
  the CAN gateway, for a converter whose stop does not return.
* `CameraCallsReturn`: a camera's call returns unless its quit came after the loop was
  made and before it ran; GLib forgets such a quit.
* `CloudIsOneRound`, `CloudsInOrder`: a RoboSense cloud is one turn from cut to cut, or
  as many blocks as the user asked for; clouds come in order with consecutive numbers. A
  turn is joined to the one before only if no point between the cut and zero reached
  the cloud: a step across both is not seen. That it is seen is `EveryCutIsSeen`.
* `FrameIsOneRound`: a Hesai frame is one turn with no block of an earlier frame, but
  for what the code lets in with the first packet.
* `LossCounted`: the 32-bit loss count is exact, past the wrap and with late packets.
* `ReadsFit`: the parsers read the tail where the lidar put it, and corrected angles
  stay within the tables of sine and cosine.
* `JumboExact`: in what is handed on every unit is at its place and the last one ends a
  datagram, whatever order the fragments come in; two datagrams are mixed only where their
  identifications are the same, or one of them is 0.
* `PtcAnswer`: what comes out of the stream is the answer to this command.
* `OneHolder`, `PacketsInOrder`: four threads, two rounds of buffers: each address has
  one holder; what is shown, queued and in hand keeps the order of receipt.
* `FrameExact`: without a lock, `packet_num` alone makes `Run` publish a frame with
  exactly the points of its packets.
* `TornOnceAtMost`: a snapshot holds points of one frame that the callback was given, of
  frames of too few points that `Run` passed over since, and of the one that it fills now:
  no second given frame.
* `StopReturns` of `HesaiLidar`: no thread waits for ever for a ring, a packet or another;
  on a host of two processors the stop may follow a pointer nobody has set.
* `StorageStops`, `ThumbnailStops`: each join ends, also when the joined thread has
  died of an error nobody caught.

### Disagreements met (violation runs)

1. `AcqTwoStarts`: `start_acquisition` tests, creates, starts and then assigns
   without a lock. Two overlapping starts leave a dump that nothing can stop and
   that records while the service says NOT_ACQUIRING.
2. `AcqExit`: the child is polled once, 0.1 s after its launch. A later exit leaves
   the state ACQUIRING for as long as the storage stays the same.
3. `CompRoot`: `recommend_storage` answers the empty path when no disk has room; a
   dump in progress takes it for a path and records under the root directory,
   although line 33 of `TcpDump.py` treats a missing storage as the end.
4. `SplitWrap`: `SplitStrategyByAngle::newBlock` (`split_strategy.hpp:57-81`) takes 36000
   off the previous angle when the angle has wrapped, and tests the cut against the
   result: from a block at 35980 to one at 0 it sees no cut at 35990, and a lidar that fires
   at the same angles each round never ends its cloud there. The rs_driver's introduction
   (`doc/src_intro/rs_driver_intro_CN.md`, 4.6.3.1) says that the wrap at angle 0 is
   considered. A lost packet has the same effect on any cut that is close to zero: with
   `split_angle` 35960 the blocks may step from 35940 to 200.

Behaviour the model has and no run reports: a dump that died in `makedirs` stays
referenced, so a start that polls it never returns if it had not recorded, and later
starts answer *Already acquiring.* until a stop; a stop and a start that overlap can
lose the new dump (`StopClear`); at the gateway's shutdown both threads may be in
`stop_logging` and one may die of `None.close()`, then the manager is not stopped or is
joined dead, or a file opened late stays open; and after a change that failed, returning
to the disk that was current opens no file, since the manager still believes in it. The
properties of `Thumbnail` are stated so as to hold nevertheless: `LoggingStarts` is
about the first file, and those about the file exclude the shutdown.

Likewise in the modules of the drivers and lidars, where the properties say what they
exclude:

* Table: a load that fails leaves the threads of the drivers before; `stop_all` ends at
  the first `on_stop` that raises; a renderer whose thread has died answers its last
  image for ever. `stop_all` only runs when `run` raises before it serves.
* Bynav: `get_health` and `get_location` poll without a limit for a first position, so
  without one `on_stop` (and a snapshot call's worker) waits for ever, as `on_stop` does
  for a device that accepts the connection and does not answer the handshake; a proxy
  that dies of a message it cannot parse leaves its timer pinging; once the caster has
  closed, its socket is read again and again and never reconnected; `_close` may raise
  and end the bridge.
* Cameras: a stop before the loop is made, or after it could not be, raises and leaves the
  pipe where it is; one
  before the loop runs waits for ever; overlapping starts lose a pipe.
* RoboSense: a cut between the last block of a round and the first of the next may be
  passed over (`SplitWrap`); a fragment of a later datagram of the same identification
  is taken for the end of an earlier one that lost its own; after a datagram of the
  identification 0 the offset stays, and later ones of it are dropped; `pkt_queue_`
  keeps its packets over a stop, an overflow drops the whole queue, a failing `recvfrom`
  ends the receiver in silence, a stop may close the capture the reader is in
  (`PcapCrash`), and the converter's thread never runs again in a second session,
  because `_is_exit` stays set.
* Hesai: `Init` does not wait for the lidar, whose parser `SetLidarType` has made, so a
  driver whose lidar is silent starts like any other; a host of two processors starts no
  helper threads, and then no packet is taken, start and stop run without them, and
  `~Lidar` tests `parser_thread_ptr_`, which nobody has set; a stop before `Run` has
  begun is lost; after 100 ms of silence the last packet is computed again; the first
  packet of a frame that is complete at once is published before its points are there; a
  frame of too few points is passed over, and its points stay in the array that a
  snapshot reads; after a stop a snapshot may read freed points. With the default cut of
  Pandar128 at 359 degrees a lost datagram lets two turns into one frame; an AT128
  packet that cannot be decoded leaves a hole; a lidar of protocol 2.4 that is
  recognised by its packets gets the parser of 2.5; a QT128's packet without confidence
  crashes the parser; a correction file with more lasers than expected is not refused.

## 5. The proofs

The constants are arbitrary but for `ConstantsAssumption` (`None` is no dump, the empty
path no disk, recommendations are disks or the empty path, known faults) and
`StorageAssumption`, `ThumbnailAssumption`, `DriverRegistryConstants`,
`GatewayAssumption`, `RsDriverConstants`, `JumboConstants`, `PtcConstants`,
`HesaiLidarConstants`, `At128ConverterConstants` and `HesaiAssumption`, which say no
more than types, the kinds the code knows and that the *nothing* values are none of the
things. `RsDeviceAssumption` says more, of the network in front of a lidar with a micro
mirror: a burst of losses is shorter than the window within which the code takes a small
packet number for a late packet (`RANGE`), and a frame is longer than both. A turning
lidar fires more often in a round than a packet has blocks (`FieldOfView`), and any part
of the round may be blind. Cut angles are arbitrary, and so are the identifications of
datagrams.

`Acquisition_proofs`
* `TypeCorrect`: types, with `own[w]` set exactly while a handler stores or joins
  a dump.
* `ProcessIsOwned`, `StateIsTruthful`: `DumpInv`, the conjunction of
  `ProcessOwned` and `StateAgrees`, is inductive given the types. They need each
  other: that a process is gone when the thread ends follows from where the thread
  was, and what the state may say follows from the process.
* `NoDumpIsOrphaned`, `NotAcquiringIsTruthful` under `Sequential` (at most one
  worker). `NoOrphan` is not inductive: `HandlerInv` adds that the reference is
  `None` between the test and the assignment, that it is the joined dump or `None`
  during a join, and that the dump is dead when it is cleared. None of the three
  holds with two workers, as `AcqTwoStarts` shows.
* `RecorderIsImplemented`, under `Sequential`: each step is a `Recorder` step or a
  stutter. Lemmas give one step per kind of action: answering, creating, dying,
  launching, and an exit. `OneLive` (at most one dump lives) is what makes *armed*
  false when the joined dump is dead.
* `CompositionIsAnAcquisition`: with every recommendation allowed (`AnyAnswer`)
  the composed system implements `Acquisition`, so that the theorems above hold of
  it. The invariant is that the driver only publishes disks, and that its buffer
  is gone only where a stopped driver is among the faults.

`Drivers_proofs`
* `StorageTypeCorrect`, `FieldsBelongTogether`, `AnswersAreConsistent`: `FieldsInv`
  adds to the two properties what the thread's place says of its local variables
  (`ConnectionInv`, `ScanInv`).
* `TableIsStable`: `LoopsAfterLoad` adds that `_is_init_ref` is set only after the last
  registration and seen by everyone who loops.

`Thumbnail_proofs`
* `LogIsWhereChosen`, `LoggingEndsWithoutSpace`: what each of the two threads may have
  done to the shared file is told by their places; between two rounds of the manager
  the file is the one it opened.
* `SamplesStandAtTheirTimes`: `RowsAligned` needs the length every dataset of a file has
  at each place of the logger's loop, also in files that were closed under it.

`Gateway_proofs`
* `GatewayTypes`: types, and which calls, threads and workers exist.
* `StopReachesWhatWasStarted`: what a stop for all owes is among the sensors it has still to
  call, or on a fetched list of a device it has still to visit (`OwedInv`); while a list is
  being fetched nothing else is to do (`SentInv`).
* `AnsweredStopIsFinal`: a call somebody waits for is in one place, in the queue or in one
  worker (`PlaceInv`), and a handler holds a recorder just in some places (`StageInv`). As
  long as no start found the attribute `None` while another handler was between its test
  and its assignment, the attribute names the one recorder that lives, except
  while a start has it in its hand (`RaceInv`); so a sensor that was answered for, with no
  start under way, has none (`QuietInv`).

`RsDriver_proofs`
* `DriverTypeCorrect`, `EveryAddressHasOneHolder`: the invariant is the types, the
  places of the threads that exclude each other, and the disjointness itself, for
  buffers and for clouds. Lemmas state what taking from and putting into a
  queue does to its elements, and that a step of one thread leaves the other half alone.
* `PacketsStayInOrder`: packets go through stages (shown, filled, queued as a cloud, being
  measured, in hand, queued, in the receiver's buffer), and every packet of a stage is
  before every packet of a later one. A step moves packets from one stage to the
  next or drops them. That needs each queue to be in order, each hand to hold what
  its place says, and each cloud that is full to hold one turn (`OInv`).

`Reassembly_proofs`
* `UnitsInPlace`: the buffer holds units each at its place, up to the offset the
  next fragment must have, and the identifications in it are the one in hand or 0.
* `WholeDatagramsOnly`: if no two datagrams have one identification and none of several
  fragments has 0, the buffer holds a beginning of one datagram; the places where a
  datagram is cut (`Offsets`) make the offset tell the beginning from the end. The
  conditions are the theorem's, since the IP header's 16 bits repeat.
* `AnswersAreWhole`: behind whatever unit of an answer is still in the stream, the rest of
  that answer follows (`Coherent`); a client that has read
  part of a header or of a payload has read the beginning of the one that was cut, and a
  payload is only read behind a header of the client's own command. That a stream of
  whole answers has a first one is the one induction here (`LeastOf`, from the library's
  theorem that a subset of a well-founded set has a least element).

`HesaiLidar_proofs`
* `ConvertedFrameIsExact` (and the same of `HesaiLidar` alone, `PublishedFrameIsExact`):
  the packets handed to the parser are those that are done, one in its hands and those in
  the ring, in this order, and each carries its place (`QueueInv`); `frame_` holds what is
  done, and its `packet_num` is the place of the last (`FrameInv`). So once `Run` has seen
  the place of its last packet, all are done, but in the first frame, whose `packet_num`
  is 0 from the start (`WaitInv`). Packets of one frame are of one field, since
  the packet before is of that field, too (`FieldInv`).
* `SnapshotIsOfOneGivenFrame`: of the array behind the given frame every place holds a point
  of that frame, of one passed over since, or of a packet handed since (`ArrayInv`), which
  the parser's invariant gives for each of its writes.

`Lidars_proofs`
* `HesaiLossCounted`: the invariant (`HInv`) says which datagram the count began with and
  which one was counted last (`CountFrom`): the total is the number of those missed since
  the first, but for those newer than the last. An overtaken datagram takes one off
  again and turns `last` back, which is why the last one counted may be older
  than one that was. While none was late, the numbers grow and the packets counted are
  those between (`Steady`). Numbers of 32 bits are compared by their remainders, so that
  the count may wrap; fewer datagrams than a wrap are sent.
* `HesaiReadsFit`: no corrections with the loss tool, fields only of the file
  loaded, and an output whose angles are of the circle (`RInv`), whichever packet
  was decoded last; then the sizes of the packets, protocol by protocol (`TailsFit`), and
  the ends of the corrections (`WithinCircle`, `WithinBend`, `WithinField`).
* `RsCloudIsOneRound`, `RsRoundsInOrder`: one invariant, `RsInv`, with a part for each kind
  of lidar. Mechanical (`MechState`): the strategy stands at the last block decoded, which
  is at most a lost packet behind the next; so a block whose round is another than that of
  the points in hand crosses the cut, or there is no point between the cut and
  zero among them; in the modes that count, the blocks of
  a cloud are no more than the count. Micro mirror (`MemsState`): the packet number held
  is that of the last packet in order, or the one before when a packet overtook it, and
  no more than a burst behind; as a burst is shorter than `RANGE`, only a rewind is taken
  for one. Jumbo (`JumboState`): after a lost packet the number held may be an old one until
  the frame ends, when the rewind is seen again. In each part the clouds handed on are of
  rounds that rise, up to that of the cloud in hand (`CloudsInv`).
* The blocks of a packet are folded by a recursive function. What it keeps is shown
  without induction over data: `UpTo` takes the least block at which it would not be kept
  (`LeastOf`), and `FoldOfBlocks` shows that the function exists for every number of blocks.

The proofs corrected the model in four places where TLC had not reached or had not
shown the difference: `KindOfPacket` and `newBlock` had CASE guards that
overlap, where the code takes the first; `AddPoints` now counts a block's round only when
the block has points; and `MaxBlks` follows the speed of lidars slower than 600 rpm.

Proved only, since no run repeats them: `WholeDatagramsOnly`; the type invariants
`TypeOK` of `Acquisition` and `RsDriver`, `STypeOK` of `StorageMonitor` and `GTypeOK` of
`Gateway`.

Model-checked only:
* every liveness property, since fairness and `ENABLED` are out of the prover's reach;
* `FrameIsOneRound`: which blocks of an earlier turn the code lets into a frame depends on
  where in the turn each disturbance falls, and the proof would have to follow the azimuths,
  fields and frame numbers of ten protocols through it;
* `StampsRise`, the part of `CloudsInOrder` about time stamps: it needs the arithmetic of
  every lidar's firing times, rounded to the microsecond and corrected for the return mode.
  The part about rounds, numbers and sizes is `RsRoundsInOrder`. The parameters of the run
  (5 and 200 blocks to a cloud) matter here: with `num_blks_split` 1 and two returns to a
  firing, TLC finds two clouds with the time stamp of one firing.

## 6. Not modelled, and why

* Of the SDKs: trigonometry and coordinates, serial and TLS transports, GPU parsers,
  loggers, tools, demos, ROS parts. The decoders of a lidar family that only differ in
  numbers share their definitions.
* Pure checks of one answer: spin rate, PTP, temperature, destination (`AT128`, `RSBP`), the
  parsing of positions (`BynavX1`), channel locks (`SWM100FHD`).
* Single reads: `check_connection`, `check_health`, `bytes_per_sec`. `DeviceReqBuffer`
  of the gateway has the form of the poll threads in `DriverThreads`, and only `__del__`
  stops it.
* GStreamer's elements and buffers, OpenGL, image encoding: external or data only.
* `TcpDump.__del__`, `Device.__del__`, `ServiceServer.__del__`: called by the interpreter
  at a moment the code does not determine. `Drivers.stop_all` is modelled for
  the case in which `main` drops the server before it serves.
* Two sensors of one name; `main`'s reading of the configuration.
* Message definitions, generated stubs, configurations, compose files, scripts,
  `utils/`: no behaviour of their own.

The grain of some parts is coarser than that of others. `Gateway` has every access to
the shared attribute, but sees a recorder by its state and the end of its thread. In
`HesaiLidar` and `RsDriver` a packet is a number, and what it decodes to is checked
apart, in `HesaiDevice` and `RsDevice`, with one thread. In `DriverThreads` the peer's
choices are alternatives of one action, so nothing is said about how long a wait is,
only whether it can be for ever.
