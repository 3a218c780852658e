# A TLA+ development for this PowerShell-on-Android repository

The repository carries PowerShell to Android as a native app without Java
code of its own: a build program (`setup.ps1`), a host library it writes, two
PowerShell modules that draw and read input on the device (`modules/`), scripts
that talk to a device over USB (`scripts/adb.ps1`, `scripts/usbaoa.ps1`), and
the console that runs on the screen (`scripts/console/Start-Console.ps1`).
Under `lib/` it keeps the native sources it builds against and takes layouts,
tables and conventions from: .NET's assembly store, Android's linker, ELF and
resource records, LLVM's ARM driver, the JNI and activity headers.
This directory models the parts whose correctness depends on order (threads,
callbacks, messages, retries, restarts), and the places where one side writes
bytes that another side reads by position.

## 1. Inventory

| Component | Source | State it keeps | Operations | Interacts with |
| --- | --- | --- | --- | --- |
| Frame ring | `modules/Console.psm1` 766-843 | control block (magic, newest, reader), three slots (sequence, cells, cursor) in raw memory | constructor, `BeginWrite`, `Commit`, `AcquireLatest` | the draw code writes, a host in another thread or process reads |
| Terminal parser | 170-332 | automaton state, parameters, intermediates, UTF-8 remainder | `Feed` | called by `Write` with each chunk of output |
| Console model | 392-707 | entries of lines of cells, write column, style, scroll offset, editor, caret, history, selection | `Write`, `WriteProgress`, editor and history operations, `Scroll`, `Resize`, `Compose`, selection | draw handler, gesture handlers, command runner |
| Frame difference | 713-765 | none (pure) | `Frames`, `Apply` | host that repaints only what changed |
| Interactive console | `scripts/console/Start-Console.ps1` | gesture mode, pinch and drag anchors, looper timer, crash marker file | draw handler, touch/key handlers, `Invoke-ConsoleCommand` | Console model, AndroidCanvas |
| Canvas, input, timers | `modules/AndroidCanvas.psm1` | window and hardware surface, registered callbacks, looper timers, input queue | frame, window callbacks, timer start/stop, input handler registration | Android's main looper |
| ADB wire, streams, sync, shell | `scripts/adb.ps1` 358-1235 | per connection: next local id, stream table, per stream remote id, open flag, pending `WRTE` | `Connect`, `OpenStream`, `ReadStreamMessage`, `CloseStream`, `ExecuteShell`, `PushBytes`, `PullBytes`, `AdbStream` | the device's adbd over two bulk pipes |
| ADB connection holder | 1270-1432 | named pipe, the one USB connection, open streams by token | `Start-AdbServer`, `Invoke-AdbRequest`, `Stop-AdbServer`, `Test-AdbServer` | scripts in other processes |
| USB accessory negotiation | `scripts/usbaoa.ps1` | arrival watcher, device handle | `Open-AoaBulkStream`, `Invoke-AoaNegotiation` | Windows device notifications, the phone |
| Build steps and write plan | `setup.ps1` 293-620 | step graph, executed steps, approved write paths | `Resolve-StepOrder`, `Invoke-StepNode`, `Resolve-WritePlan`, `Write-BuildFile` | every step of the build |
| Build interface | `setup.ps1` 8650-9405 | screen mode, options, worker runspace, event queue | key handling, worker start/cancel/exit, event pump | the build pipeline in a worker |
| Library resolution, package reading, selection | `setup.ps1` 641-3070 | download cache, package graph | restore, verify, select assemblies | network, `lib/manifest.json` |
| Assembly store | `lib/assembly-store.cc`, `lib/AssemblyStoreGenerator.cs`, `setup.ps1` 3106-3435 | mapped payload, one record per image (three pointers), compression descriptors with a `loaded` mark, a decompression mutex | `map`/configure, `open_assembly`, `get_assembly_data`; both writers, the validator | runtime threads that open assemblies |
| ELF writers and linker | `setup.ps1` 3535-4326, `lib/linker_phdr.cpp`, `lib/ELF.h` | per process: what of an `ElfReader` has been read, the address space by pages, a shared file of relocated pages | `Read`, `Load`, `phdr_table_*` | kernel calls that may fail, other processes |
| ARM compiler driver | `lib/ARM.cpp` | triple, float ABI, feature list | `setArchNameInTriple`, `setFloatABIInTriple`, `getARMTargetFeatures` | LLVM's tables |
| Binary XML and resource table | `setup.ps1` 7640-8541, `lib/ResourceTypes.h` | a document of words; the reader's cursor, depth, pools | the writers, `Test-BinaryAxml`, `Assert-ManifestAttributeIds`, the platform's lookup | the package manager |
| Native host | `setup.ps1` 5833-6055, `modules/AndroidCanvas.psm1` 440-760, `lib/jni.h`, `native_activity.h`, `coreclrhost.h`, `host_runtime_contract.h` | activity, runtime, contract, peers, local and global references | `ANativeActivity_onCreate`, probe, registration, callbacks | Android, the VM, the runtime |
| Other binary writers | `setup.ps1` 3106-8640 | none: pure functions to bytes | host instructions, DEX, APK, signature | the build steps |
| Output parsers | `scripts/commands/Parsers` | none (pure) | text to objects | shell output |
| Tools, probes, CellCanvas | `tools/`, `scripts/probes/`, `scripts/CellCanvas.ps1` | none that survives a run | one-shot scripts | a device, the repository |

What is hard here, and so what the properties are about:

- three slots and two marks shared by threads with no lock (frame ring);
- one output stream cut into chunks at any byte, decoded by a parser that keeps
  the remainder of a sequence and of a character;
- a screen position kept across steps while the text it names is rewrapped,
  scrolled or trimmed (console model, selection, gestures);
- several streams multiplexed on one connection, each with one message in
  flight, closed from both sides (ADB);
- a connection shared by processes through a holder that may be busy, dead or
  talking to a device that has restarted (ADB holder);
- callbacks of the Android looper arriving after what they refer to is gone
  (canvas, timers, input queue);
- a worker whose late events reach a screen that has moved on (setup interface);
- threads that meet at an image of the store nobody has mapped or decompressed;
- offsets computed by hand on one side and by a structure on the other, for two
  pointer sizes (store, ELF, resources, JNI, activity and contract);
- a loader that may fail at any call, with segments that share pages.

Each is listed in `PROJECT.json` under `hazards`, at its line. Five more have no
property and stand here only: the order of the ring constructor's stores
(`Console.psm1` 781, section 6), stream ids that start over (`adb.ps1` 789,
section 6), a requester that leaves before its answer is written (`adb.ps1`
1407), a busy holder that is taken for an absent one (1419), and a packet of the
shell protocol cut across two messages (841, section 6).

## 2. Modules

| Module | Models | State and actions |
| --- | --- | --- |
| `FrameRing` | `ConsoleFrameRing` | the control block and slots as variables; one program counter per thread; every access to shared memory another thread can tell apart is an action (`SetMagic`, `SetNewest`, `SetReader`; `BeginWriteNewest`, `ChooseSlot`, `WritePart`, `StoreSequence`, `StoreNewest`; `LoadNewest`, `MarkSlot`, `LoadSequence`, `CheckNewest`, `CopyPart`, `RecheckSequence`, `Release`), and either side may die between any two |
| `LatestFrame` | what the ring promises | one atomic cell: a call returns a whole frame not older than the newest at the call |
| `FrameRingProofs`, `AdbStreamsProofs`, `AdbSyncProofs`, `AdbHolderProofs`, `ConsoleInputProofs`, `SetupInterfaceProofs`, `AssemblyStoreProofs`, `NativeHostProofs` | | the proofs about the module each is named for (the holder's are about `AdbRequests`, `AdbConnect` and `MCAdbHolder`, which puts them together; those about `AdbSync` are of `MCAdbHolder`'s specification too), section 4 |
| `AdbStreams` | `OpenStream`, `ReadStreamMessage`, `CloseStream`, `ExecuteShell`, `AdbStream` | the stream table, queues put aside, one call in progress that takes the oldest message for it and puts others aside; adbd is external: it opens, acknowledges, sends, closes, restarts |
| `AdbSync` | `PushBytes`, `PullBytes` | the packet loop as a program counter with a continuation, the reply buffer; adbd's sync service cuts replies where it likes, refuses, or dies |
| `AdbConnect` | `Connect` | the handshake on a pipe that keeps what earlier attempts left in it |
| `AdbRequests` | the holder's request loop and `Invoke-AdbClientOperation` | remembered devices, a client per device, the stream of each token with what has arrived for it; devices come and go between requests |
| `ConsoleWrap` | `Wrap` | a pure operator: the cells of a line to the rows of a screen |
| `ConsoleTranscript` | `Write`, row cache, `Compose`'s rows, scrolling, `PositionAt`, selection, the selecting drag | entries of lines of cells; the last frame drawn is kept, as touches are resolved with it |
| `ConsoleEditor` | editing, composition, history walk, completion, `Compose`'s cursor | text, caret, walk and completion state |
| `ConsoleInput` | input callback, gesture modes, hold timer, one draw per batch, window | fingers and keys append to a queue; a poll finds sources and their callbacks run one by one; time passes in ticks |
| `AssemblyStoreFormat` | `New-AssemblyStoreBytes`, `Test-AssemblyStoreBytes`, the generator | a payload is a function from offsets to the item that starts there: who computes an offset wrongly reads nothing |
| `AssemblyStore` | `assembly-store.cc` | the search by halving as a function of a span of the index; a program counter per thread in `open_assembly`; the plain stores of a mapping become visible in any order; mutex, `loaded` and the half-written buffer are separate steps |
| `ElfFormat`, `ElfImage` | records of `ELF.h`; the payload and code libraries of `setup.ps1` | an image is a function from offsets to fields of a width |
| `ElfReader` | `linker_phdr.cpp` | per process and page what the page holds and may do; `Read`, `ReserveAddressSpace`, one `LoadSegment` at a time, `FinishLoad`, `Unprotect`, `Relocate`, `Protect`, `ProtectRelro`, then writing or mapping the shared file; every kernel call may fail |
| `ArmDriver` | `ARM.cpp` | one step per part of the driver, each appending to triple, features or errors |
| `ResourceFormat`, `ResourceReader` | writers of the manifest, drawables and `resources.arsc`; the checks over them and the platform's lookup | 16-bit words; the reader is a cursor that takes a chunk per step; one word of the document may be damaged |
| `JniTable`, `NativeHost` | JNI slots; `ANativeActivity_onCreate`, the contract and its probe, the session's opening of the canvas, the window callbacks and frames of `AndroidCanvas.psm1` | a struct is read at an offset, a function is fetched from its slot; Android chooses which callback comes and which call fails |
| `SetupInterface` | the loop of `Invoke-SetupInterface`, its worker, leaving | modes, popups and options; the worker posts events into a bounded queue; handling and drawing are separate actions |

`MC...` modules only instantiate. `MCAdbHolder` composes `AdbRequests`,
`AdbConnect` and `AdbSync` as three levels of one component, `MCNative` puts
four of the parts under `lib/` side by side, and `MCMainThread` the host and the
console's editor: a behaviour is one of a single level or part, so the state
spaces add up instead of multiplying. `MCConsoleTranscript` has two kinds of
behaviour for the same reason. `ConsoleTranscript` and `ConsoleEditor` share
`ConsoleWrap`; the console's modules otherwise meet at narrow places, and each
takes the other side's possible inputs as its environment (the drag of
`ConsoleTranscript` is what the gestures can ask for).

A definition whose name has the form `Operation_Change` is a plausible mistake
in `Operation`; with it in place of the operation the property named for it in
`PROJECT.json` fails, which shows that the property depends on that code.

What four of these leave out, or stand for by something smaller:

- `AdbRequests` keeps the `AdbStream` of a token as long as the holder's table
  does, which is longer than the client it was opened on lives. Of what arrived
  for a stream it tells only whether there is something to read, which kinds of
  message another request has set aside for it, and whether the stream has
  ended. Which bytes are read, and the response a requester gets, are
  `AdbStreams`'s matter. `spoke` records the client that a request sent to or
  received from, so that `StreamsOfThisConnection` can say that an old token
  gives what had arrived and its end, and never speaks to the device.
- `AdbStreams` takes a WRTE of a shell for one packet (section 6).
- `NativeHost` models of the start script that it calls
  `Initialize-AndroidCanvas`, once, and `Register-WindowDrawHandler`, and may end
  before either is through. One class stands for the four that are found, and one
  method for all that are resolved. The global references made for the life of
  the process are not counted. The code does not look at their results, so the
  VM may abort at the next call; `CallbacksLeaveNothing` leaves that to the
  session (`Opening`). onCreate hands two local references to the VM, which
  frees them as the native call ends (`Return`): the typeface of 467, made
  global at 495 but not removed, and the one that `setTypeface` gives back (498).
- `ConsoleEditor` knows what completion remembers (`completion`): the text it
  worked on and the one it left. `CompletionKeepsTyping` asks that it only puts a
  match in place of a scalar or of an earlier match. It does not ask that
  completion begin anew after an edit: typing that leads back to the text
  completion left goes on with its matches, where the comment (`Console.psm1`
  898) promises that of calls with no edit in between and says nothing of others.

## 3. Runs

| Run | Question | Bounds, and why they are enough |
| --- | --- | --- |
| `ring` | Does a reader ever see a torn, mislabelled or old frame; is the ring an atomic cell; does anybody wait? | 1 reader, 2 words, 4 frames: with three slots the fourth frame reuses a slot a slow reader may still hold, and two words are enough to be torn |
| `ring_two_readers` | the same with two readers | expected to fail, section 6 |
| `adb_streams` | Does multiplexing lose, duplicate, reorder or misdeliver? | 2 streams (one to be disturbed by), 2 units from the device and 1 from the host per stream (the write after a write, and one in several pieces, are left to the theorem `WritesAreAccepted`), 1 time-out, 1 restart |
| `adb_holder` | Do requests find a working connection again, is there one per device, does success of a transfer mean the whole file, and can both ends wait for each other? | 2 devices, 1 token, 3 plug-ins, 3 connections, 1 fault; for the handshake 3 late answers and 8 tokens, of which no state uses all; 2 transfers, files of up to 3 units with 2 per packet (a full packet and a partial one), up to 3 units per reply message, so a reply may be cut anywhere in a 2-unit header |
| `transcript` | Is every character written drawn once, from a fresh cache, and found by touch; is what is highlighted what is copied? | 1 line of up to 4 cells of every kind of character at 1 to 3 columns (two wide characters, or one in the middle, at the edge and across it); and 2 entries of 2 lines of 2 cells, any drag between any two cells, output in between |
| `transcript_half_selection` | the same with a grid that changes | expected to fail, section 6 |
| `input` | Does a hold act when and only when held; is the screen ever stale? | 2 fingers, hold time 2 ticks, double-tap time 1 tick, 1 event in the queue and all kinds of events |
| `input_late_hold` | Does a hold act only when its timer fired? | expected to fail, section 6 |
| `native`, store | Does every name get its own image, decompressed once; do the validator and the runtime agree? | 2 threads; stores of 1 to 3 assemblies, sorted by either writer; every pattern of colliding hashes among the names that matters; images plain, with debug data, compressed, shrunk, grown, damaged |
| `native`, ELF | Does a library load as its file says, and do the libraries of `setup.ps1` load and resolve? | 3 targets, page sizes 4096 and 16384, SDK 25 and 34, alone, in a package, truncated, into a caller's range of 1, 6 or 7 pages; 14 linked libraries (shared pages, two relro segments, W+E, bss, text relocations, BTI); 2 processes for the two that share relro pages |
| `native`, ARM | Do triple, float ABI and features agree? | every command line of up to 2 of 36 options, 7 triples |
| `native`, documents | Does what is written read back, is the damaged rejected, does reading end? | the manifest in both forms and both drawables; any one word of a drawable replaced by one of 5 values |
| `main_thread`, host | Is nothing left behind by callbacks and windows; is the contract read as it was written? | pointer sizes 4 and 8, 2 activities, 3 windows, 3 assemblies, each call failing or not |
| `main_thread`, editor | Are caret, draft and completion right in any order of edits? | texts of up to 2 scalars, 2 matches; 1 history entry, 1 to 3 columns, 1 or 2 rows, 1 line above; and 2 history entries, so that a walk has a middle, on 2 columns and 1 row |
| `store_race` | Can two threads map one image at the same time? | expected to fail, section 6 |
| `setup_interface` | Do builds mix, is progress true, is the screen fresh, do packages go as answered? | 2 steps (the second downloads), 2 folders, 2 events in the queue, 1 line besides the first, any number of builds |

`CHECK_DEADLOCK FALSE` stands in every configuration, since every one of these
systems may really come to rest: the frames, streams, transfers or holders of
the bound are used up, or the interface has been left. What must not come to
rest is stated as a liveness property instead.

The invariants and action properties, in short (each is explained where it is
defined):

- `ring`: `NoTornFrame`, `NeverGoesBack`, `ImplementsLatestFrame`,
  `WriterNeverWaits`, `AcquireReturns`.
- `adb_streams`: `ReadsAreWhole` (`NothingLost`, `EndIsComplete`),
  `ProtocolIsKept` (`OneAckPerWrite`, `ClosedForGood`), `WriteIsAccepted`,
  `WriteReturns`.
- `adb_holder`: `ConnectionsAreKept` (`OneConnection`,
  `StreamsOfThisConnection`), `NamedRetryWorks`, `PromptConnect`, `Recovers`,
  `FilesAreWhole` (`PushStores`, `PullReturns`, `NothingLeftOver`),
  `TransferEnds`.
- `transcript`: `RowsShowTheText` (`CacheIsFresh`, `EveryCellOnce`,
  `TouchHitsCell`), `CopiesWhatIsShown`.
- `input`: `HoldsAreSound` (`HoldIsHeld`), `ViewIsFresh`, `HoldActs`.
- `setup_interface`: `BuildIsShown` (`OneBuild`, `ProgressIsTrue`),
  `ScreenIsFresh`, `PackagesAsAnswered`.
- `native`: `OpensItsOwnImage`, `LoadedIsWhole`, `AcceptsWhatResolves`,
  `OpenReturns` (store); `SetupLibraryLoads`, `LoadIsFaithful` (with
  `RangeIsItsOwn`), `ProtectionsSettle` (with `NeverWritableAndExecutable`),
  `RelroKeepsContents` (ELF); `FeaturesAgree` (ARM); `ReadsBack`, `GoesForward`
  (documents).
- `main_thread`: `CallbacksLeaveNothing`, `WindowGoesClean`, `HostHandsOver`
  (with `RunsOnce` and `ProbeAnswers`; host); `CaretIsSound`
  (`CaretOnItsCell`), `DraftIsRestored`, `CompletionKeepsTyping`
  (editor).

### Fairness

- `FrameRing`: a thread inside `Commit` or `AcquireLatest` is scheduled again.
  Starting a call, dying and attaching are never forced. `AcquireReturns`
  holds because the run commits finitely many frames: each retry is paid for by
  a commit.
- `AdbStreams`: as long as nothing has timed out or restarted, the call in
  progress keeps reading and adbd keeps serving. Which calls are made, whether a
  service ever sends and what goes on after a disturbance is left open.
- `AdbSync`: both ends go on; the service's death is never forced.
- `AdbConnect`: a failed request is followed by another one, the device answers,
  the user looks at the device, and a read that nothing will answer times out
  (the pipe policy sets 10 s). `AdbRequests` is under no fairness.
- `ConsoleInput`: time passes and the looper runs the callbacks it found.
  `HoldActs` assumes in addition that input comes to rest again and again, as
  the input callback handles everything there is before it returns. `keepsUp`
  is chosen once: TRUE is the ideal looper that handles an event before the
  next tick, for which `HoldIsHeld` is stated; FALSE is one that may be late.
- `AssemblyStore`: every runtime thread is scheduled, and a thread that waits
  for the mutex gets it if it comes free again and again, as the system's
  mutexes do; a thread need not open anything.
- `SetupInterface`, `NativeHost` and the other parts of `native` have safety
  properties only.

## 4. Proofs

`FrameRingProofs` proves, for every number of words and frames:

- `TypeCorrect`: types, and that no slot's sequence is ahead of the frames
  begun. Any number of readers, serial attachment or not.
- `SingleReaderNeverTorn`, `SingleReaderHeldSlot`, `SingleReaderNeverGoesBack`
  and `SingleReaderRegister`, under `OneReader` (all readers are one, the use
  the documentation describes) and `SerialAttach` (constructors that
  initialise do not overlap with anything): no torn frame, no write into a slot
  that is being copied, no step back in time, and the refinement of
  `LatestFrame`.

`NoTornFrame` alone is not inductive: a reader about to copy must know that the
slot it marked is out of the writer's reach, which is so because it saw the
slot to be newest after its mark was visible. The writer, which read newest and
mark at different times, may still hold an older view; what saves the reader is
that a writer that chose its slot before the mark publishes it before the
reader's confirmation, or has not chosen the newest one. `RingInv` says this:

- `InitialisedAlone`: until the control block is complete nobody else runs;
- `WriterInv`: a writer past `BeginWrite` fills a slot that is not newest, and
  what it publishes is whole and newer than all others;
- `NewestIntact`: the newest slot is whole;
- `MarkInv`: while a reader works on its slot the mark is its own; once it has
  confirmed the slot, the writer is not filling it and its words and sequence
  stand still;
- `CopyInv`, `FreshInv`, `GotInv`: what has been copied belongs to the sequence
  read, is at least as new as the newest at the call, and what was returned
  stays so.

The proof goes action by action: a reader's step keeps the writer's part and
the other way round (`ReaderKeepsWriter`, `WriterKeepsReader`, ...), which is
where the order of stores in the code matters, most of all `StoreSequence`
(its effect is a lemma of its own). `RingInv` was model-checked under the
bounds of `ring` before it was proved. The refinement maps every step to
`Call`, `Return`, `Abandon`, `Commit` or a stutter.

`AdbStreamsProofs` proves `ReadsStayWhole` (`ReadsAreWhole` of the run
`adb_streams`) for any number of streams, units, time-outs and restarts, under
`DistinctIds`: no more streams are opened than there are ids, so none is used
twice (what happens when they start over is a hazard no property covers, section
1). The invariant is said stream by stream, so that a step need only be looked
at for the stream it acts on; every other stream sees the same pipes
(`Elsewhere`). `Lane`: of a stream there is one unit at most between the device
and the caller, aside or in the pipe, and its end is behind it. `Paced`: the
device sends a unit only when there is none on the way and no acknowledgement
either. `OneLife`: before the device takes the OPEN there is nothing of the
stream anywhere, and after its end there is neither a socket nor an OPEN that
could make one. `Numbered` and `Tally` then count: what the caller and the
buffer have is 1, 2, ... up to all that was sent, but for the unit on its way.
`StreamsInv` was model-checked under the bounds of `adb_streams` before it was
proved.

The module also proves `ProtocolStaysKept` (`ProtocolIsKept`) and
`WritesAreAccepted` (`WriteIsAccepted`) under the same hypothesis. Counting
OKAYs is not inductive by itself: one more can be on the way for every reason
the device has to send one. `ProtocolInv` says, stream by stream (`Kept`), where
the only OKAY of a stream can be and what the host waits for then (`Agreed`,
`Awaited`), that data does not overtake the first of them (`Leading`), and what
is left of a stream that one end has closed (`Ended`). For writes it says
(`Piecewise`), as long as nothing has timed out or restarted, that a piece is
in the pipe, or accepted and its OKAY on the way, or acknowledged, and never two
of these.

`AdbHolderProofs` proves, for any number of devices, clients, tokens,
sessions and faults, what the `adb_holder` run checks of requests and of the
handshake: `Typed`, `DeviceSeesOneConnection`,
`StreamsStayOnTheirConnection`, `NamedRequestRecovers` of `AdbRequests`, and of
`HolderSpec`, in which a behaviour is one of requests, of a handshake or of a
transfer, `ConnectionsStayKept` (`ConnectionsAreKept`) and `ConnectsPromptly`
(`PromptConnect`). For requests the invariant relates the
holder's tables to the history of the clients they came from: `Registered` (a
client that has not been disposed is the one its device has in the table),
`Counted` (each CNXN of a session is paid for by the present client, a failure
or a holder that went away), and `Replugged`, without which `NamedRetryWorks`
is not inductive: after a miss the remembered list is discarded or the client
dropped, so that the next request enumerates or connects. `StreamsOfThisConnection`
comes from `Registered` too: a stream keeps the client it was opened on, which
can send and receive as long as it has not been disposed. For the handshake it
is `Turns`: as long as no answer has come late (`slow = 0`), host and device
talk in turns, and each place of `Connect` has one pair of pipes, apart from a
`WRTE` that the device sent on the connection before.

`AdbSyncProofs` proves `FilesArriveWhole` (`FilesAreWhole` of `adb_holder`) of
`HolderSpec`, for files of any size, chunks and bursts of any length and any
number of transfers on a connection. `TransferInv` is an account of everything
under way. Towards the host, `Rest` is what is left to read: the buffer, what
the one `WRTE` on its way carries, and what the service has yet to write. It
does not depend on where adbd cuts its replies, and `Stage` says what it must be
at each place of `PushBytes` and `PullBytes`: nothing, a status, a failure, or
the chunks of the part of the file the host does not have (`Reading`,
`ReadingChunk`). Towards the device, a packet takes the service from one place
in the transfer to another (`Goes`), the packets it has yet to take lead from
where it is (`Served`) to where the host is (`Leads`, `Underway`), so the status
of a push is there only when the service has stored all of the file. Both rest
on `OneAtATime`: there is one packet or one acknowledgement under way in either
direction. What a transfer that failed leaves behind is told from the next one
by its number (`Numbered`), and until the device has seen the next OPEN nothing
in the pipes is of that stream (`Unseen`). The chunks of a file are a recursive
function; that it is well defined (`ChunksUnfold`) and that it gives units, to
which the chunk headers fit (`ChunksAre`, `ChunksType`), is proved by least
counterexamples. `TransferInv` was model-checked under the bounds of
`adb_holder` before it was proved.

`SetupInterfaceProofs` proves, for any number of steps, folders, lines and
waiting events, `ScreenStaysFresh`, `PackagesFollowTheAnswer` and
`BuildIsShownTruly`. The last needs the queue: the events in it belong to the
build on the screen, and the worker's place is the number of steps shown as
done plus the `[PASS]` events still waiting (`Passing`, `Running`), as long as
no last event has been posted; `Single` says there is one last event at most.

`ConsoleInputProofs` proves, for any times, kinds of events and length of the
queue, `Typed`, `WindowStaysFresh` and `HoldsComeFromFingers`. Freshness rests
on `Fresh`: what the window does not show yet is marked, and the input callback
that draws it is still to come. Holds rest on `Timely`, of a looper that keeps
up: while a hold is pending and no event that would end it waits, the ticks the
finger has been held and those the timer has left are at least the hold time
(`Charged`); no time has passed since a touch whose event waits (`Laid`); and an
expired timer is handled before anything else happens (`Paced`). A looper that
does not keep up has no such invariant, which is what `input_late_hold` shows.

`AssemblyStoreProofs` proves, for any number of threads, sources and requests,
`ImagesAreLoadedWhole` (`LoadedIsWhole`) and `CallsOpenTheirOwnImage`
(`OpensItsOwnImage`), under `StoreHypotheses`, which are about data alone and
which TLC evaluates for the sources of the run (`TheDataIsSound` in
`MCAssemblyStore`):

- `StoresAreLaidOut`: of a store that the validator accepted, descriptors and
  images of different assemblies are apart;
- `BuffersAreApart`: the runtime's descriptors of compressed images share no
  buffer;
- `StoresAreIndexed`: the index is sorted by hash, an entry has the
  descriptor of an assembly that its name stands for, and every assembly has an
  entry for each of its names (`AcceptsWhatResolves` checks that validators
  accept such stores);
- `NamesAreClear`: a name asked for does not stand for an assembly with an image
  and for one without.

Nothing is presumed of the search: `SearchFinds` proves that halving the index,
with any number of entries and of equal hashes, and looking at the run of equal
hashes behind gives an entry of an assembly the name stands for, or that there
is none. The halving is a function of a span of the index, and the proof takes a
shortest span with a wrong answer. `StoreInv` then says of each thread what its
place lets it rely on. Two parts carry the weight: `PointersAreIts` (whatever of
a mapping is visible, in whatever order the plain stores of two threads became
so, is what the image's own descriptor gives) and `HoldsMutex` (from lock to
unlock the descriptor is the holder's, and `loaded` is set after the buffer is
whole).

`NativeHostProofs` proves, for any number of activities and windows, any
assembly table and requests, and pointers of 4 or 8 bytes, `LeavesNothing`
(`CallbacksLeaveNothing`), `WindowsGoClean` (`WindowGoesClean`) and `HandsOver`
(`HostHandsOver`). `HostHypotheses`, evaluated by TLC in `MCMainThread`, take the
sizes of a pointer, that the names in the table are not its terminator, and that
the JNI slots of both scripts are those of the functions they are named for (the
table of `jni.h` is written out, so this is a matter of evaluation). What the
header lays out is proved: `OffsetsArePointers` gives every field's offset on
both targets, so that the constant offset of 64-bit code reads the directory
(`ReadsFields`) and the runtime finds the probe (`ContractHasProbe`);
`ProbeFinds` proves that the walk of the table stops at the first entry of the
name. `HostInv` is about what the main thread holds at each of its places:
`References` says which local references the VM has given out (`Locals`, and
while the session opens some of `LocalsOfOpening`), that the only global one
counted is the surface the module remembers, and that a canvas is locked while
the frame has it; the frame's window, surface and canvas (`Frame`)
and the module's (`Canvas`) are those of the window there is. It also says when
something may go wrong, which shows why `CallbacksLeaveNothing` speaks of the
hardware path: without it an exception may be pending at the call that locks the
canvas, and the VM aborts; and while the session opens the VM may abort on
either path. That PowerShell is run at most once (`Started`) comes from CoreCLR:
`RunPowerShell` is reached only from a start that succeeded, of which a process
has one, and nothing has been run where it is reached.

But for the hypotheses named above, these proofs assume of the constants what
the modules' `ASSUME`s say, no more.

Only model-checked: liveness and everything under fairness, which the prover
does not do; the safety of transcript and editor, of the ELF, ARM
and document parts of `native` and of the store's writers and validator
(`AcceptsWhatResolves`); what a recursive definition builds from its data
(`Wrap` is a fold over a line, and induction over data is out of the prover's
reach).

Assumed in the model of the ring: memory is sequentially consistent and a word
is written at once. The module's comment leaves ordering to the host's lowered
implementation, and the code here does not have fences; a 64-bit sequence is
aligned only if `cols * rows` is even or the slot is 0 or 2.

## 5. Plan

Done, in this order: `FrameRing`, `LatestFrame` and their proofs; the four ADB
modules; the three console modules; `SetupInterface`; the store, ELF, ARM,
document and host modules and `MCNative`; the proofs about the streams, the
holder, the file transfers, the build interface, the console input, the assembly store and the
native host. Next:

1. `ConsoleParser` (escape automaton, UTF-8 remainder): feeding a text in any
   pieces gives what feeding it whole gives; a sequence cut off by an error
   swallows nothing printable.
2. `AdbPipe` (named pipe, busy holder, several holders), with `AdbRequests`:
   a token known to nobody, two holders and one device.
3. `AoaNegotiation`: the device that comes back, found by notification or by a
   look at the bus, whichever comes first.
4. `ProfileGuard`: a crash marker that is neither lost nor kept after a good
   start. Two activities alive at once in `NativeHost`.
5. `StepGraph` (steps, write plan, headless run), `PackageCache` (verified
   copies in a folder): nothing is written outside the plan, no unverified
   bytes are used, an interrupted download is not taken for a package.
6. The remaining pure writers: frame difference, LEB128 and DEX ordering, APK
   alignment, signing block and chunked digest.
7. Proofs: `ProtectionsSettle` of `ElfReader` (pages end with the protection of
   their segments, never writable and executable but where the file asks for
   it); `CopiesWhatIsShown` and `CaretIsSound`, with lemmas about `Wrap`'s single
   step.

## 6. Where the code and its documents differ

Shown by a run:

- **Two readers of a ring** (`ring_two_readers`). The mark is one field. A
  reader that finishes clears it while another copies, the writer fills that
  slot, and the second look at the sequence (`Console.psm1` 831) comes before
  `Commit` changes the sequence, as the words are written first. So a torn
  frame is returned, where `docs/console-reference.md` 138 calls it
  "detectable instead of silent".
- **Half a selection** (`transcript_half_selection`). A drag keeps its focus as
  a screen cell; after a redraw at another size that cell may lie outside the
  transcript, `PositionAt` gives `$null` and the selection has one end. Every
  draw then throws until a tap clears it (`Start-Console.ps1` 265-273).
- **A late hold** (`input_late_hold`). The timer callback runs its handler
  whatever `read` on the timer returned (`AndroidCanvas.psm1` 875), also when
  the input callback of the same poll has just stopped the timer: a finger that
  has begun to move pastes.

- **Two threads map an image** (`store_race`). `open_assembly` fills an entry by
  plain stores and tests the one it stores first (`assembly-store.cc` 260-267).
  A thread that arrives after `image_data` and before `descriptor` goes on and
  reads through a null descriptor (74, 185), where the comment says that
  "nothing bad will happen".

Seen while modelling; the models include the behaviour and their properties are
stated so that they hold with it:

- *Ring.* A constructor stores the magic before the fields
  (`Console.psm1` 781); an attach in between lets both sides run and resets
  newest and mark under them, and one reader then gets a torn frame
  (`SerialAttach = FALSE`; the reference, 92, has both sides construct their
  own instance over the same bytes and says nothing of an order). One reader
  does retry when the writer commits between its load of newest and its look
  (138 says that with one reader it never does).
- *ADB streams.* After a time-out the next write takes the late `OKAY` of the
  failed one for its own (`adb.ps1` 1216). Local ids start over after the
  largest without a look at open streams (789; 410 says they are unique per connection).
  `ExecuteShell` decodes every WRTE by itself (841): a packet cut in two by the
  device would throw or lose its rest.
- *ADB connection.* The pipe's time-out is 10 s (526), the comment above it says
  5000 ms. A CNXN or AUTH that answers an earlier attempt is taken for the
  answer to this one (709; 706 says stale packets are ignored): recovery takes
  more attempts.
- *ADB holder.* Opening a device that is gone fails at 1393, outside the `try`
  that discards the remembered list (1340 says any connection failure discards
  it): requests without a device name go on failing until something else
  enumerates. Any failing operation drops the
  connection, also for the streams of other requesters (1401): their tokens stay,
  give what had arrived and fail from then on. Only an `IOException` at the pipe is
  caught there (1409).
- *Console.* CR and BS can leave half of a wide character (`Console.psm1` 470;
  the reference, 60 and 74, knows cells of width 0 only as continuations of a
  wide one). Scrolling goes past the top by as much as one likes, and the way
  back is as long (522; 252). The
  cursor is computed by division (609), so after a wide character that moved to
  the next row it is off by a cell, and it is not visible when the text fills
  its rows to the last column (the reference, 254: "at the caret's cell"). `CaretOnItsCell` is therefore checked for
  texts without wide characters and cells after the caret. A row of
  `WriteProgress` with wide characters is cut by cells, not columns (592).
- *Gestures.* Lifting one of two fingers after the keyboard gesture was armed
  still toggles it (`Start-Console.ps1` 219; 129: "two fingers, held still"); a second
  finger takes over a gesture that was decided as scrolling (212; 69: "decided by the first movement and kept until lift"). A draw
  handler that throws leaves the dirty mark cleared.
- *Setup.* After the last step's `[PASS]` no step is active, and the next
  line makes the first one active again (`setup.ps1` 9260). A failure after
  that, such as "The repository changed during the build" (9438), marks the
  completed step 1 as failed, though 9250 says nothing is inferred;
  `ProgressIsTrue` says nothing of that case. Between the worker's last event
  and the end of its invocation Build only shows the old build (9053), with
  the plan of the step now chosen. A blank line of output is logged but marks
  nothing, so the log view moves by a line only at the next one (9248);
  `ScreenIsFresh` speaks of lines that are not blank. Another cache folder can
  be picked after a build; the question on exit is then about that one.
  Toggling the download option decides keeping packages and with it overrides
  `-DeletePackages` (8775). The menu changes locations and options after the
  write plan was approved (9090), and the worker is not given
  `-ApkPath`, `-Startup` and `-KeepIntermediates`. Steps 10 and 11 are
  accepted (152) and do not exist. Line 198 of the help puts the APK next to
  `setup.ps1`, the code puts it into `build` (466). `Save-BuildLog` writes to
  the output folder, which is in the plan only with `-KeepIntermediates` or
  when the APK lies in or above it (8802), so the log is often refused.
- *Linker.* `LoadSegments` compares a segment's end, counted from the start of
  the library, with the size of the whole file (`linker_phdr.cpp` 726), so for a
  library inside a package it does not notice one that is cut off there, or a
  segment that reaches into the next entry. A load that fails gives its range
  back but not the gap behind it, and leaves a caller's range as it is (the
  destructor is not in this file). Two segments that share a page get the flags
  of the last one; a second pass over the read-only segments (text relocations,
  BTI) undoes that (`ProtectionsSettle` leaves the case out).
- *ARM driver.* `+i8mm` turns NEON on again after soft float has turned it off
  (`ARM.cpp` 743 onwards). `SoftMeansNoFP` leaves it out.
- *Manifest.* Every permission is written before the leanback feature and once more
  after it (`setup.ps1` 8203, 8220).
- *Canvas.* The software path does not check the surface it gets from the
  window for null. When Android makes the activity again in the same process, no
  handlers are registered for it (`ROADMAP.md` 796 knows it).

## 7. Not modelled

What `PROJECT.json` lists as `not_modelled` or `partly`, with reasons there:
encodings and single calls into Android or Windows, which have no order to get
wrong; the pure writers of the plan's sixth item; tools and probes that run
once; upstream files without logic of their own. In the modelled parts, wording,
colors, styles, pixel geometry and logging are left out, a message or a file is
a few numbered units, and time is a small number of ticks. Machine code and text
of a library are sizes; a CRC is any function; the tables of LLVM, the streaming
interface of zstd, `checkARMFloatABI` (a warning) and the interpreter name of a
library are left out.
