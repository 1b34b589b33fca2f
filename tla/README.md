# Verification of xdg-desktop-portal-umbriel

TLA+ models of the screen cast and screenshot portal backend, the TLC
configurations that check them, and TLAPS proofs of their safety properties. Source paths are
relative to the repository (`src/dbus/screencast.cpp` and so on).

## The system

The program is a D-Bus service with one thread and one epoll loop. The portal
frontend calls it; it talks to a Wayland compositor, to a PipeWire daemon and to
child processes. A second program, the share picker, has a user interface thread
and a preview worker thread.

| component | state | operations and callbacks | talks to |
|---|---|---|---|
| ScreenCast portal (`dbus/screencast.cpp`, `dbus/session.cpp`) | `sessions`, `inflight`, `memoryRestores`; a Session's `isClosed`, `streams`, restore selections | CreateSession, SelectSources, Start, Session.Close, Request.Close, deferred erase, chooser exit, constraints, 5 s timeout, stopped captures | loop, AsyncProcess, Wayland, PipeWire |
| stream pump (`StreamState`, `pipewire/pipewire.cpp`) | `frameInFlight`, `constraintsDirty`, `waitingForConstraints`, `reconfiguring`, `buffers` | processRequest, frameReady, frameFailed, constraintsChanged, bufferAdded, stream state, format and buffer callbacks | Wayland, PipeWire, loop |
| child processes (`dbus/request.cpp`) | pid, three watches, output, callback, `finished` | start, writeReady, readReady, pollExit, terminate, destroy | loop, kernel |
| Screenshot portal (`dbus/screenshot.cpp`) | Operation, CaptureState | Screenshot, PickColor, tool/chooser/slurp exit, constraints, frame, timeout, Close | loop, AsyncProcess, Wayland |
| Request objects (`dbus/request.cpp`) | the exported object | attach, Close, deferred removal | both portals |
| configuration (`config/config.cpp`) | three inotify watches, debounce timer, current configuration | handleInotify, establishWatches, reload | file system, loop |
| picker previews (`picker/previews.cpp`, `picker/main.cpp`) | shared queue, started, results; worker's connection; cards | request, run, captureSource, onPreviewResults, stop, destroy | Wayland, GTK main loop |
| event loop (`loop/loop.cpp`) | `fds`, `timers`, `nextId`, batch | addFd, removeFd, addTimer, removeTimer, run, quit | everything |
| Wayland connection (`wayland/wayland.cpp`) | prepared read, pending writes, `disconnected` | round trips, handleDisplayEvents, prepareRead, flush, loss | loop, compositor |
| registry (`wayland/wayland.cpp`) | `outputStates`, `toplevelStates`, the lists made from them | one handler per event of an output or a window | compositor |
| cursor capture (`wayland/wayland.cpp`) | constraints, buffer, pending frame, `requestPending`, metadata | cursor session events, frames, constraints | stream pump, compositor |
| restore data and chooser selections (`dbus/screencast.cpp`, `dbus/session.cpp`) | a session's selections, restore data handed out | matchRestoreSelections, parseChooserSelections, restoreDataVariant | registry, frontend |
| format tables, PNG, GTK widgets, D-Bus glue | data | conversions | |

What makes this hard: callbacks of different sources end the same operation
(answer, cancel, timeout, compositor, chooser) in any order; objects are known
by names that are used again (session handles, file descriptors, buffer
addresses); PipeWire and the compositor change sizes independently of each
other; the file system changes between two system calls; two threads share a
queue. `PROJECT.json` lists each hazard at its line with the properties for it.

## Modules

| module | models | actions |
|---|---|---|
| `PortalRequest` | abstract: what a call with a Request handle promises (at most one answer, object exported while pending and withdrawn after) | `Receive Answer Withdraw Die` |
| `ScreenCast` | session table, sessions, Start operations | one per D-Bus method, timer, chooser exit and Wayland event |
| `StreamPump` | one stream between compositor and PipeWire | StreamState's callbacks, PipeWire's callbacks, the compositor's events |
| `AsyncProcess` | one child process, its pipes and the loop's callbacks | start, watches, poll, terminate, destroy; the child's own steps |
| `Screenshot` | concurrent Screenshot and PickColor calls on one connection | one per method, process exit, timer and Wayland event |
| `ConfigWatcher` | hot reload against a changing file system | one per system call that sets a watch or loads; the file system's changes |
| `Previews` | preview worker and user interface of the picker | critical sections of both threads |
| `Loop` | epoll dispatch with callbacks that add and remove watches | add, remove, dispatch, end of callback |
| `Sources` | outputs and windows, their listeners and lists, and the selections a Start makes from them | the compositor's changes, one per listener, one per step of a Start |
| `WaylandDisplay` | the connection: round trips, prepared read, flush, loss, from start to end of the process | constructor, loop, signal, compositor |
| `CursorCapture` | the cursor session of a capture, over `WaylandDisplay` | one per event, stream frame, opening and closing |
| `ScreenCastProofs`, `ScreenshotProofs`, `LoopProofs`, `StreamPumpProofs`, `ConfigWatcherProofs`, `CursorCaptureProofs`, `PreviewsProofs`, `SourcesProofs` | the inductive invariant of the module each is named after, its lemmas and its theorems; `LoopProofs` has those of `AsyncProcess`, whose definitions carry `Process` in their names, as well | |

`MC*` modules extend these for TLC. `ScreenCast` and `Screenshot` each instantiate
`PortalRequest` with a refinement mapping (`Call`), and the refinement is checked
as the properties `StartIsPortalRequest` and `CallIsPortalRequest`, its liveness
included.

Variables keep the names of the fields they stand for; where the code has a set
of objects the model has a function over their identifiers. `PROJECT.json` maps
every definition to its lines.

### ScreenCast

A session is a number given in order of creation; the table maps a path to one.
A Session object lives while the table or an operation in flight holds it
(`Alive`), and with it its streams. `erasures` counts pending `deferEraseSession`
timers per path: a timer erases whatever is at the path when it fires, which is
the reason a frontend that uses a handle again at once can lose an open session
(`OnlyOldErases` allows that and no other). Starts overlap freely, on one session
or on two.
A Start goes through "chooser" and "capturing" to "done"; `Finish` is
`StartOperation::finish` after its test of `done`. Which selections a token
or a chooser line yields is abstracted to how many (`Restorable`, `Matching`,
`Choosable`); `Sources` has which.

### StreamPump

Slots are addresses of `pw_buffer`s. PipeWire offers, negotiates and adds buffers
in steps of its own; the compositor answers frames in order on `events`. `offer`
is what the code has asked for, `seen` what PipeWire works with, `width` the size
new buffers get. Whether an offer is refused (`RefusesOffer`) and which buffers
can be allocated (`Allocatable`) is left open, as it depends on formats, drivers
and memory. `want` is the size the source has by now. `allBacked` is a
history variable: false once a negotiation backed fewer addresses than before or
an allocation failed; the properties that need a full set of buffers say so.
`mismatched` is another: the newest frame went into a buffer of another size than
the constraints the stream had, so that its failure tells the stream nothing new.

### AsyncProcess

Data is counted in units: what matters is how much is in which pipe and which
ends are open. The model keeps apart the child's exit, the closing of its
standard output (descendants may hold it), EPOLLHUP and the reaping. With
`SigtermBlocked` the child keeps the signal mask it inherits.

### Screenshot

`intact` says whether the completion callback still holds what it captured:
`onCaptureConstraints` moves it into the frame's callback. `leaked` counts
buffers no CaptureState refers to. `connected` is shared by all calls. What a
tool prints, a picture or a pixel comes to is its answer only (`Saved`,
`Sampled`, `ColorAnswers`). A compositor that hangs up (`Disconnect`) ends the
process when the connection's watch notices it (`QuitDisconnected`:
`markDisconnected` quits the loop); until then calls go on without it. `ended` is
the end of the process, this or a callback that was moved from.

### ConfigWatcher

`level` counts how many directories of the chain exist, from one that always
does down to the configuration's own. `astray` is a history variable naming the
circumstances the watcher is not made for: a change during start-up or while
directory watches are set up ("raced"), the directory renamed away ("moved"),
its parent missing ("deep"). Each property says which it needs to be absent.

### Previews and Loop

`Previews` has one action per critical section or step of the worker; the
condition variable is the phase "asleep". In `Loop` a registration is a serial
number, so that an identifier or a descriptor number used again can be told from
the registration it belonged to. `reported` is a history variable: the registrations
the present batch has events of. A callback may read what another watch is for
(`ReadAhead`: a capture that completes iterates PipeWire's loop in
`processPending`), so that by the time of its event a descriptor need not be
readable any more.

### Sources

An output is its registry name, which is never used again, so an output that is
unplugged and comes back on its connector is another one with the same name. Each
property of an output or a window is an event of its own on `wire`, and calls come
between any two. `outputStates`, `toplevelStates`, `outputs` and `toplevels` are the
code's. One session follows another; each has its restore data (`stored`, nothing
or what was handed out last, `token`), asks the chooser (`offered`) or not, and ends
with the object each selection is captured from (`captured`). `granted` is the
history of what users chose. Titles and identifiers are values; which of several
windows of an application `findToplevelByAppId` finds is left open. The code's loops
that push what they find become `Kept`: the elements at some positions, in order.
The constructor has listed outputs and windows before the first call, so a run begins
with any outputs plugged in and any windows open.

### WaylandDisplay and CursorCapture

`WaylandDisplay` has no `Next` of its own: the module that extends it says what
events and requests there are. `phase` follows the constructor ("first", "second",
for the round trips), main's test of `connected` ("checking"), the construction of
DbusPortal, which serves calls before the loop runs ("serving"), and `Loop::run`.
`readers` is libwayland's count of prepared reads, `preparedRead` the code's belief.
`FlushDisplay` has the three outcomes of `wl_display_flush`: all sent, the socket
full, the connection lost. The operators on the read take the value it has at that
point of the handler, since one handler may read, flush and be disconnected.

In `CursorCapture` a buffer and a frame are known by their size; `drawn` is what the
compositor wrote into the buffer. Events of objects the code destroys are dropped
from the queue, as libwayland does: the answer to a frame, of which there is at
most one (`Purge`), or all but the events of others (`OtherEvents`). A request is a kind, and a kind
waits in `unsent` or not. The compositor changes the picture, announces the size,
answers a frame by whether it fits, refuses frames, stops reading or hangs up.

## Runs

| run | instance | shows |
|---|---|---|
| `screencast` | 1 path, 2 sessions, 2 overlapping Starts, one of 1 source and one of up to 2 | answered Starts hold nothing, waiting ones can end and are answered, closed sessions get erased, only erases older than an open session endanger it, streams were announced and close no session but their own when they stop; each Start implements `PortalRequest` |
| `screencast_close` | 1 session, 1 Start | finding: Session.Close does not abort a Start |
| `pump` | 2 buffers, 2 sizes, 2 resizes, 3 relinks, 3 events on their way | buffers come back, no frame during a reconfiguration, the offer is current, the pump is driven except after a mismatched frame, sizes settle |
| `process` | 3 units of input, pipes of 2, 3 units of output | the report is whole, comes once, never after terminate, and comes; afterwards pipes and timer are closed |
| `process_sigterm` | SIGTERM blocked in the child | finding: a terminated chooser stays |
| `screenshot` | 2 calls, constraints twice | calls implement `PortalRequest`, release what they hold, and are answered unless the process ends |
| `screenshot_callback` | 1 call, constraints twice | finding: the second constraints lose the callback |
| `config` | 2 directories, defaults and 2 contents, 5 changes | no stale configuration goes unnoticed, the chain is watched, the portals settle on the file, but for the circumstances named in `astray` |
| `previews` | 3 cards, every viewport | no result or wake-up lost, visible cards are settled, the picker ends |
| `loop` | 3 descriptor numbers, 4 registrations | watches are not disturbed, callbacks run for live registrations and their own events, timers run |
| `sources` | 2 connectors, 2 modes, 2 windows, 2 infos, 2 outputs ever, 2 changes, 2 sessions, symmetric | the lists agree with the compositor once its events are handled, windows are never half described, a Start captures only what was chosen |
| `wayland` | 2 pictures of different sizes, 2 changes, 1 refused frame, 1 stall | an idle loop listens, requests go out, the process is never stuck on its connection, the cursor is whole, its requests are kept and its picture settles |

Bounds. One path is enough for `ScreenCast`: its hazards are of one handle used
again, which needs two sessions; paths share no state, and two Starts give every
overlap of two operations, on one session or on two. Two captures tell the first
from the last; one Start that may select them (`Several`) next to one that selects a
single source leave every pair of phases, as what they share is the session and not
the number of captures. In `StreamPump`, two buffers let one be in flight while
another is with the consumer or being added; two resizes overlap a second change
with the reconfiguration for the first; three relinks let a negotiation fall before,
within and after it. A pipe smaller than the data makes partial reads and writes
happen. Five changes of the file system are a removal of the file and its directory,
their return, and one change more. Three descriptor numbers and four registrations
make a number be used by a third registration while a second is watched. Three cards
leave one being captured, one waiting and one scrolled away. In `sources`, two
changes are an output unplugged and plugged in again, or a window closed while
another takes its application; the second session uses the restore data of the first
after any of them. In `wayland`, two changes let the cursor change its size and
change back while frames and constraints are on their way, or leave and come back,
or lose its source; the first picture is fixed, as pictures differ in nothing else.
Counters are bounded by `MaxSessions`, `MaxResizes`, `MaxRelinks`, `MaxOutput`,
`MaxDones`, `MaxChanges`, `MaxSerial`, `MaxGlobals`, `MaxStarts`, `Several`,
`MaxRetries` and `MaxStalls`, named in the guards.

Deadlock is not checked where the system may stop: a bounded history ends.
It is checked wherever a configuration does not say otherwise.

Fairness. The event loop fires expired timers and dispatches what is ready:
callbacks do not block, and `Loop` checks that timers run. Assumed of others:
in `StreamPump`, that the compositor announces a change and answers a frame it
owes, and that PipeWire takes up an offer, adds buffers it announced and starts
a link, since the code has no timeout for these; in `Previews`, that the
compositor answers the two round trips of the constructor, which have no deadline
either. In `CursorCapture` the constructor and the loop take their steps, the stream
asks for frames (which `PumpIsDriven` of `StreamPump` is about), and the compositor
announces a size it has changed, answers a frame and in the end reads again; it need
not stay connected. Nothing is assumed of the frontend, of the user, or of the compositor
in `ScreenCast` and `Screenshot`, whose waits have a timer of 5 s. A compositor that
hangs up ends the process: `Screenshot` has that, with the event loop noticing it
sooner or later, and its calls are answered or the process ends; `ScreenCast` speaks
of the time before it.

The type invariant of each module but `ScreenCast` is the first conjunct of one of
its invariants. Each property has a mutant in `PROJECT.json`, a version of one
action with a plausible mistake, for which the run finds the property violated.

## Findings

1. `CloseAbortsStart`: Session.Close during a Start is not noticed by the
   operation, which later announces streams on a closed session
   (`screencast.cpp:546`, `Session.xml:33-34`).
2. `TerminatedChildEnds`: children inherit the blocked SIGTERM
   (`request.cpp:307`, `main.cpp:33-38`, `Request.xml:43-44`).
3. `FrameHasItsCallback`: constraints sent twice before the frame leave PickColor
   with a callback that was moved from (`screenshot.cpp:485`, `396-397`).

Met while modelling, and stated in properties as exceptions or visible in the
models, rather than as runs:

- An erase left behind at a path, by createSession closing the session that was there
  or by Session.Close before the handle is used again, erases the open session created
  there since, against `Session.xml:29-31` (`screencast.cpp:394`). `OnlyOldErases`
  says that nothing else takes an open session.
- When PipeWire negotiates once more at the old size before it takes up the new one, a
  frame goes into a buffer that does not fit the constraints, and its failure makes the
  stream wait for constraints it has already had (`session.cpp:257`). It asks for no
  frame until the size changes once more, nor when it starts streaming again
  (`pipewire.cpp:551-552`). `PumpIsDriven` sets this wait aside (`mismatched`); without
  that exception TLC finds it on the instance of `pump`.
- A session that left the table while a Start held it is not closed when its capture
  stops (`None` in `StopClosesOwnSession`).
- A second Start on a session that fails clears the streams the first announced.
- A second "done" leaks a screenshot buffer (the last conjunct of `FrameHasItsBuffer`).
- A change during start-up, a renamed configuration directory, and a missing parent
  of it (an ancestor is watched but its events are ignored, `config.cpp:310`,
  `147-148`) are not noticed (`astray`).
- A connection whose loss is noticed while DbusPortal serves calls before `run()`
  does not end the process: `quit()` does nothing yet, and the loop then
  dispatches the hang-up for ever (`loop.cpp:196`, `early` in `NeverStuck`).
- The destroy requests of a closed capture are not flushed until something else is
  (`wayland.cpp:328`, `RequestsGoOut`).
- With `multiple`, a Start whose stored sources are there in part goes on with
  those, without asking (`screencast.cpp:452-469`); the sources restored need not be
  of the types the session asks for; two stored windows of one application come
  back as one window twice (`MatchRestoreSelections`).
- Outputs are not double-buffered: the chooser may be offered an output under a
  made-up name that no longer names it when the answer comes (`StartCaptures`).
- Overlapping Starts on one session overwrite its selections (`screencast.cpp:576`),
  so the answer to one can describe the sources of the other.
- A stream that PipeWire binds later than 50 ms after its creation is answered as
  node 0 in a Start that succeeds (`screencast.cpp:707`, `pipewire.cpp:748-754`).
- `restore.json` is written and never read by the code.

## Proofs

Each `*Proofs` module proves theorems of the `Spec` of its module, for all values of
the constants that satisfy the module's assumption, which TLC evaluates on each run:
any number of sessions, calls, buffers, sizes, cards, descriptors and changes. No
safety property below is inductive alone; each module defines an inductive
invariant `IInv` (`SpecIInv`), which holds on the instance of the run too.

| module | theorems | what makes the invariant inductive |
|---|---|---|
| `ScreenCastProofs` | `TypeOK`, `FinishedHoldsNothing`, `CapturingCanEnd`, `ClosedSessionsGetErased`, `StreamsWereAnnounced`, `OnlyOldErases`, `StopClosesOwnSession`, refinement | the table names created sessions at their own path (`TableAgrees`), sessions not yet created are open (`UncreatedOpen`), timers, children, owners and Requests go with the phase (`OperationShape`), owners are created (`HoldersCreated`); on top of it, a session a Start holds is what the table has at its path, if anything (`HeldKeepTheirPath`) |
| `ScreenshotProofs` | `FinishedHoldsNothing`, `FrameHasItsBuffer`, refinement | what each phase holds and no other (`PhaseShape`), the Request's state in each (`RequestShape`), calls not received hold nothing |
| `LoopProofs` | `RegisteredUntilRemoved`, `OnlyLiveCallbacks` | identifiers are never used again (`IdsAreSerials`), the kernel's interest is the entries' (`KernelAgrees`), what is left of a batch was reported of the registration its identifier still names, if any (`BatchIsReported`) |
| `LoopProofs`, of `AsyncProcess` | `ResultIsWhole`, `TerminatedIsSilent` | whoever still waits for a report polls only after the end of the output (`PollsAfterTheEnd`), output read and in the pipe is what was written (`OutputAddsUp`) |
| `StreamPumpProofs` | `BuffersComeBack`, `FramesExcludeReconfiguration`, `OfferIsCurrent`, `PumpIsDriven` | buffers go with the link (`LinkShape`), a negotiation backs all addresses or none has come yet (`BackedTogether`), streaming leaves something that drives (`SomethingDrives`), and the others together; on top of it, announcements and constraints (`WaitInv`) |
| `ConfigWatcherProofs` | `StaleIsNoticed`, `ChainIsWatched` | at each point of the code, which watches are there (`OneWatch`, `WatchesCover`) and what will lead to a reload (`ReloadsFollow`) |
| `CursorCaptureProofs` | `IdleListens`, `RequestsGoOut`, `CursorIsWhole`, `RequestsAreKept` | of the connection: `Listens`, `Flushes`; of the cursor: a buffer is of the constraints' size and a frame of the buffer's (`BuffersFit`), events on their way fit (`EventsFit`), and one answer at most is among them (`OneAnswer`) |
| `PreviewsProofs` | `OnePlaceEach`, `ResultsAreAnnounced` | a card is captured, has one result or is shown (`Placed`), callbacks are no more than the cards taken (`Announced`) |
| `SourcesProofs` | `ListsAgree`, `WindowsAreWhole`, `SharesOnlyGranted` | what the wire will make of each window (`WindowInv`) and output (`OutputInv`), events that belong together come together (`InBlocks`), the list of outputs is right or an event that rebuilds it will come (`UpdateComes`), restore data and captures name what was granted (`SessionInv`) |

Some points of the arguments:

- `StopClosesOwnSession` needs no assumption on how Starts overlap: a session with live
  streams is in the table or held by a Start, and while a Start holds one, no other
  takes its path (`HeldKeepTheirPath`), because the object it still exports there makes
  the construction of another fail (`Occupied`, `TableStep`).
- `PumpIsDriven` needs to know what a waiting stream waits for. `WaitInv` relates the
  constraints the stream has, the announcements on their way and the size of the
  source: a frame into a buffer of the size of the constraints fails only if newer
  constraints are owed or sent (`Told`), and a frame has one answer (`Single`), so that
  the stream is told before it can wait in vain. A mismatched frame breaks this
  argument, and the pump with it (see above).
- The refinement of `PortalRequest` by `ScreenCast` and by `Screenshot`
  (`ScreenCastIsPortalRequest`, `ScreenshotIsPortalRequest`) is of its safety part:
  initial states map to initial states, and every step to a step of the call it
  concerns or to a stutter. The liveness of `PortalRequest` is model-checked.
- In `CursorCaptureProofs` the connection's part is proved on its own: lemmas say what
  a flush, a lost connection and a call leave (`FlushWrites`, `MarkWrites`,
  `CallKeepsDisplay`), whatever the events mean, and the handlers cite them.
- That a picture is drawn in the size the cursor is shown in rests on `OneAnswer`: a
  buffer is drawn only when no other answer is on its way, and the constraints change
  only together with the buffer, whose answers are dropped.
- In `PreviewsProofs` and `SourcesProofs`, that a finite set of positions can be put in
  order (`OrderExists`, `IncreasingExists`) is an induction; it is done by the least
  number of positions that could not be.
- `SourcesProofs` proves the effect of every event and announcement twice. Lemmas on
  one output or window and a wire, with no state, say that taking the first event or
  putting events at the end keeps `OutputInv` or `WindowInv` (`OutputReceives`,
  `WindowRenamed` and so on); lemmas on the state (`OutputsTake`, `OutputsTold`,
  `WindowsTake`, `WindowsTold`) put these together, as all others are not concerned.
- A window is whole at any time although its title and its application come one by
  one, because what is pending differs from what is listed only in the middle of a
  block (`ComesWhole`), and every block ends with "done" before anything else of the
  window is told (`InBlocks`). This is what the proof assumes of the compositor: it
  sends what belongs together without other events between.
- The made-up name of an output is never given for good by a compositor that sends
  names: before each "done" the name has come (`NameArrives`). So a stored or offered
  name is the output's registry name or its connector, and `findOutput` finds no
  other output by it (`FoundObject`).

Only model-checked: liveness under fairness (`CapturingIsAnswered`, `SizeSettles`,
`EndIsReported`, `CaptureIsAnswered`, `SettlesOnFile`, `VisibleGetsPreview`,
`PickerEnds`, `TimersRun`, `NeverStuck`, `CursorSettles` and that of
`PortalRequest`), which TLAPS cannot prove here. Every invariant and every action
property that a run checks is a theorem, and so is the safety part of both refinements.

## Not modelled

- Wayland: the seat and pointer a cursor session needs, the end of the toplevel
  list, compositors whose `wl_output` has no name event, captures that fail while
  `captureFrame` runs (which needs exhausted memory), drivers and formats.
- Loop: `updateFd` (in `WaylandDisplay` it is `interest`),
  `~Loop`, and system calls that fail.
- ScreenCast: the node ids, and the PipeWire callbacks `processPending` runs before
  the answer (no event of the compositor is handled there, so none can stop a
  stream); `memoryRestores` and `restore.json`, which nothing reads.
- Contents of formats, pixels, strings and JSON; the GTK interface; D-Bus
  marshalling and the glue to sdbus-c++; real time (a timer is armed or not); and
  the libraries, of which the models have only what the code relies on.

## Plan

Done: ScreenCast, StreamPump, AsyncProcess, Screenshot, ConfigWatcher, Previews,
Loop, WaylandDisplay, CursorCapture and Sources, all with their proofs. Next, in this
order:

1. A composition of `ScreenCast` and `StreamPump`: node ids that come late.
2. The glue between sdbus-c++ and the loop (`dbus/dbus.cpp`).
