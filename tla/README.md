# MoonSwift in TLA+

MoonSwift is a terminal workbench for Lua: it lists Lua sources (whole `.lua` files and
Lua fragments inside JSON, YAML or TOML files), runs and lints them, and edits them in
an embedded nvim whose `:w` is spliced back into the file the fragment came from. It is
written in Swift over a vendored terminal library and a vendored Lua engine. This
directory holds TLA+ models of its concurrent core, the TLC configurations that check
them, and proofs for TLAPS.

Swift paths below are relative to `src/Sources`, Rust paths to `src/rust`.
`PROJECT.json` maps every definition that models code to the lines it stands for.

## 1. Inventory

The program is one event loop with a pure reducer. The UI thread (`AppDriver.run`)
drains a channel, calls `reduce(state, event)` on one event at a time and executes the
effects it returns before the next one. Everything else runs beside it and talks to it
by posting events: two threads (event pump, tick source), a reader thread per nvim, and
unstructured Swift Tasks for all I/O.

| Component | State | Operations | Talks to |
|---|---|---|---|
| `NvimRPCClient` (actor) + reader thread | `pending` continuations, `nextMsgid`, `stdinOpen`, stop flag, join semaphore | `request`, `notify`, `deliver`, `cancelPendingRequest`, `readerDidObserveEOF`, `shutdownReader`, the reader's loop | nvim over two pipes; a Task per message read |
| Edit session: reducer's focus machine, `AppDriver+NvimEffects`, `EditorBridge`, `NvimProcessSupervisor` | `focus`, selection, `pendingConflictModal`; `nvimSession`, `nvimCleanupTask`; per session: process, private directory | spawn and handshake, input, detach, exit, cleanup, conflict modal, diff view, quit | events both ways; signals to the process |
| Write-back: `executeWriteBack`, `WriteBackCoordinator`, `SpanSplicer`, conflict modal, source reload | the file on disk, the loaded fragment with its hash and span, the nvim buffer, the modal | fetch the text, read, compare hashes, re-locate and splice, re-read, write, reload | the disk, nvim, the channel |
| Event pump and `$EDITOR`: `EventPump`, `AppDriver+EditorEffects` | `parkRequested`, `parked`, `stopped` under one `NSCondition` | poll loop, `parkAndWait`, `unparkAfterResume`, `stop`, the editor's syntax loop | terminal, channel, UI thread |
| Run: `RunService`, `Coalescer`, `TickSource`, output buffer | `runState`, `activeCoalescer`, `pending` lines, tick interval, `outputBuffer` | run, print, flush, tick, finish, clear, arm/disarm | Lua engine on a Task, channel |
| Terminal screen: `Terminal`, `CellBuffer`, `CommandInterpreter`, `ratatui-ffi`, ratatui's `Terminal` and `Buffer`, crossterm's terminal modes, `CrashHandlers` | the tty's modes and cells; two buffers; crossterm's saved mode; the armed flag; the handle and the below-minimum flag | init, draw, clear, flush, suspend, resume, teardown, emergency restore | tty, signals, `$EDITOR` |
| Terminal input: `rffi_poll_event`, crossterm's `InternalEventReader`, `UnixInternalEventSource`, parser | skipped and waiting events; mio's readiness; the parser's bytes and events | poll, read, parse | tty, SIGWINCH, the pump thread |
| Sources and project: `SourceStore`, `ProjectStore`, `Highlighter`, picker, init form, reload | `moonswift.toml`, `AppState.project`, `sources`, `highlight`, `pickerState`, `initFormState`; Task handles | load all, load one, cancel, reload, save, highlight, open and leave picker and form | disk, channel, Tasks, the highlighter's queue |
| nvim screen: `MsgpackRPCFramer`, `NvimRedrawHandler`, `NvimGridState` | the framer's bytes, pending events, the cell grid, cursor, highlight table | chunk reassembly, collect to a flush, resize, clear, line, scroll | reader thread, RPC actor, channel |
| Span locator and splicer, JSONPath, tree decoders, project codec | none (pure) | locate, splice per format, parse and evaluate a path | — |
| Lint service | engine actor, catalog | prewarm, pre-pass, lint | Lua engine |
| Reducer: panes, filter, overlays, colon commands | `AppState` | keys | — |
| Renderer, theme | none | layout and styles | — |
| Vendored widgets, layout and text of ratatui | none | draw into a buffer | — |

What is hard, and for which component:

* **RPC client.** A response, a cancellation, a failed write and the end of the stream
  meet on one continuation, which must be resumed exactly once (twice traps, never hangs
  the caller). The reader is a blocked `read(2)` which only the last writer's `close`
  ends. Messages read in order are delivered by independent Tasks.
* **Edit session.** The end of a session is an event without an identity, there is one
  slot for the live session and one for the running cleanup, and spawn, detach, exit and
  quit overlap. A shut-down session must not be handed out again; nvim must not lose its
  directory; while a spawn is under way every key is eaten.
* **Write-back.** The file can change between load, fetch, read and write; byte spans go
  stale; two `:w`s overlap; nvim may be gone before its text is read.
* **Pump and editor.** Two threads wait for each other's flags on one condition; the
  terminal must not be read while the editor has it.
* **Run.** Output is batched by one thread and flushed by three; the report of the end
  must come after the last line; one timer serves four consumers.
* **Screen.** A frame is several `Terminal::draw` calls, each of which writes only the
  difference to the last; resizes, wide glyphs, failed writes and an editor change the
  screen behind the buffer's back. The modes are remembered in four places, and a signal
  or a trap may come between any two steps.
* **Input.** The parser, the reader's queue and mio's edge-triggered readiness each hold
  something back; a key that nobody announces waits for the next one.
* **Sources and project.** Batches replace each other's Task table, some cancelled and
  some not; reloads, saves and write-backs answer in any order; picker and form are left
  while their Tasks run.
* **nvim screen.** The byte stream is cut anywhere; a batch must be shown whole; a
  scroll copies rows onto each other in place.

The hazards are listed in `PROJECT.json` at the line where they bite, with the
properties that would notice.

## 2. Modules

| Module | Models | Runs |
|---|---|---|
| `NvimRpc` (`MCNvimRpc` instantiates it) | the actor, the reader thread, the shutdown join, nvim as a peer | `rpc` |
| `RpcPromise` | abstract: what a request is promised | (refined by `NvimRpc`) |
| `EditSession` | focus machine, driver, bridge, supervisor, nvim processes | `edit`, `edit_stray_end` |
| `WriteBack` | two files, versions of their contents, pipelines, modal, reloads | `writeback`, `writeback_wrong_file` |
| `EventPump` | the condition variable, pump thread, UI thread around an editor | `pump` |
| `RunPromise` | abstract: what a run promises its user | (refined by `RunOutput`) |
| `RunOutput` | run Task, Coalescer, TickSource, output buffer, consumers of ticks | `run_output` |
| `TerminalScreen` (`MCTerminalScreen`) | the tty, its modes, ratatui's double buffer, the ways into and out of the terminal | `screen` |
| `TerminalInput` | the way of a byte from the tty to the channel | `input` |
| `ProjectLoad` (`MCProjectLoad`) | project file, sources, highlighting, picker, init form and their Tasks | `load`, `load_saved` |
| `NvimScreen` (`MCNvimScreen`) | nvim's grid, its redraw notifications, framer, redraw handler, `NvimGridState` | `nvim_screen` |
| `NvimRpc_proofs`, `EditSession_proofs`, `WriteBack_proofs`, `RunOutput_proofs`, `TerminalScreen_proofs`, `TerminalInput_proofs` (also about `EventPump`), `ProjectLoad_proofs`, `NvimScreen_proofs` | theorems | — |

**NvimRpc.** One call of `request()` per element of `Callers`. A step is one turn of the
actor, one iteration of the reader, or one move of nvim. `pending` is a function from
the message ids in the dictionary to the call that waits; continuations are the calls
themselves, `resumed` counts how often each was resumed. Delivery Tasks are a set from
which any may run next: Swift does not order unstructured Tasks. Payloads are reduced to
message id and error flag. The join of the reader ends with its semaphore or its
timeout, and the teardown goes on alike, as the code throws the result away.

`RpcPromise` knows nothing of msgids, pipes and Tasks: a call is asked, something may
become due to it (one answer of nvim, its own cancellation), and it returns once, with
something that is due; the end of the connection returns all calls that wait, or none.
`NvimRpc` implements it (`KeepsPromise`): what is due to a call is what bears its msgid,
in the pipe or in a Task.

**EditSession.** The channel is the FIFO queue of events; keys are handled between two
events without being queued, since any key may be pressed at any time. Unstructured
Tasks are a bag of (kind, captured session). A session has its bridge progress, process,
directory and teardown progress. `reduce` and the execution of its effects are one
action, as they are one turn of the UI thread. The conflict modal, the diff view and the
write-back outcomes appear as far as they move the focus; `$EDITOR` appears as an
outcome.

**WriteBack.** The text of a file is abstracted to what the pipeline can tell apart: the
version of the fragment and the version of the rest of the file. A hash is equality of
contents; that `Spliced` keeps the rest of what was read is an assumption about the
splicer, not a result. A pipeline is the coordinator's sequence of steps with its own
copies of what it has read; the I/O queue makes single reads and writes atomic, nothing
more. A fetch whose nvim has died is released by the client when it sees the end of the
output; if a key was written to the dead nvim before, the client has closed its send
side and the fetch hangs (`pc = "hung"`).

**EventPump.** A step is one critical section or one call outside it. `condition.wait()`
puts the thread in `waiting`; `signal()` takes any one out; spurious wake-ups are a
step. The two `$EDITOR` paths differ in `loop`: `<C-p>` starts one editor, the fallback
starts it again while its text does not parse. A call of `source.next` may block
(`blocked`): the tty is read in blocking mode in the middle of an escape sequence.
`EventPump` and `TerminalInput` are two views of the same thread, proved about in one
module, so the specification here has names of its own (`PumpInit`, `PumpSpec`, ...).

**RunOutput.** The script is a Task that prints numbered lines and may end or not.
`onOutput`, `onTick` and `finish` are atomic (the Coalescer's lock) and append their
event to the channel while they hold it. The 16 ms gate and the deadlines of message,
pulse and resize pass at any moment; a timer of the tick source ends at any moment it is
not re-armed. The action of an event includes the effects that arm or stop the ticks.
Choosing another entry and the end of an editor drop a pulse or a resize without
stopping the timer, which goes on until its next tick; they are actions too. The fourth
consumer the code has, the spinner of a source that is loading, never needs a tick:
nothing in the sources sets `.loading`. `shown` is a history variable: the lines given
to the buffer, which forgets old ones.

`RunPromise` states in forty lines what all of this is for: the lines a script printed
are shown in order, without gaps or repetition, and nothing is missing when the run is
reported complete. `RunOutput` implements it under `phase <- runState`, `printed <-
PrintedBy(runNumber)`, `shown <- shown` (`KeepsPromise`).

**TerminalScreen.** One row of cells; a wide glyph covers two, and a run may put wide
glyphs next to each other, the second hiding in the first. Every tty call of init,
suspend, resume and teardown is a step that may fail, and so are the size query and the
clear before a frame and its write; `size` is the window, `known` what the driver
believes. A frame is Clear, a paragraph, runs of cells and `rffi_flush`, each with its
own diff. SIGTERM, SIGHUP, a precondition and a panic end the process between any two
steps.

**TerminalInput.** A byte is one of five that tell apart a plain key, the parts of a CSI
sequence and a cursor report, which is an event nobody polls for. mio is edge-triggered:
a source is reported once per change. `due` is a history variable: what was parsed and
has not been posted. `SpecForTLC` is the specification with fairness of the steps the
pump thread takes by itself.

**ProjectLoad.** A project file is the set of sources it lists, a text is a version. A
turn of the UI thread is one action; keys are pressed between turns. Tasks are records
in `loads` (SourceStore) and `jobs` (the rest) and are cut where they read and where
they post: a Task that has read may not know that it was cancelled. `LoadAll` replaces
the handles, `CancelAll` cancels only those that are held. The highlighter is a queue. A
file that is missing or cannot be read fails as a whole, a field that is not found
(`Fails`) by itself, and a Task calls back for one source at a time. A write-back is one
step that changes the file and posts its success.

**NvimScreen.** nvim's side follows its UI protocol: what a scroll or a resize uncovers
is drawn again before the flush, a cell without a highlight has that of the cell before.
A notification is a header with the number of its events and the events; it ends
anywhere, and a read takes any part of what was written. The complete messages of the
inbox reach the actor in any order, one Task each. `frames` and `ordered` are history
variables: nvim's grid at each flush, and that no message has overtaken another yet. The
program's side is the framer's `scan` and `pushChecked`, the handler's `pending`, and
the reducer's replay with the loops of `applyScroll` row by row.

Every module states its type invariant as `TypeOK` (`PumpTypeOK` in `EventPump`). It is
proved for all of them; in `RunOutput` it is also a property of the run, in
`TerminalInput` a conjunct of `InputInv`.

## 3. Runs

Passing runs (TLC explores the whole state space):

| Run | Bounds | Shows |
|---|---|---|
| `rpc` | 2 calls, 1 notification | no continuation is lost (`WaitingIsRegistered`); each call returns what became of this call, once (`KeepsPromise`, which implies `ResumedOnce`); handling the end of the stream leaves nobody waiting unless a write had failed (`EofReleasesCallers`); once nobody holds nvim's stdout open, suspended calls are released, with the same exception (`NvimDeathReleases`); the reader thread ends with its session, whatever became of the join (`CleanupEndsReader`) |
| `edit` | 2 sessions, 2 keys | `NilBeforeTeardown`, `DirOutlivesProcess`, `SpawningIsAttended`; shutdown, quit and detach come to an end even if nvim never does anything (`ShutdownCompletes`, `QuitEnds`, `DetachEndsSession`); so does a spawn, unless an nvim lives on and never answers the handshake (`SpawnResolves`) |
| `writeback` | 2 files, 3 versions, 2 `:w` | only text that was read from nvim is written (`OnlyFetchedTextIsWritten`); a save is followed by a load that sees it (`SavedIsLoaded`); an external edit is never overwritten unseen (`ExternalEditSurvives`); every `:w` ends saved or refused, but for a live nvim that never answers and the fetch that hangs after a failed write (`WriteIsAnswered`) |
| `pump` | 4 editors, 2 queued keys | nobody polls while the terminal is given away (`NoPollDuringHandoff`); park, unpark and stop are answered (`ParkIsAnswered`, `UnparkResumes`, `StopEnds`), and what can prevent it is named in them: a dead terminal, a read that never ends, and the deadlock of a second request (`Reparked`) |
| `run_output` | 2 runs, 3 lines, 3 keys, buffer of 2 | `KeepsPromise`, `TicksAsNeeded`, `BufferHasNewest`, `LinesAppear`, `DeadlinesAreServed` |
| `screen` | 3 columns, 4 frames to choose from (wide glyphs side by side among them), 1 failing call | what ratatui believes is on the screen is there (`ShadowMatchesScreen`); however the process ends, the terminal is usable (`RestoredWhenDead`); modes, handle and flag tell one story (`ModesAgree`); the first failure while the terminal is taken finds the steps before it undone (`FailedTakeIsUndone`); the editor has the terminal to itself (`EditorOwnsTerminal`) |
| `input` | 5 bytes, a read buffer of 3, 1 SIGWINCH | keys are posted in order, each once (`InOrder`); poll's `true` is kept by the read (`TrueMeansReadable`); a key that was parsed is posted without another byte (`ParsedIsPosted`) |
| `load` | 2 files, 1 field, 2 moves (reload, save, `:w`, edits); Esc, marks and answers are free | a loaded project ends up with an entry for each source (`LoadedProjectIsComplete`) whose colours fit its text (`SpansFitText`); a picker shows the file it will change (`PickerShowsItsFile`); a save is answered (`SaveIsAnswered`) |
| `nvim_screen` | 2 x 3 cells and a 1 x 1 window, 2 drawing operations, all cuts of the stream, all orders of delivery | as long as no message has overtaken another, AppState shows nvim's grid as it was at a flush, never half of it (`ShowsFrames`); in any order every flush gets there (`EveryFrameArrives`) |

Why the bounds are enough: every hazard is about the meeting of *two* things (two
continuations, the end of one session and the start of the next, two pipelines, a park
and the park after it, a run and the next run), and each bound admits two and a third
party that disturbs (a notification, an external edit, a spurious wake-up, a tick).
Three lines are what it takes for a line to overtake another through an open gate; a
buffer of two overflows twice. Larger bounds of the pump were tried and add only
repetitions. Three columns hold a wide glyph and its neighbour; five bytes hold a whole
sequence and half of the next; a read buffer of three makes them arrive in two reads.
Two files and one field let a batch of one file replace a batch of both. Three rows are
what it takes for a row to be read after it was written. nvim draws only while nothing
is under way (`NothingUnderWay`): what it draws does not depend on how far the program
got, so the other orders lead to the same streams.

Runs that end in a violation show where a comment or a document promises what the code
does not do. Each checks one property:

| Run | What happens |
|---|---|
| `edit_stray_end` | the late end of one session tears down the next one |
| `writeback_wrong_file` | a conflict that arrives after the selection moved pairs one file's text with another file's fragment; overwrite would write it there |
| `load_saved` | after the picker's save the sources are loaded from the project as it was before the save; the new marks appear only after a reload, and a second save is computed without them |

### Fairness

Weak fairness only, and only for what the platform schedules: the UI thread's handling
of a queued event, a started thread or Task, a Task that has begun, the SIGKILL timer,
the passing of a deadline. In `EditSession` a bridge is fair only where it does not wait
for a live nvim (`BridgeAlone`): nothing makes nvim answer `nvim_ui_attach`, which the
code awaits without a timeout; its death fails the request. In `WriteBack` likewise
nothing is assumed of an nvim that lives. In `EventPump` a call of `source.next` that
does not block ends; one that blocks need not. That nvim's death reaches the client is
`NvimDeathReleases`, which rests on Foundation's `Process` closing the parent's copy of
the pipe's write end. In `ProjectLoad` the turns, and the Tasks and the highlighter, are
fair; in `NvimScreen` the write of what nvim has filled in, the reads, the actor and the
reducer; in `TerminalInput` the pump thread. Never fair: the user (except leaving an
editor in `EventPump`, since the UI thread waits for it), nvim doing anything by itself,
a script ending, an external program, a failure.

## 4. Proofs

TLC checks small instances; the theorems hold for all values of the constants.

* `NvimRpc_proofs`: `TypeCorrect`, `SuspendedCallsAreRegistered`, `NoDoubleResume`,
  `EndOfStreamReleases`, `CallsGetWhatIsTheirs`. The properties are not inductive: that
  a key leads to a suspended call does not survive `Request` unless keys are known to be
  below `nextMsgid`, nor does it survive a response unless each call has one key only.
  `RpcInv` adds exactly this: the dictionary and `msgidOf` are inverse to each other on
  the suspended calls (`PendingIsWaiting`, `WaitingIsPending`), a send side closed by
  the end of the stream has an empty dictionary (`ClosedIsEmpty`), and the farewell Task
  exists only after the reader's loop (`ReaderOrder`). `EndOfStreamReleases` keeps the
  exception its property has: no write had failed before. The proof that it is kept has
  one step per group of actions. `CallsGetWhatIsTheirs` is the refinement of
  `RpcPromise`, step by step. That a call is answered once needs an account of the
  msgids (`AnswerInv`): each is with nvim or on its way from it once, as a request that
  was not read or as the answer to it, and all were allocated.
* `EditSession_proofs`: `SessionTypeCorrect`, `ClosedSessionIsForgotten`,
  `DirectoryIsKept`, `SpawnIsAttended`. `NilBeforeTeardown` is not inductive: it says
  nothing of a `ready` that is queued for the session the driver already has, or of a
  bridge that fails after its `ready`. `Ownership` follows a session through its life: a
  queued `ready` means that the bridge succeeded, no shutdown began and the driver does
  not have the session yet; it is queued at most once (`Once`), so the driver cannot
  take a session twice; a session of the driver has a successful bridge and no shutdown;
  a shutdown needs a bridge that is through. The other two properties are inductive
  given the types. Two lemmas say what taking from and posting to the channel does to
  what is queued; then there is one step per group of actions (keys, events, Tasks,
  bridge, processes).
* `TerminalScreen_proofs`: `ModesAreConsistent`, `ModesTellOneStory`,
  `TerminalIsGivenBack`, `EditorHasTerminal`, `FailedTakesAreUndone`, `ShadowIsTrue`,
  `ScreenTypesAreKept`. Three properties speak of the states between frames, of a dead
  process and of a running editor; none of them is inductive. `ModeInv` says for every
  step of taking and leaving the terminal which modes are on at that point, what
  crossterm remembers, and whether handle and flag exist. It does not look at the cells,
  so it holds for any frames and any number of failing calls. `ShadowIsTrue` is about
  the cells: by induction over the columns, `Buffer::diff` turns a screen that agrees
  with the old buffer into one that agrees with the new buffer (`DrawIsRight`), whatever
  was drawn before, for any frames. The property excepts one kind of column
  (`PassedOver`): where a run puts a wide glyph into the second column of another, the
  diff passes over the column behind it (section 5). The invariant (`Matches`) needs no
  exception: the screen shows the buffer in every column that the buffer does not take
  for a second half, and pairs each wide glyph with its half; so a column passed over is
  right again as soon as a draw writes it. `ModesAgree` and `RestoredWhenDead` say
  little of a tty call that failed; `FailedTakesAreUndone` says of each of the six calls
  that take the terminal that a first failure finds the others undone, from an invariant
  of its own (`UndoInv`). `ScreenTypesAreKept` needs that the two buffers have one
  length and that a run being drawn is one not yet sent (`CellTypes`, `RunTypes`).
* `WriteBack_proofs`: `WriteBackInvariant`, `WriteBackTypesAreKept`,
  `NoUnreadTextIsWritten`, `ExternalEditsSurvive`, `SavesAreLoaded`. The action property
  needs to know where the version came from that a write-back compares with: `WriteInv`
  says that queued events belong to write-backs and reloads that exist (`EventsAreReal`)
  and that what a fragment was loaded from was adopted (`BaseIsAdopted`).
  `SavedIsLoaded` speaks of the moment when all is quiet. `SaveIsFollowed` says where a
  save is until then: what is on disk is known to the workbench, or its success is
  queued, or a reload is at work that has read it or has yet to read.
* `RunOutput_proofs`: `RunTypesAreKept`, `TicksFollowNeeds`, `RunInvariant`,
  `RunKeepsItsPromise`, `BufferKeepsNewest`. `RunInv` is an account of where the lines
  of a run are: those given to the user, then those in the channel, event by event, then
  those pending in the Coalescer, without a gap (`LinesInOrder`). The events in the
  queue are located by a function from positions in the queue to numbers of lines
  (`Delivers`), which spares the concatenation of the queued batches. With it go that
  the report of the end is the last event of its run, and that a run does not start
  before that report was handled. `RunKeepsItsPromise` is the whole refinement: the
  initial state of `RunOutput` is one of `RunPromise`, and each step is one of its steps
  or a stutter. That the buffer has the newest lines needs the same for the lines it
  holds behind the notice of an overflow.
* `ProjectLoad_proofs`: `LoadTypesAreKept`, `PickerKeepsItsFile`, `ColoursFollowTexts`,
  `ProjectBecomesComplete`. A late tree of a file that was left is still queued when the
  picker shows another, so `TreesKnown` is about the trees in the channel, each that of
  the file it names. The other two properties speak of a moment when nothing is under
  way; `ColoursFollow` and `SourcesComing` follow what is missing until then: a text
  that is the last of its source in the highlighter's queue, whose answer is the last in
  the channel; an entry in the Task that reads it, in the channel, or in the reload that
  will start the Task.
* `TerminalInput_proofs`: `InputInvariant`, `EventsStayInOrder`, `ReadFollowsPoll`.
  Order is not inductive, since it speaks of the concatenation of three places and an
  event goes from one to another: what is found last is behind the others only because
  the queue has no event poll looks for while poll is looking, and the parser has none
  left when the tty is read. `InputInv` says so. What `Visible` and the parser's
  `Advance` compute is proved by induction over the sequence (`VisibleOfParts`,
  `AdvanceTypes`). About `EventPump`: `PumpTypeCorrect`, `NoInputDuringHandoff`,
  `AcknowledgementHolds`. `NoPollDuringHandoff` needs to know that the acknowledgement
  the UI thread saw is not stale: `PumpInv` says that `parked` implies `parkRequested`
  and a pump in its wait loop (or gone), and that the UI thread holds the terminal only
  while `parked`. Only the UI thread resets either flag.
* `NvimScreen_proofs`: `BatchesShowFrames`, `ScreenTypeCorrect`. That the shown grid is
  nvim's at the last flush handled says nothing of what is still on its way.
  `PipelineInv` is about one sequence, all that nvim has told since it was attached,
  with nvim's grid after each operation and the places of the flushes. The unfinished
  message, the wire, the framer's buffer, the inbox, `pending` and each batch of the
  channel are slices of it, and where one begins the one before it ends; cutting the
  stream anywhere moves bytes between two of them and no more (`MessageOnWire`,
  `PushedMessages`, `CollectedBatches`). What a slice does to a grid is the first part
  of the module: for each drawing operation, the events nvim sends for it, replayed by
  the handler's loops, turn a grid like nvim's into one like nvim's after it
  (`DrawnLine`, `DrawnClear`, `DrawnResize`, `DrawnAttach`, `DrawnScroll`), where alike
  means the same text, and the same highlight unless nvim meant 0 (section 5). For a
  scroll this says that copying row by row, in the order the code does it, overwrites no
  row that is still to be copied. Both theorems hold for any order of delivery.
  `ShowsFrames` itself speaks of the time until a message has overtaken another, since
  after that it is false (section 5); `PipelineInv` is kept until then.
  `ScreenTypeCorrect` holds beyond: `DeliveryInv` says what is left of the events when
  their messages come in any order, and that a line or a scroll for a grid of another
  size, or for none, leaves the grid a grid.

The assumptions are the types of the constants. Beyond types, `ProjectLoad` assumes
finitely many paths and fields, and that no path is one of the two words the picker has
for a tree which is not there; `NvimScreen`, that runs of cells are not empty and their
first cell names its highlight, and that windows and regions have a size, as the UI
protocol has it. No theorem has another hypothesis.

The library's induction theorems have an operator for a parameter, which no installed
prover can instantiate. Where a proof goes along a sequence, the induction is over a set
of numbers instead, from the least element of its complement (`NatSetInduction`).

Only model-checked: every liveness property, as fairness is beyond the prover; and the
violations. Every invariant of a passing run is stated by a theorem.

## 5. Disagreements seen while modelling, without a run of their own

The last section of each module states them as formulas; a configuration with the
module's constants and the formula shows the behaviour.

* `NvimRpc`: `HandledInArrivalOrder` with `MaxNotes = 2` (ARCHITECTURE 10.4.6: arrival
  order; one Task per message does not keep it), `DescriptorsOutliveReader` (step 8 of `teardown` takes the
  reader for joined when it closes the pipe; nvim holds its own end of the pipe until
  later, so the join times out and the descriptors go under a reader in `read(2)`),
  `NobodyHangsAfterEof` (a failed write sets `stdinOpen` to false; the end-of-stream
  handler then returns early and a call suspended before is never released).
* `EditSession`: `EveryNvimIsOwned` (a second `nvimReady` overwrites a live session),
  `SpawnAlwaysResolves` (an nvim that lives and does not answer `nvim_ui_attach` keeps
  the spawn, and with it every key, for ever), `FailedSpawnIsCleanedUp` (a directory is
  left when `Process.run` throws), `NvimPaneHasSession` (leaving the modal after nvim is
  gone), `QuitTearsDown`, `QuitSettlesCleanups`, `NoLateInput`, `WriteRequestIsServed` with `MaxKeys = 3`,
  `DiffBuildingEnds` (a diff that cannot be built leaves the focus in the building view,
  which absorbs every key).
* `WriteBack`: `ConflictIsExternal` (a second `:w` before the reload conflicts with the
  first), `ModalKeepsItsFile` (its run shows it), `DeadFetchIsRefused` (a key written to
  the dead nvim first, and the `:w` hangs), `NvimPaneHasNvim` (leaving the modal after
  nvim is gone gives the focus back to nothing), `LastSaveWins`, `ReloadShowsDisk`,
  `FileNeverBlanked` with `Structured = FALSE` (`:w` in the untouched buffer of a whole
  `.lua` file writes an empty file: the buffer was only named, never read).
* `EventPump`: `EveryParkReturns` (unparked and asked to park again before it woke up,
  the pump waits again without acknowledging; both threads wait for ever, and the
  fallback's syntax loop does this), `EveryPollReturns` (half an escape sequence blocks
  the read, and the UI thread waits for the acknowledgement), `DeadTerminalQuits` (the
  pump is gone, an editor waits for its acknowledgement). With `EditorIsSet = FALSE` the
  fallback's loop spins without an editor, annotating the file each time.
* `RunOutput`: `PressEditor` arms 1.5 s over a run's 100 ms, so a line may wait that
  long, against the documented 116 ms; the second overflow of the buffer counts the
  notice of the first among the discarded lines. The spinner of a loading source
  (ARCHITECTURE 3b, ux-spec) is never shown: nothing sets `.loading`. These have no
  formula: they are about times, wording and a value nobody makes.
* `TerminalScreen`: `FrameStaysOnScreen` (the last call of a frame, `rffi_flush`, draws
  an empty frame of its own and so wipes what the calls before it have put on the
  screen), `NoTrap` (until the first resize the driver takes the terminal for 80 x 24,
  `App/AppDriver.swift:128`, and in a smaller one Clear indexes the buffer outside its
  area; quitting below the minimum tears the terminal down twice; `$EDITOR` below the
  minimum uses a handle that is gone). A signal between raw mode and the armed flag
  leaves the terminal raw; a tty error in teardown leaves it raw too. Then
  `NothingIsPassedOver` (`rffi_write_cells` puts the characters of a run into adjacent
  cells whatever their width: of two wide ones the second is never shown, the diff takes
  the column behind it for covered and leaves there what the frame before had).
* `TerminalInput`: `PollReturns` (the tty is read in blocking mode until a sequence is
  complete: after half an escape sequence neither `stop` nor `park` reaches the pump).
  Seen beside it: a batch of mio events is dropped when its first source gives an event,
  so a SIGWINCH in it waits for the next one; a closed tty makes the loop spin without
  an event; an escape sequence for Shift-F3 is taken for a cursor report.
* `ProjectLoad`: `QuickFileIsLoaded` (no project, so nothing is loaded),
  `UnsupportedIsBrowsable` (a project with an unsupported Lua version loads none of its
  sources), `NoGhosts` (a Task that had read before it was cancelled brings back a
  source of the project before; use `TwoProjects`), `SaveWrites` (without a loaded
  project the save is acknowledged and nothing is written; use `TwoProjects` and four
  moves). Seen beside them: two reloads may end with the older file; a form opened again
  accepts the late write of the first; a late `designationsSaved` closes another picker.
* `NvimScreen`: `NeverHalfDrawn` (ARCHITECTURE 10.4.6 has the actor process deliveries
  in arrival order; there is a Task per message, a flush overtakes its lines, and
  AppState shows a grid nvim never had), `KeepsHighlights` (the handler's comment takes
  highlight 0 for "as before", but nvim means the default and omits the id for "as
  before": text that returns to the default keeps the last colour; that is why
  `ShowsFrames` speaks of the highlight of a cell only where nvim meant one).

## 6. Not modelled, and what is left

Not modelled because there is nothing for a model checker in it: layout and styles of
the renderer, theme, tree decoders, codec and validation of the project file, command
line arguments, the vendored widgets. Lint is one call whose result is a value.
Cancellation of a run is compiled out at the pinned Lua engine; `x` posts a message,
which is modelled. Span location, splicing and JSONPath are pure functions over vendored
parsers; `WriteBack` relies on what they promise and does not check it. In the reducer,
the cursors of panes and picker, the filter, the help overlay and the colon commands
belong to the UI thread alone. In the input parser mouse, paste and UTF-8 are left out;
in the nvim screen the colour table, the cursor, the mode, the framer's caps and its
header widths, and a session that follows another on the same grid.

Details a reader of the code may miss:

* `TerminalScreen` has one row. The code's diff runs over all rows in one go
  (`ratatui-patched/src/buffer/buffer.rs:496-506`), so a wide glyph in a last column is
  taken to cover the first cell of the next row; the model drops that carry.
* `ModesAgree` and `RestoredWhenDead` are about runs of the program in which no tty call
  failed (the former) or the terminal was armed (the latter); a failing call is what
  `FailedTakeIsUndone` and `EditorOwnsTerminal` are for.
* `EventPump.HandleUnavailable` leaves out the branches without lint service or project
  root: `Main` always sets both before the loop starts.
* In `NvimRpc` a message that cannot be decoded, which the code drops, is a reply nvim
  never sends (`NvimRepliesNothing`); a write to a dead nvim fails or is lost in the
  pipe.
* `NvimScreen` leaves out an assertion of debug builds, that `handleRedraw` always runs
  on the thread of its first call (`MoonSwiftTUI/Nvim/NvimRedrawHandler.swift:113-125`);
  an actor does not keep to one thread.
* In `ProjectLoad` a designated field has one value: a wildcard path that matches
  several gives one event. Two designated fields were tried with one move (61,547
  states, no error); with two the run is too long. `NoField` makes one of the field's
  texts one in which it is not found.
* `WriteBack` relies on the splicer: a stale byte range cannot be told from a right one.

Left to do, most important first:

1. `SpanSplice`, `JSONPathEval` as pure operators over small documents (index
   normalisation, slices, wildcards, the three validations of a splice) against
   reference definitions.
2. An abstract specification of an edit session (idle, spawning, editing, closing) which
   `EditSession` implements apart from the stray end, and of a save (requested, refused
   or saved) for `WriteBack`.
3. The composition of `NvimScreen` with `EditSession`: late batches of one session are
   drawn into the grid of the next.
4. Proofs: the refinements of item 2, step by step.
