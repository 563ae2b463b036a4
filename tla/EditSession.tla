----------------------------- MODULE EditSession -----------------------------
(***************************************************************************)
(* The life of an nvim edit session: the focus machine of the reducer      *)
(* (Reducer.swift), the driver that owns the live session and runs the     *)
(* effects (AppDriver.swift, AppDriver+NvimEffects.swift), the spawn       *)
(* handshake (EditorBridge.swift) and the process supervisor.              *)
(*                                                                         *)
(* The UI thread drains one FIFO channel and reduces one event at a time,  *)
(* executing its effects before the next.  Everything else runs beside it: *)
(* the effects' unstructured Tasks, the bridge, the teardown and the nvim  *)
(* processes.  A key is an event too; since its content is any key, it is  *)
(* handled between two queued events without being queued itself.          *)
(* Transient messages, and the events that only raise one (writeBackFailed,*)
(* writeBackBlocked, projectMalformed), the grid and the resize debounce   *)
(* are left out.                                                           *)
(***************************************************************************)
EXTENDS Naturals, Sequences

CONSTANTS MaxSpawns,  \* bound on edit sessions
          MaxKeys     \* bound on the keys that start something and on the `:w`s

ASSUME EditSessionAssumption == MaxSpawns \in Nat /\ MaxKeys \in Nat

VARIABLES
  focus,        \* AppState.focus
  selection,    \* AppState.selection and the state of the source it names
  pendingModal, \* AppState.pendingConflictModal is set
  session,      \* AppDriver.nvimSession
  cleanupTask,  \* the session whose teardown nvimCleanupTask holds
  phase,        \* the event loop: running, then teardown(), then exit
  channel,      \* the event channel, the keys left out
  tasks,        \* unstructured Tasks in flight, a bag
  bridge,       \* how far EditorBridge.spawn has come for a session
  proc,         \* the nvim process of a session
  xdg,          \* sessions whose private directory exists
  teardown,     \* how far the shutdown of a session has come
  keys          \* keys pressed and `:w`s so far (bounded by MaxKeys)

uiVars   == <<focus, selection, pendingModal>>
nvimVars == <<bridge, proc, xdg>>
vars == <<uiVars, session, cleanupTask, phase, channel, tasks, nvimVars,
          teardown, keys>>

Sessions  == 1..MaxSpawns
NoSession == 0
MaybeSession == Sessions \cup {NoSession}

Focus == {"codePane", "elsewhere", "spawning", "nvimPane",
          "conflict", "diffBuilding", "diffReady"}

Event == [kind : {"ready", "unavailable", "exited", "detached", "writeRequested",
                  "written", "conflict", "diffReady", "projectLoaded",
                  "sourceLoaded", "sourceFailed"},
          of : MaybeSession]
Ev(k)      == [kind |-> k, of |-> NoSession]
EvOf(k, s) == [kind |-> k, of |-> s]

(* The Tasks of AppDriver's effects.  "of" is the session a Task captured. *)
Task == [kind : {"detach", "input", "fetch", "write", "forced", "diff",
                 "load", "project"},
         of : MaybeSession]
Job(k)       == [kind |-> k, of |-> NoSession]
JobOf(k, s)  == [kind |-> k, of |-> s]
Queued(e) == \E i \in 1..Len(channel) : channel[i] = e

NoTasks      == [t \in Task |-> 0]
Plus(bag, t) == [bag EXCEPT ![t] = @ + 1]

TypeOK ==
  /\ focus \in Focus
  /\ selection \in {"none", "unloaded", "loaded"}
  /\ pendingModal \in BOOLEAN
  /\ session \in MaybeSession
  /\ cleanupTask \in MaybeSession
  /\ phase \in {"running", "quitting", "ended"}
  /\ channel \in Seq(Event)
  /\ tasks \in [Task -> Nat]
  /\ bridge \in [Sessions -> {"unused", "probing", "spawned", "attached", "ready", "failed"}]
  /\ proc \in [Sessions -> {"none", "running", "exited", "reported"}]
  /\ xdg \subseteq Sessions
  /\ teardown \in [Sessions -> {"no", "joining", "terminating", "done"}]
  /\ keys \in Nat

(* A project is open and its selected source is loaded and shown.          *)
Init ==
  /\ focus = "codePane" /\ selection = "loaded" /\ pendingModal = FALSE
  /\ session = NoSession /\ cleanupTask = NoSession /\ phase = "running"
  /\ channel = <<>> /\ tasks = NoTasks
  /\ bridge = [s \in Sessions |-> "unused"]
  /\ proc = [s \in Sessions |-> "none"]
  /\ xdg = {} /\ teardown = [s \in Sessions |-> "no"]
  /\ keys = 0

-----------------------------------------------------------------------------
(* Keys.                                                                   *)

Key == phase = "running" /\ keys < MaxKeys /\ keys' = keys + 1

IdleOutside == UNCHANGED <<session, cleanupTask, phase, nvimVars, teardown>>

(* <C-e> in the code pane: spawn nvim, provided a loaded source is shown.  *)
PressEdit ==
  /\ Key
  /\ focus = "codePane" /\ selection = "loaded"
  /\ \E s \in Sessions :
       /\ bridge[s] = "unused" /\ \A r \in 1..(s - 1) : bridge[r] # "unused"
       /\ bridge' = [bridge EXCEPT ![s] = "probing"]
  /\ focus' = "spawning"
  /\ UNCHANGED <<selection, pendingModal, session, cleanupTask, phase, channel,
                 tasks, proc, xdg, teardown>>

(* <C-e> in the nvim pane: the driver captures the session, if any.  The   *)
(* focus stays where it is until the detach is acknowledged.               *)
PressDetach ==
  /\ Key
  /\ focus = "nvimPane" /\ session # NoSession
  /\ tasks' = Plus(tasks, JobOf("detach", session))
  /\ UNCHANGED <<uiVars, channel>> /\ IdleOutside

(* Any other key in the nvim pane goes to nvim by a Task of its own.       *)
PressNvimKey ==
  /\ Key
  /\ focus = "nvimPane" /\ session # NoSession
  /\ tasks' = Plus(tasks, JobOf("input", session))
  /\ UNCHANGED <<uiVars, channel>> /\ IdleOutside

(* [r]eload in the conflict modal needs a selection, loaded or not.        *)
ModalReload ==
  /\ Key
  /\ focus = "conflict" /\ selection # "none"
  /\ focus' = "codePane"
  /\ tasks' = IF session = NoSession THEN Plus(tasks, Job("load"))
              ELSE Plus(Plus(tasks, JobOf("detach", session)), Job("load"))
  /\ UNCHANGED <<selection, pendingModal, channel>> /\ IdleOutside

(* [o]verwrite: back to the nvim pane, a forced write-back runs beside.    *)
ModalOverwrite ==
  /\ Key
  /\ focus = "conflict" /\ focus' = "nvimPane"
  /\ tasks' = Plus(tasks, Job("forced"))
  /\ UNCHANGED <<selection, pendingModal, channel>> /\ IdleOutside

(* [d]iff keeps the modal aside while the diff is built off the UI thread. *)
ModalDiff ==
  /\ Key
  /\ focus = "conflict" /\ focus' = "diffBuilding"
  /\ pendingModal' = TRUE
  /\ tasks' = Plus(tasks, Job("diff"))
  /\ UNCHANGED <<selection, channel>> /\ IdleOutside

ModalCancel ==
  /\ phase = "running"
  /\ focus = "conflict" /\ focus' = "nvimPane"
  /\ UNCHANGED <<selection, pendingModal, channel, tasks, keys>> /\ IdleOutside

(* [c]ancel in a finished diff; one that is being built absorbs every key. *)
DiffCancel ==
  /\ phase = "running"
  /\ focus = "diffReady"
  /\ focus' = IF pendingModal THEN "conflict" ELSE "nvimPane"
  /\ pendingModal' = FALSE
  /\ UNCHANGED <<selection, channel, tasks, keys>> /\ IdleOutside

InPanes == phase = "running" /\ focus \in {"codePane", "elsewhere"}

(* Moving to another pane or modal of the workbench and back.              *)
MoveFocus ==
  /\ InPanes
  /\ focus' = IF focus = "codePane" THEN "elsewhere" ELSE "codePane"
  /\ UNCHANGED <<selection, pendingModal, channel, tasks, keys>> /\ IdleOutside

(* The navigator selects another source, loaded or not.                    *)
SelectSource ==
  /\ InPanes /\ focus = "elsewhere"
  /\ selection' \in {"unloaded", "loaded"}
  /\ UNCHANGED <<focus, pendingModal, channel, tasks, keys>> /\ IdleOutside

(* <C-r>: the project file is read again off the UI thread.                *)
PressReload ==
  /\ Key
  /\ InPanes
  /\ tasks' = Plus(tasks, Job("project"))
  /\ UNCHANGED <<uiVars, channel>> /\ IdleOutside

Quit ==
  /\ phase' = "quitting"
  /\ UNCHANGED <<uiVars, session, cleanupTask, channel, tasks, nvimVars,
                 teardown, keys>>

PressQuit == InPanes /\ Quit

(* The pump's resize(0,0) sentinel: the terminal is gone, in any focus.    *)
TerminalLost == phase = "running" /\ Quit

(* Mutant: the channel is to be drained first, but nobody drains it now.   *)
Exit_DrainsFirst ==
  /\ phase = "quitting" /\ channel = <<>>
  /\ cleanupTask # NoSession => teardown[cleanupTask] = "done"
  /\ phase' = "ended"
  /\ UNCHANGED <<uiVars, session, cleanupTask, channel, tasks, nvimVars, teardown, keys>>

(* teardown() awaits the one cleanup whose handle it holds.                *)
Exit ==
  /\ phase = "quitting"
  /\ cleanupTask # NoSession => teardown[cleanupTask] = "done"
  /\ phase' = "ended"
  /\ UNCHANGED <<uiVars, session, cleanupTask, channel, tasks, nvimVars,
                 teardown, keys>>

-----------------------------------------------------------------------------
(* The event loop: one event is reduced, its effects executed.             *)

Handle(kind) ==
  /\ phase = "running"
  /\ channel # <<>> /\ Head(channel).kind = kind
  /\ channel' = Tail(channel)
  /\ UNCHANGED <<phase, keys, nvimVars>>

(* Mutant: the session is kept while it is torn down.                      *)
ExecuteCleanup_KeepsSession ==
  /\ session' = session
  /\ IF session = NoSession
       THEN UNCHANGED <<cleanupTask, teardown>>
       ELSE /\ cleanupTask' = session
            /\ teardown' = [teardown EXCEPT ![session] = "joining"]

(* Effect.nvimCleanup: forget the session, then shut it down in a Task.    *)
ExecuteCleanup ==
  /\ session' = NoSession
  /\ IF session = NoSession
       THEN UNCHANGED <<cleanupTask, teardown>>
       ELSE /\ cleanupTask' = session
            /\ teardown' = [teardown EXCEPT ![session] = "joining"]

KeepSession == UNCHANGED <<session, cleanupTask, teardown>>

(* The driver stores the session before the reducer moves the focus.       *)
OnReady ==
  /\ Handle("ready")
  /\ session' = Head(channel).of
  /\ focus' = "nvimPane"
  /\ UNCHANGED <<selection, pendingModal, cleanupTask, teardown, tasks>>

(* Mutant: the verdict leaves the focus alone.                             *)
OnUnavailable_KeepsFocus ==
  /\ Handle("unavailable")
  /\ \/ tasks' = tasks
     \/ selection = "loaded" /\ tasks' = Plus(tasks, Job("write"))
  /\ KeepSession /\ UNCHANGED uiVars

(* No nvim: $EDITOR runs on the UI thread, which waits for it.  It ends in *)
(* a failure notice or in a write-back.                                    *)
OnUnavailable ==
  /\ Handle("unavailable")
  /\ focus' = IF focus = "spawning" THEN "codePane" ELSE focus
  /\ \/ tasks' = tasks
     \/ selection = "loaded" /\ tasks' = Plus(tasks, Job("write"))
  /\ KeepSession
  /\ UNCHANGED <<selection, pendingModal>>

(* Mutant: the focus returns but the session is not cleaned up.            *)
OnSessionOver_NoCleanup ==
  /\ Handle("exited") \/ Handle("detached")
  /\ focus' = "codePane"
  /\ KeepSession /\ UNCHANGED <<selection, pendingModal, tasks>>

(* Both ends of a session look alike: no identity in the event.            *)
OnSessionOver ==
  /\ Handle("exited") \/ Handle("detached")
  /\ ExecuteCleanup
  /\ focus' = "codePane"
  /\ UNCHANGED <<selection, pendingModal, tasks>>

(* `:w`: a write-back whose text is read from the captured session.        *)
OnWriteRequested ==
  /\ Handle("writeRequested")
  /\ tasks' = IF selection = "loaded" /\ focus = "nvimPane"
              THEN Plus(tasks, JobOf("fetch", session)) ELSE tasks
  /\ KeepSession /\ UNCHANGED uiVars

OnWritten ==
  /\ Handle("written")
  /\ tasks' = Plus(tasks, Job("load"))
  /\ KeepSession /\ UNCHANGED uiVars

OnConflict ==
  /\ Handle("conflict")
  /\ focus' = IF selection = "loaded" THEN "conflict" ELSE focus
  /\ KeepSession /\ UNCHANGED <<selection, pendingModal, tasks>>

OnDiffReady ==
  /\ Handle("diffReady")
  /\ focus' = "diffReady"
  /\ KeepSession /\ UNCHANGED <<selection, pendingModal, tasks>>

(* A reloaded project forgets the selection and every source; the sources  *)
(* it names, if any, are loaded again.                                     *)
OnProjectLoaded ==
  /\ Handle("projectLoaded")
  /\ selection' = "none"
  /\ tasks' \in {tasks, Plus(tasks, Job("load"))}
  /\ KeepSession /\ UNCHANGED <<focus, pendingModal>>

(* The source that was loaded may no longer be the selected one.           *)
OnSourceLoaded ==
  /\ Handle("sourceLoaded")
  /\ selection' \in IF selection = "none" THEN {"none"} ELSE {selection, "loaded"}
  /\ KeepSession /\ UNCHANGED <<focus, pendingModal, tasks>>

OnSourceFailed ==
  /\ Handle("sourceFailed")
  /\ selection' \in IF selection = "none" THEN {"none"} ELSE {selection, "unloaded"}
  /\ KeepSession /\ UNCHANGED <<focus, pendingModal, tasks>>

HandleEvent ==
  \/ OnReady \/ OnUnavailable \/ OnSessionOver \/ OnWriteRequested \/ OnWritten
  \/ OnConflict \/ OnDiffReady \/ OnProjectLoaded \/ OnSourceLoaded \/ OnSourceFailed

-----------------------------------------------------------------------------
(* Tasks, the bridge and the processes; they end with the program.         *)

Alive == phase # "ended"
Idle  == UNCHANGED <<uiVars, session, cleanupTask, phase, keys>>
Post(e) == channel' = Append(channel, e)

Finish(t) ==
  /\ Alive
  /\ tasks[t] > 0
  /\ tasks' = [tasks EXCEPT ![t] = @ - 1]
  /\ Idle /\ UNCHANGED <<nvimVars, teardown>>

DetachTask == \E s \in Sessions :
  /\ Finish(JobOf("detach", s)) /\ Post(EvOf("detached", s))

InputTask == \E s \in Sessions :
  /\ Finish(JobOf("input", s))
  /\ UNCHANGED channel

(* nvim_buf_get_lines on the captured session; without one the write-back  *)
(* fails rather than write an empty text.                                  *)
FetchSucceeds == \E s \in Sessions :
  /\ Alive
  /\ tasks[JobOf("fetch", s)] > 0 /\ proc[s] = "running"
  /\ tasks' = [tasks EXCEPT ![JobOf("fetch", s)] = @ - 1, ![Job("write")] = @ + 1]
  /\ Idle /\ UNCHANGED <<nvimVars, teardown, channel>>

FetchFails == \E s \in MaybeSession :
  /\ Finish(JobOf("fetch", s)) /\ UNCHANGED channel

(* A Task that fails only raises a notice.                                 *)
Outcome(t, kinds) ==
  /\ Finish(t)
  /\ UNCHANGED channel \/ \E k \in kinds : Post(Ev(k))

WriteTask == Outcome(Job("write"), {"written", "conflict"})
          \/ Outcome(Job("forced"), {"written"})
DiffTask  == Outcome(Job("diff"), {"diffReady"})
LoadTask  == (Finish(Job("load")) /\ \E k \in {"sourceLoaded", "sourceFailed"} : Post(Ev(k)))
          \/ Outcome(Job("project"), {"projectLoaded"})

Bridge(s, from, to) ==
  /\ Alive
  /\ bridge[s] = from /\ bridge' = [bridge EXCEPT ![s] = to]
  /\ Idle /\ UNCHANGED tasks

(* EditorBridge.spawn: no usable nvim.                                     *)
ProbeFails(s) ==
  /\ Bridge(s, "probing", "failed")
  /\ Post(EvOf("unavailable", s))
  /\ UNCHANGED <<proc, xdg, teardown>>

(* Process.run throws after the private directory has been made.           *)
SpawnFails(s) ==
  /\ Bridge(s, "probing", "failed")
  /\ xdg' = xdg \cup {s}
  /\ Post(EvOf("unavailable", s))
  /\ UNCHANGED <<proc, teardown>>

SpawnSucceeds(s) ==
  /\ Bridge(s, "probing", "spawned")
  /\ xdg' = xdg \cup {s} /\ proc' = [proc EXCEPT ![s] = "running"]
  /\ UNCHANGED <<channel, teardown>>

(* nvim_ui_attach is answered.  It is awaited without a timeout, like the  *)
(* requests behind it, which go on after an error.                         *)
AttachSucceeds(s) ==
  /\ proc[s] = "running"
  /\ Bridge(s, "spawned", "attached")
  /\ UNCHANGED <<proc, xdg, channel, teardown>>

(* Mutant: the failed handshake is not reported.                           *)
AttachFails_Silent(s) ==
  /\ Bridge(s, "spawned", "failed")
  /\ teardown' = [teardown EXCEPT ![s] = "terminating"]
  /\ UNCHANGED <<proc, xdg, channel>>

(* nvim_ui_attach fails: the bridge shuts nvim down itself.                *)
AttachFails(s) ==
  /\ Bridge(s, "spawned", "failed")
  /\ Post(EvOf("unavailable", s))
  /\ teardown' = [teardown EXCEPT ![s] = "terminating"]
  /\ UNCHANGED <<proc, xdg>>

PostReady(s) ==
  /\ Bridge(s, "attached", "ready")
  /\ Post(EvOf("ready", s))
  /\ UNCHANGED <<proc, xdg, teardown>>

(* The cleanup Task: the reader is joined, then SIGTERM is sent.           *)
JoinReader(s) ==
  /\ Alive
  /\ teardown[s] = "joining" /\ teardown' = [teardown EXCEPT ![s] = "terminating"]
  /\ Idle /\ UNCHANGED <<channel, tasks, nvimVars>>

(* Mutant: the kill is cancelled before waitUntilExit returns.             *)
Kill_Cancelled(s) ==
  /\ Alive
  /\ teardown[s] = "done" /\ proc[s] = "running"
  /\ proc' = [proc EXCEPT ![s] = "exited"]
  /\ Idle /\ UNCHANGED <<channel, tasks, bridge, xdg, teardown>>

(* Two seconds after SIGTERM a process that is still there is killed.      *)
Kill(s) ==
  /\ Alive
  /\ teardown[s] = "terminating" /\ proc[s] = "running"
  /\ proc' = [proc EXCEPT ![s] = "exited"]
  /\ Idle /\ UNCHANGED <<channel, tasks, bridge, xdg, teardown>>

(* Mutant: waitUntilExit is left out.                                      *)
FinishTeardown_NoWait(s) ==
  /\ Alive
  /\ teardown[s] = "terminating"
  /\ teardown' = [teardown EXCEPT ![s] = "done"]
  /\ xdg' = xdg \ {s}
  /\ Idle /\ UNCHANGED <<channel, tasks, bridge, proc>>

(* waitUntilExit returns; the private directory is removed.                *)
FinishTeardown(s) ==
  /\ Alive
  /\ teardown[s] = "terminating" /\ proc[s] # "running"
  /\ teardown' = [teardown EXCEPT ![s] = "done"]
  /\ xdg' = xdg \ {s}
  /\ Idle /\ UNCHANGED <<channel, tasks, bridge, proc>>

(* nvim ends by itself, by `:q` or `qa!`, or because of SIGTERM.           *)
NvimExits(s) ==
  /\ proc[s] = "running"
  /\ proc' = [proc EXCEPT ![s] = "exited"]
  /\ Idle /\ UNCHANGED <<channel, tasks, bridge, xdg, teardown>>

(* Foundation calls the termination handler, which posts the exit.         *)
ReportExit(s) ==
  /\ Alive
  /\ proc[s] = "exited" /\ proc' = [proc EXCEPT ![s] = "reported"]
  /\ Post(EvOf("exited", s))
  /\ Idle /\ UNCHANGED <<tasks, bridge, xdg, teardown>>

(* BufWriteCmd fires and its notification reaches the registered handler.  *)
(* The `:w` was typed, so the driver has had the session.                  *)
NvimWrites(s) ==
  /\ Key
  /\ proc[s] = "running" /\ bridge[s] = "ready" /\ teardown[s] = "no"
  /\ ~Queued(EvOf("ready", s))
  /\ Post(EvOf("writeRequested", s))
  /\ UNCHANGED <<uiVars, tasks>> /\ IdleOutside

BridgeStep(s) ==
  \/ ProbeFails(s) \/ SpawnFails(s) \/ SpawnSucceeds(s)
  \/ AttachSucceeds(s) \/ AttachFails(s) \/ PostReady(s)

Next ==
  \/ PressEdit \/ PressDetach \/ PressNvimKey
  \/ ModalReload \/ ModalOverwrite \/ ModalDiff \/ ModalCancel \/ DiffCancel
  \/ MoveFocus \/ SelectSource \/ PressReload \/ PressQuit \/ TerminalLost \/ Exit
  \/ HandleEvent
  \/ DetachTask \/ InputTask \/ FetchSucceeds \/ FetchFails
  \/ WriteTask \/ DiffTask \/ LoadTask
  \/ \E s \in Sessions :
       \/ BridgeStep(s)
       \/ JoinReader(s) \/ Kill(s) \/ FinishTeardown(s)
       \/ NvimExits(s) \/ ReportExit(s) \/ NvimWrites(s)

Spec == Init /\ [][Next]_vars

(* The part of a bridge that does not wait for a live nvim: what comes     *)
(* before the first request, and what follows when nvim's death has ended  *)
(* the one that is suspended (NvimDeathReleases of NvimRpc).               *)
BridgeAlone(s) == proc[s] # "running" /\ BridgeStep(s)

(* The UI thread keeps draining, started Tasks keep running and a bridge   *)
(* gets on where it does not wait for nvim.  Neither the user nor an nvim  *)
(* that nobody kills has to do anything, not even to answer.               *)
Fairness ==
  /\ WF_vars(HandleEvent) /\ WF_vars(Exit) /\ WF_vars(DetachTask)
  /\ \A s \in Sessions :
       /\ WF_vars(BridgeAlone(s))
       /\ WF_vars(JoinReader(s)) /\ WF_vars(Kill(s)) /\ WF_vars(FinishTeardown(s))

LiveSpec == Spec /\ Fairness

-----------------------------------------------------------------------------
(* Safety.                                                                 *)

(* nil-before-teardown (executeNvimCleanup): a session whose pipes are     *)
(* being closed is no longer the driver's, and none becomes it again.      *)
NilBeforeTeardown == \A s \in Sessions :
  teardown[s] # "no" => session # s /\ ~Queued(EvOf("ready", s))

(* NvimProcessSupervisor.teardown removes the private directory after      *)
(* waitUntilExit: a running nvim never loses the directory it works in.    *)
DirOutlivesProcess == \A s \in Sessions : proc[s] = "running" => s \in xdg

(* While the focus is .nvimSpawning every key is eaten, so a bridge must   *)
(* be at work, or its verdict on the way: the user is never locked out.    *)
SpawningIsAttended ==
  focus = "spawning" =>
    \E s \in Sessions :
      \/ bridge[s] \in {"probing", "spawned", "attached"}
      \/ Queued(EvOf("ready", s)) \/ Queued(EvOf("unavailable", s))

-----------------------------------------------------------------------------
(* Liveness.                                                               *)

(* A cleanup that has begun ends, whatever nvim does: SIGKILL sees to it.  *)
ShutdownCompletes == \A s \in Sessions :
  teardown[s] = "joining" ~> (teardown[s] = "done" \/ phase = "ended")

(* AppDriver.teardown: waiting for the cleanup Task never hangs the exit.  *)
QuitEnds == phase = "quitting" ~> phase = "ended"

(* <C-e> in the nvim pane: once the detach Task exists, the session ends   *)
(* (or the workbench does).                                                *)
DetachEndsSession == \A s \in Sessions :
  tasks[JobOf("detach", s)] > 0 ~> (session # s \/ phase # "running")

(* EditorBridge.spawn posts a verdict and the keyboard is released, unless *)
(* an nvim that lives on leaves a request of the handshake unanswered for  *)
(* ever: nothing else locks the user out, no failure, no death of nvim and *)
(* no other session.                                                       *)
Unanswered(s) == bridge[s] \in {"spawned", "attached"} /\ proc[s] = "running"

SpawnResolves == focus = "spawning" ~>
  (focus # "spawning" \/ phase # "running" \/ \E s \in Sessions : []Unanswered(s))

-----------------------------------------------------------------------------
(* What the documentation says and the code does not do.                   *)

(* Effect.nvimCleanup tears down the active session when nvim has exited   *)
(* or acknowledged the detach: that nvim, not the one that came after it.  *)
EndClosesOwnSession ==
  [][OnSessionOver /\ session # NoSession => Head(channel).of = session]_vars

(* NvimSession is owned by the driver: a running nvim is the driver's, or  *)
(* on its way to it, or being shut down.                                   *)
EveryNvimIsOwned == \A s \in Sessions :
  proc[s] = "running" => \/ session = s \/ Queued(EvOf("ready", s))
                         \/ bridge[s] \in {"spawned", "attached"}
                         \/ teardown[s] # "no" \/ phase = "ended"

(* The focus nvimSpawning lasts for the spawn round trip.                  *)
SpawnAlwaysResolves == focus = "spawning" ~> (focus # "spawning" \/ phase # "running")

(* The private directory is "removed by teardown()": once the bridge has   *)
(* given up, a teardown has begun.                                         *)
FailedSpawnIsCleanedUp == \A s \in Sessions :
  bridge[s] = "failed" /\ s \in xdg => teardown[s] # "no"

(* Falling back to the nvim pane keeps the user from being stranded: with  *)
(* no session behind the pane every key, <C-e> included, is swallowed.     *)
NvimPaneHasSession == focus = "nvimPane" => session # NoSession

(* The building diff absorbs "all input except cancel": it has to end.     *)
DiffBuildingEnds ==
  focus = "diffBuilding" => tasks[Job("diff")] > 0 \/ Queued(Ev("diffReady"))

(* AppDriver calls supervisor.teardown() on quit.                          *)
QuitTearsDown ==
  phase = "ended" => session = NoSession

(* SIGTERM and waitUntilExit of every cleanup are settled before the exit. *)
QuitSettlesCleanups ==
  phase = "ended" => \A s \in Sessions : teardown[s] # "joining"

(* Session isolation: a key in flight skips a session being torn down.     *)
NoLateInput == [][\A s \in Sessions :
  tasks'[JobOf("input", s)] < tasks[JobOf("input", s)] => teardown[s] = "no"]_vars

(* `:w` triggers the write-back contract: the request is not dropped.      *)
WriteRequestIsServed ==
  [][OnWriteRequested => tasks' # tasks]_vars
=============================================================================
