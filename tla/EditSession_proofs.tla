-------------------------- MODULE EditSession_proofs --------------------------
(***************************************************************************)
(* The edit session, proved for any number of sessions and keys.  That a   *)
(* session whose pipes are being closed never becomes the driver's again   *)
(* rests on the channel: its `ready` is posted once, by a bridge that      *)
(* succeeded, and is consumed when the driver takes the session.           *)
(***************************************************************************)
EXTENDS EditSession, TLAPS

Ready(s) == EvOf("ready", s)

(* The event e is queued in q at most once.                                *)
Once(e, q) == \A i, j \in 1..Len(q) : q[i] = e /\ q[j] = e => i = j

(* Where a session is while the driver does not have it yet, has it, and   *)
(* is rid of it.                                                           *)
Ownership == \A s \in Sessions :
  /\ Queued(Ready(s)) => bridge[s] = "ready" /\ teardown[s] = "no" /\ session # s
  /\ Once(Ready(s), channel)
  /\ session = s => bridge[s] = "ready" /\ teardown[s] = "no"
  /\ teardown[s] # "no" => bridge[s] \in {"ready", "failed"}

SessionInv == TypeOK /\ Ownership /\ DirOutlivesProcess /\ SpawningIsAttended

-----------------------------------------------------------------------------
(* The channel and the bag of Tasks.                                       *)

LEMMA TailOfChannel ==
  ASSUME TypeOK, channel # <<>>, channel' = Tail(channel)
  PROVE  /\ channel' \in Seq(Event)
         /\ \A e : Queued(e)' => Queued(e)
         /\ \A e : Queued(e) => e = Head(channel) \/ Queued(e)'
         /\ \A e : Once(e, channel) => Once(e, channel)'
         /\ \A e : Once(e, channel) /\ e = Head(channel) => ~Queued(e)'
<1>1. channel \in Seq(Event) BY DEF TypeOK
<1>2. /\ channel' \in Seq(Event) /\ Len(channel) \in Nat /\ Len(channel) > 0
      /\ Len(channel') = Len(channel) - 1
      /\ \A i \in 1..Len(channel') : channel'[i] = channel[i + 1]
      /\ Head(channel) = channel[1]
  BY <1>1
<1>3. \A e : Queued(e)' => Queued(e)
  BY <1>2 DEF Queued
<1>4. ASSUME NEW e, Queued(e), e # Head(channel) PROVE Queued(e)'
  <2>1. PICK i \in 1..Len(channel) : channel[i] = e
    BY <1>4 DEF Queued
  <2>2. i - 1 \in 1..Len(channel') /\ channel'[i - 1] = e
    BY <1>2, <1>4, <2>1
  <2> QED BY <2>2 DEF Queued
<1>5. ASSUME NEW e, Once(e, channel) PROVE Once(e, channel)'
  BY <1>2, <1>5 DEF Once
<1>6. ASSUME NEW e, Once(e, channel), e = Head(channel), Queued(e)' PROVE FALSE
  <2>1. PICK i \in 1..Len(channel') : channel'[i] = e
    BY <1>6 DEF Queued
  <2>2. i + 1 \in 1..Len(channel) /\ channel[i + 1] = e /\ 1 \in 1..Len(channel)
    BY <1>2, <2>1
  <2> QED BY <1>2, <1>6, <2>2 DEF Once
<1> QED BY <1>2, <1>3, <1>4, <1>5, <1>6

LEMMA PostToChannel ==
  ASSUME TypeOK, NEW e \in Event, Post(e)
  PROVE  /\ channel' \in Seq(Event)
         /\ \A f : Queued(f)' <=> Queued(f) \/ f = e
         /\ \A f : Once(f, channel) /\ (f = e => ~Queued(f)) => Once(f, channel)'
<1>1. channel \in Seq(Event) BY DEF TypeOK
<1>2. /\ channel' \in Seq(Event) /\ Len(channel) \in Nat
      /\ Len(channel') = Len(channel) + 1
      /\ \A i \in 1..Len(channel) : channel'[i] = channel[i]
      /\ channel'[Len(channel) + 1] = e
  BY <1>1 DEF Post
<1>3. ASSUME NEW f PROVE Queued(f)' <=> Queued(f) \/ f = e
  BY <1>2 DEF Queued
<1>4. ASSUME NEW f, Once(f, channel), f = e => ~Queued(f) PROVE Once(f, channel)'
  <2> SUFFICES ASSUME NEW i \in 1..Len(channel'), NEW j \in 1..Len(channel'),
                      channel'[i] = f, channel'[j] = f
               PROVE  i = j
    BY DEF Once
  <2>1. CASE i \in 1..Len(channel) /\ j \in 1..Len(channel)
    BY <1>2, <1>4, <2>1 DEF Once
  <2>2. CASE i = Len(channel) + 1 /\ j = Len(channel) + 1
    BY <2>2
  <2>3. CASE f = e
    BY <1>2, <1>4, <2>2, <2>3 DEF Queued
  <2>4. f = e \/ (i \in 1..Len(channel) /\ j \in 1..Len(channel))
    BY <1>2
  <2> QED BY <2>1, <2>3, <2>4
<1> QED BY <1>2, <1>3, <1>4

(* The kinds of event that tell which session they are about.              *)
LEMMA EventTypes ==
  /\ \A k \in {"ready", "unavailable", "exited", "detached", "writeRequested"},
        s \in Sessions : EvOf(k, s) \in Event
  /\ \A k \in {"written", "conflict", "diffReady", "projectLoaded",
               "sourceLoaded", "sourceFailed"} : Ev(k) \in Event
  /\ \A s, r : EvOf("ready", s) = EvOf("ready", r) => s = r
  /\ \A k, s, r : k # "ready" => EvOf(k, s) # EvOf("ready", r)
  /\ \A k, r : k # "ready" => Ev(k) # EvOf("ready", r)
BY DEF EvOf, Ev, Event, MaybeSession, NoSession

(* The Tasks that are begun, and what becomes of their bag.                *)
LEMMA TaskTypes ==
  /\ \A k \in {"detach", "input", "fetch"}, s \in MaybeSession : JobOf(k, s) \in Task
  /\ \A k \in {"write", "forced", "diff", "load", "project"} : Job(k) \in Task
  /\ \A bag \in [Task -> Nat], t \in Task : Plus(bag, t) \in [Task -> Nat]
  /\ TypeOK => \A t \in Task : Finish(t) => tasks' \in [Task -> Nat]
<1>1. \A k \in {"detach", "input", "fetch"}, s \in MaybeSession : JobOf(k, s) \in Task
  BY DEF JobOf, Task, MaybeSession, NoSession
<1>2. \A k \in {"write", "forced", "diff", "load", "project"} : Job(k) \in Task
  BY DEF Job, Task, MaybeSession, NoSession
<1>3. \A bag \in [Task -> Nat], t \in Task : Plus(bag, t) \in [Task -> Nat]
  BY DEF Plus
<1>4. TypeOK => \A t \in Task : Finish(t) => tasks' \in [Task -> Nat]
  BY DEF TypeOK, Finish
<1> QED BY <1>1, <1>2, <1>3, <1>4

(* A step in which no session changes hands keeps the ownership.           *)
LEMMA HandsOff ==
  ASSUME Ownership, session' = session, teardown' = teardown,
         \A s \in Sessions : bridge[s] \in {"ready", "failed"} => bridge'[s] = bridge[s],
         \A s \in Sessions : Queued(Ready(s))' => Queued(Ready(s)),
         \A s \in Sessions : Once(Ready(s), channel)'
  PROVE  Ownership'
BY DEF Ownership, Ready, EvOf

-----------------------------------------------------------------------------
(* The kinds of steps.                                                     *)

(* The keys, the quit and the exit.                                        *)
KeyStep ==
  \/ PressEdit \/ PressDetach \/ PressNvimKey
  \/ ModalReload \/ ModalOverwrite \/ ModalDiff \/ ModalCancel \/ DiffCancel
  \/ MoveFocus \/ SelectSource \/ PressReload \/ PressQuit \/ TerminalLost \/ Exit

(* The Tasks.                                                              *)
TaskStep == \/ DetachTask \/ InputTask \/ FetchSucceeds \/ FetchFails
            \/ WriteTask \/ DiffTask \/ LoadTask

(* The shutdown and the nvim process of one session.                       *)
ProcessStep(s) ==
  \/ JoinReader(s) \/ Kill(s) \/ FinishTeardown(s)
  \/ NvimExits(s) \/ ReportExit(s) \/ NvimWrites(s)

(* What is posted beside the bridge: any event but `ready`.                *)
PostsNoReady ==
  channel' = channel \/ \E e \in Event : e.kind # "ready" /\ Post(e)

LEMMA ChannelWithoutReady ==
  ASSUME TypeOK, Ownership, PostsNoReady
  PROVE  /\ channel' \in Seq(Event)
         /\ \A s \in Sessions : /\ Queued(Ready(s))' => Queued(Ready(s))
                                /\ Once(Ready(s), channel)'
         /\ \A e : Queued(e) => Queued(e)'
<1>1. \A s \in Sessions : Once(EvOf("ready", s), channel)
  BY DEF Ownership, Ready
<1>2. CASE channel' = channel
  BY <1>1, <1>2 DEF TypeOK, Queued, Once, Ready, EvOf
<1>3. ASSUME NEW e \in Event, e.kind # "ready", Post(e)
      PROVE  /\ channel' \in Seq(Event)
             /\ \A s \in Sessions : /\ Queued(Ready(s))' => Queued(Ready(s))
                                    /\ Once(Ready(s), channel)'
             /\ \A f : Queued(f) => Queued(f)'
  BY <1>1, <1>3, PostToChannel DEF Ready, EvOf
<1> QED BY <1>2, <1>3 DEF PostsNoReady

-----------------------------------------------------------------------------
(* The invariant and what follows from it.                                 *)

LEMMA SessionInvariant == Spec => []SessionInv
<1>0. Init => SessionInv
  <2> SUFFICES ASSUME Init PROVE SessionInv
    OBVIOUS
  <2>1. channel \in Seq(Event) /\ Len(channel) = 0
    BY DEF Init
  <2>2. tasks \in [Task -> Nat]
    BY DEF Init, NoTasks
  <2>3. TypeOK
    BY <2>1, <2>2 DEF Init, TypeOK, Focus, MaybeSession, NoSession
  <2>4. Ownership
    <3>1. \A e : ~Queued(e) /\ Once(e, channel)
      BY <2>1 DEF Queued, Once
    <3>2. \A s \in Sessions : s # NoSession
      BY DEF Sessions, NoSession
    <3> QED BY <3>1, <3>2 DEF Ownership, Init
  <2>5. DirOutlivesProcess /\ SpawningIsAttended
    BY DEF Init, DirOutlivesProcess, SpawningIsAttended
  <2> QED BY <2>3, <2>4, <2>5 DEF SessionInv
<1>1. SessionInv /\ UNCHANGED vars => SessionInv'
  <2> SUFFICES ASSUME SessionInv, UNCHANGED vars PROVE SessionInv'
    OBVIOUS
  <2> USE DEF vars, uiVars, nvimVars
  <2>1. TypeOK'             BY DEF SessionInv, TypeOK
  <2>2. Ownership'          BY DEF SessionInv, Ownership, Queued, Once, Ready, EvOf
  <2>3. DirOutlivesProcess' BY DEF SessionInv, DirOutlivesProcess
  <2>4. SpawningIsAttended' BY DEF SessionInv, SpawningIsAttended, Queued, EvOf
  <2> QED BY <2>1, <2>2, <2>3, <2>4 DEF SessionInv
(* The keys, the quit and the exit.                                        *)
<1>2. SessionInv /\ KeyStep => SessionInv'
  <2> SUFFICES ASSUME SessionInv, KeyStep PROVE SessionInv'
    OBVIOUS
  <2>1. TypeOK /\ Ownership /\ DirOutlivesProcess /\ SpawningIsAttended
    BY DEF SessionInv
  <2>2. /\ UNCHANGED <<session, cleanupTask, channel, proc, xdg, teardown>>
        /\ \/ PressEdit
           \/ bridge' = bridge /\ (focus' = "spawning" => focus = "spawning")
    BY <2>1 DEF KeyStep, PressEdit, PressDetach, PressNvimKey, ModalReload, ModalOverwrite,
                ModalDiff, ModalCancel, DiffCancel, MoveFocus, SelectSource, PressReload,
                PressQuit, TerminalLost, Quit, Exit, IdleOutside, nvimVars, uiVars
  <2>0. TypeOK /\ KeyStep => TypeOK'
    <3> SUFFICES ASSUME TypeOK, KeyStep PROVE TypeOK'
      OBVIOUS
    <3>0. TypeOK /\ KeyStep => tasks' \in [Task -> Nat]
      <4> SUFFICES ASSUME TypeOK, KeyStep PROVE tasks' \in [Task -> Nat]
        OBVIOUS
      <4>1. tasks \in [Task -> Nat] /\ session \in MaybeSession
        BY DEF TypeOK
      <4>2. CASE PressDetach  BY <4>1, <4>2, TaskTypes DEF PressDetach
      <4>3. CASE PressNvimKey BY <4>1, <4>3, TaskTypes DEF PressNvimKey
      <4>4. CASE ModalReload
        <5>1. Plus(tasks, JobOf("detach", session)) \in [Task -> Nat]
          BY <4>1, TaskTypes
        <5> QED BY <4>1, <4>4, <5>1, TaskTypes DEF ModalReload
      <4>5. CASE ModalOverwrite BY <4>1, <4>5, TaskTypes DEF ModalOverwrite
      <4>6. CASE ModalDiff      BY <4>1, <4>6, TaskTypes DEF ModalDiff
      <4>7. CASE PressReload    BY <4>1, <4>7, TaskTypes DEF PressReload
      <4>8. \/ PressDetach \/ PressNvimKey \/ ModalReload \/ ModalOverwrite
            \/ ModalDiff \/ PressReload \/ tasks' = tasks
        BY DEF KeyStep, PressEdit, ModalCancel, DiffCancel, MoveFocus, SelectSource,
               PressQuit, TerminalLost, Quit, Exit
      <4> QED BY <4>1, <4>2, <4>3, <4>4, <4>5, <4>6, <4>7, <4>8
    <3>1. tasks' \in [Task -> Nat] BY <3>0
    <3>2. focus' \in Focus /\ selection' \in {"none", "unloaded", "loaded"}
      BY DEF TypeOK, Focus, KeyStep, PressEdit, PressDetach, PressNvimKey, ModalReload,
             ModalOverwrite, ModalDiff, ModalCancel, DiffCancel, MoveFocus, SelectSource,
             PressReload, PressQuit, TerminalLost, Quit, Exit, uiVars
    <3>3. pendingModal' \in BOOLEAN /\ phase' \in {"running", "quitting", "ended"}
      BY Zenon DEF TypeOK, KeyStep, PressEdit, PressDetach, PressNvimKey, ModalReload,
             ModalOverwrite, ModalDiff, ModalCancel, DiffCancel, MoveFocus, SelectSource,
             PressReload, PressQuit, TerminalLost, Quit, Exit, uiVars, IdleOutside
    <3>4. keys' \in Nat
      <4>1. keys' = keys \/ keys' = keys + 1
        BY DEF KeyStep, PressEdit, PressDetach, PressNvimKey, ModalReload,
             ModalOverwrite, ModalDiff, ModalCancel, DiffCancel, MoveFocus, SelectSource,
             PressReload, PressQuit, TerminalLost, Quit, Exit, Key
      <4> QED BY <4>1 DEF TypeOK
    <3>5. UNCHANGED <<session, cleanupTask, channel, proc, xdg, teardown>>
      BY <2>2
    <3>6. bridge' \in [Sessions -> {"unused", "probing", "spawned", "attached", "ready", "failed"}]
      BY <2>2 DEF TypeOK, PressEdit
    <3> QED BY <3>1, <3>2, <3>3, <3>4, <3>5, <3>6 DEF TypeOK
  <2>3. Ownership'
    <3>1. \A s \in Sessions : bridge[s] \in {"ready", "failed"} => bridge'[s] = bridge[s]
      BY <2>1, <2>2 DEF PressEdit, TypeOK
    <3>2. \A s \in Sessions : /\ Queued(Ready(s))' => Queued(Ready(s))
                              /\ Once(Ready(s), channel)'
      BY <2>1, <2>2 DEF Queued, Once, Ownership, Ready, EvOf
    <3> QED BY <2>1, <2>2, <3>1, <3>2, HandsOff
  <2>4. DirOutlivesProcess'
    BY <2>1, <2>2 DEF DirOutlivesProcess
  <2>5. SpawningIsAttended'
    <3>1. CASE PressEdit
      <4>1. PICK s \in Sessions : bridge' = [bridge EXCEPT ![s] = "probing"]
        BY <3>1 DEF PressEdit
      <4>2. bridge'[s] = "probing"
        BY <2>1, <4>1 DEF TypeOK
      <4> QED BY <4>2 DEF SpawningIsAttended
    <3>2. CASE bridge' = bridge /\ (focus' = "spawning" => focus = "spawning")
      BY <2>1, <2>2, <3>2 DEF SpawningIsAttended, Queued
    <3> QED BY <2>2, <3>1, <3>2
  <2> QED BY <2>1, <2>3, <2>4, <2>5, <2>0 DEF SessionInv
(* The events: what all of them do, and what they do to the session.       *)
<1>3. SessionInv /\ HandleEvent => SessionInv'
  <2> SUFFICES ASSUME SessionInv, HandleEvent PROVE SessionInv'
    OBVIOUS
  <2>f. ASSUME TypeOK, HandleEvent
        PROVE  /\ channel # <<>> /\ channel' = Tail(channel)
               /\ UNCHANGED <<phase, keys, bridge, proc, xdg>>
               /\ Head(channel) \in Event
               /\ \/ OnReady \/ OnUnavailable \/ OnSessionOver
                  \/ /\ KeepSession
                     /\ Head(channel).kind \notin {"ready", "unavailable"}
                     /\ focus' = "spawning" => focus = "spawning"
    <3> USE <2>f
    <3>1. channel # <<>> /\ channel' = Tail(channel) /\ UNCHANGED <<phase, keys, bridge, proc, xdg>>
      BY DEF HandleEvent, OnReady, OnUnavailable, OnSessionOver, OnWriteRequested, OnWritten,
             OnConflict, OnDiffReady, OnProjectLoaded, OnSourceLoaded, OnSourceFailed,
             Handle, nvimVars
    <3>2. Head(channel) \in Event
      BY <3>1 DEF TypeOK
    <3>3. \/ OnReady \/ OnUnavailable \/ OnSessionOver
          \/ /\ KeepSession
             /\ Head(channel).kind \notin {"ready", "unavailable"}
             /\ focus' = "spawning" => focus = "spawning"
      BY DEF HandleEvent, OnWriteRequested, OnWritten, OnConflict, OnDiffReady, OnProjectLoaded,
             OnSourceLoaded, OnSourceFailed, Handle, uiVars
    <3> QED BY <3>1, <3>2, <3>3
  <2>0. TypeOK /\ HandleEvent => TypeOK'
    <3> SUFFICES ASSUME TypeOK, HandleEvent PROVE TypeOK'
      OBVIOUS
    <3>1. channel' \in Seq(Event)
      BY <2>f, TailOfChannel
    <3>2. focus' \in Focus /\ selection' \in {"none", "unloaded", "loaded"}
      BY DEF TypeOK, Focus, HandleEvent, OnReady, OnUnavailable, OnSessionOver,
             OnWriteRequested, OnWritten, OnConflict, OnDiffReady, OnProjectLoaded,
             OnSourceLoaded, OnSourceFailed, uiVars
    <3>3. pendingModal' \in BOOLEAN
      BY Zenon DEF TypeOK, HandleEvent, OnReady, OnUnavailable, OnSessionOver,
             OnWriteRequested, OnWritten, OnConflict, OnDiffReady, OnProjectLoaded,
             OnSourceLoaded, OnSourceFailed, uiVars
    <3>4. tasks' \in [Task -> Nat]
      <4>1. tasks \in [Task -> Nat] /\ session \in MaybeSession
        BY DEF TypeOK
      <4>2. \/ tasks' = tasks
            \/ \E k \in {"write", "load"} : tasks' = Plus(tasks, Job(k))
            \/ tasks' = Plus(tasks, JobOf("fetch", session))
        BY DEF HandleEvent, OnReady, OnUnavailable, OnSessionOver, OnWriteRequested,
               OnWritten, OnConflict, OnDiffReady, OnProjectLoaded, OnSourceLoaded,
               OnSourceFailed
      <4> QED BY <4>1, <4>2, TaskTypes
    <3>5. /\ session' \in MaybeSession /\ cleanupTask' \in MaybeSession
          /\ teardown' \in [Sessions -> {"no", "joining", "terminating", "done"}]
      <4>1. CASE OnReady
        BY <4>1, <2>f DEF OnReady, TypeOK, Event
      <4>2. CASE OnSessionOver
        BY <4>2 DEF OnSessionOver, ExecuteCleanup, TypeOK, MaybeSession, NoSession
      <4>3. CASE KeepSession
        BY <4>3 DEF KeepSession, TypeOK
      <4> QED BY <3>1, <4>1, <4>2, <4>3, <2>f DEF OnUnavailable
    <3> QED BY <3>1, <3>2, <3>3, <3>4, <3>5, <2>f DEF TypeOK
  <2>1. TypeOK /\ Ownership /\ DirOutlivesProcess /\ SpawningIsAttended
    BY DEF SessionInv
  <2>2. /\ UNCHANGED <<bridge, proc, xdg>> /\ Head(channel) \in Event
        /\ \A e : Queued(e)' => Queued(e)
        /\ \A e : Queued(e) => e = Head(channel) \/ Queued(e)'
        /\ \A e : Once(e, channel) => Once(e, channel)'
        /\ \A e : Once(e, channel) /\ e = Head(channel) => ~Queued(e)'
    BY <2>1, <2>f, TailOfChannel
  <2>3. Ownership'
    <3>1. CASE OnReady
      <4>1. session' = Head(channel).of /\ teardown' = teardown
        BY <3>1 DEF OnReady
      <4>2. Head(channel) = Ready(session')
        BY <2>2, <3>1, <4>1 DEF OnReady, Handle, Event, Ready, EvOf
      <4>3. Queued(Ready(session'))
        BY <2>1, <3>1, <4>2 DEF Queued, OnReady, Handle, TypeOK
      <4>4. ASSUME NEW s \in Sessions
            PROVE  /\ Queued(Ready(s))' => bridge'[s] = "ready" /\ teardown'[s] = "no" /\ session' # s
                   /\ session' = s => bridge'[s] = "ready" /\ teardown'[s] = "no"
        <5>1. Queued(Ready(s)) => bridge[s] = "ready" /\ teardown[s] = "no"
          BY <2>1 DEF Ownership
        <5>2. session' = s => Queued(Ready(s)) /\ ~Queued(Ready(s))'
          BY <2>1, <2>2, <4>2, <4>3 DEF Ownership
        <5> QED BY <2>2, <4>1, <5>1, <5>2
      <4> QED BY <2>1, <2>2, <4>1, <4>4 DEF Ownership, Ready, EvOf
    <3>2. CASE OnSessionOver
      <4>1. CASE session = NoSession
        BY <2>1, <2>2, <3>2, <4>1, HandsOff DEF OnSessionOver, ExecuteCleanup, Ownership, Ready, EvOf
      <4>2. CASE session # NoSession
        <5>1. session' = NoSession /\ teardown' = [teardown EXCEPT ![session] = "joining"]
          BY <3>2, <4>2 DEF OnSessionOver, ExecuteCleanup
        <5>2. session \in Sessions
          BY <2>1, <4>2 DEF TypeOK, MaybeSession
        <5>3. ASSUME NEW s \in Sessions
              PROVE  /\ Queued(Ready(s))' => bridge'[s] = "ready" /\ teardown'[s] = "no"
                     /\ teardown'[s] # "no" => bridge'[s] \in {"ready", "failed"}
                     /\ s # NoSession
          <6>1. Queued(Ready(s))' => Queued(Ready(s))
            BY <2>2
          <6>2. s # NoSession
            BY SMT DEF Sessions, NoSession
          <6> QED BY <2>1, <2>2, <5>1, <6>1, <6>2 DEF Ownership, TypeOK
        <5> QED BY <2>1, <2>2, <5>1, <5>3 DEF Ownership, Ready, EvOf
      <4> QED BY <4>1, <4>2
    <3>3. CASE KeepSession
      BY <2>1, <2>2, <3>3, HandsOff DEF KeepSession, Ownership, Ready, EvOf
    <3> QED BY <2>1, <3>1, <3>2, <3>3, <2>f DEF OnUnavailable
  <2>4. DirOutlivesProcess'
    BY <2>1, <2>2 DEF DirOutlivesProcess
  <2>5. SpawningIsAttended'
    <3>1. CASE OnReady       BY <3>1 DEF OnReady, SpawningIsAttended
    <3>2. CASE OnUnavailable BY <3>2 DEF OnUnavailable, SpawningIsAttended
    <3>3. CASE OnSessionOver BY <3>3 DEF OnSessionOver, SpawningIsAttended
    <3>4. CASE /\ Head(channel).kind \notin {"ready", "unavailable"}
               /\ focus' = "spawning" => focus = "spawning"
      <4>1. \A s : Queued(EvOf("ready", s)) => Queued(EvOf("ready", s))'
        BY <2>2, <3>4 DEF EvOf
      <4>2. \A s : Queued(EvOf("unavailable", s)) => Queued(EvOf("unavailable", s))'
        BY <2>2, <3>4 DEF EvOf
      <4> QED BY <2>1, <2>2, <3>4, <4>1, <4>2 DEF SpawningIsAttended, EvOf
    <3> QED BY <2>1, <3>1, <3>2, <3>3, <3>4, <2>f
  <2> QED BY <2>1, <2>3, <2>4, <2>5, <2>0 DEF SessionInv
(* The Tasks.                                                              *)
<1>4. SessionInv /\ TaskStep => SessionInv'
  <2> SUFFICES ASSUME SessionInv, TaskStep PROVE SessionInv'
    OBVIOUS
  <2>0. ASSUME TypeOK, TaskStep
        PROVE  /\ UNCHANGED <<focus, selection, pendingModal, session, cleanupTask, phase, keys>>
               /\ UNCHANGED <<bridge, proc, xdg, teardown>>
               /\ PostsNoReady
               /\ tasks' \in [Task -> Nat]
    <3> USE <2>0
    <3> USE DEF Idle, uiVars, nvimVars, Outcome
    <3>1. CASE DetachTask
      <4>1. PICK s \in Sessions : Finish(JobOf("detach", s)) /\ Post(EvOf("detached", s))
        BY <3>1 DEF DetachTask
      <4>2. EvOf("detached", s) \in Event /\ EvOf("detached", s).kind # "ready"
            /\ JobOf("detach", s) \in Task
        BY EventTypes, TaskTypes DEF EvOf, MaybeSession
      <4> QED BY <4>1, <4>2, TaskTypes DEF Finish, PostsNoReady
    <3>2. CASE InputTask
      <4>1. PICK s \in Sessions : Finish(JobOf("input", s)) /\ channel' = channel
        BY <3>2 DEF InputTask
      <4>2. JobOf("input", s) \in Task
        BY TaskTypes DEF MaybeSession
      <4> QED BY <4>1, <4>2, TaskTypes DEF Finish, PostsNoReady
    <3>3. CASE FetchSucceeds
      <4>1. PICK s \in Sessions :
              /\ tasks[JobOf("fetch", s)] > 0
              /\ tasks' = [tasks EXCEPT ![JobOf("fetch", s)] = @ - 1, ![Job("write")] = @ + 1]
        BY <3>3 DEF FetchSucceeds
      <4>2. JobOf("fetch", s) \in Task /\ Job("write") \in Task
        BY TaskTypes DEF MaybeSession
      <4>3. PICK j, k \in Task : /\ tasks[j] > 0
                                /\ tasks' = [tasks EXCEPT ![j] = @ - 1, ![k] = @ + 1]
        BY <4>1, <4>2
      <4>4. tasks \in [Task -> Nat] /\ tasks[j] - 1 \in Nat
        BY <4>3 DEF TypeOK
      <4>5. [tasks EXCEPT ![j] = @ - 1] \in [Task -> Nat]
        BY <4>4
      <4>6. tasks' \in [Task -> Nat]
        BY <4>3, <4>5
      <4> QED BY <3>3, <4>6 DEF FetchSucceeds, PostsNoReady
    <3>4. CASE FetchFails
      <4>1. PICK s \in MaybeSession : Finish(JobOf("fetch", s)) /\ channel' = channel
        BY <3>4 DEF FetchFails
      <4> QED BY <4>1, TaskTypes DEF Finish, PostsNoReady
    <3>5. CASE WriteTask \/ DiffTask \/ LoadTask
      <4>1. PICK j \in {"write", "forced", "diff", "load", "project"} :
              Finish(Job(j))
        BY <3>5 DEF WriteTask, DiffTask, LoadTask
      <4>2. \/ channel' = channel
            \/ \E k \in {"written", "conflict", "diffReady", "projectLoaded",
                         "sourceLoaded", "sourceFailed"} : Post(Ev(k))
        BY <3>5 DEF WriteTask, DiffTask, LoadTask
      <4>3. \A k \in {"written", "conflict", "diffReady", "projectLoaded",
                      "sourceLoaded", "sourceFailed"} : Ev(k) \in Event /\ Ev(k).kind # "ready"
        BY EventTypes DEF Ev
      <4>4. PostsNoReady
        BY <4>2, <4>3 DEF PostsNoReady
      <4> QED BY <4>1, <4>4, TaskTypes DEF Finish
    <3> QED BY <3>1, <3>2, <3>3, <3>4, <3>5 DEF TaskStep
  <2>1. TypeOK /\ Ownership /\ DirOutlivesProcess /\ SpawningIsAttended
    BY DEF SessionInv
  <2>2. /\ UNCHANGED <<focus, selection, pendingModal, session, cleanupTask, phase, keys>>
        /\ UNCHANGED <<bridge, proc, xdg, teardown>>
        /\ tasks' \in [Task -> Nat] /\ channel' \in Seq(Event)
        /\ \A s \in Sessions : /\ Queued(Ready(s))' => Queued(Ready(s))
                               /\ Once(Ready(s), channel)'
        /\ \A e : Queued(e) => Queued(e)'
    BY <2>1, <2>0, ChannelWithoutReady
  <2>3. TypeOK'             BY <2>1, <2>2 DEF TypeOK
  <2>4. Ownership'          BY <2>1, <2>2, HandsOff
  <2>5. DirOutlivesProcess' BY <2>1, <2>2 DEF DirOutlivesProcess
  <2>6. SpawningIsAttended' BY <2>1, <2>2 DEF SpawningIsAttended, EvOf
  <2> QED BY <2>3, <2>4, <2>5, <2>6 DEF SessionInv
(* The bridge of one session, from the probe to `ready`.                   *)
<1>5. ASSUME SessionInv, NEW s \in Sessions, BridgeStep(s)
      PROVE  SessionInv'
  <2> USE <1>5
  <2>1. TypeOK /\ Ownership /\ DirOutlivesProcess /\ SpawningIsAttended
    BY DEF SessionInv
  <2>a. ASSUME TypeOK
        PROVE  TypeOK'
    <3> USE <2>a
    <3>1. channel' \in Seq(Event)
      <4>1. \/ channel' = channel
            \/ Post(EvOf("unavailable", s)) \/ Post(EvOf("ready", s))
        BY DEF BridgeStep, ProbeFails, SpawnFails, SpawnSucceeds, AttachSucceeds,
               AttachFails, PostReady
      <4>2. EvOf("unavailable", s) \in Event /\ EvOf("ready", s) \in Event
        BY EventTypes
      <4> QED BY <4>1, <4>2, PostToChannel DEF TypeOK
    <3>2. UNCHANGED <<focus, selection, pendingModal, session, cleanupTask, phase, keys, tasks>>
      BY DEF BridgeStep, ProbeFails, SpawnFails, SpawnSucceeds, AttachSucceeds,
             AttachFails, PostReady, Bridge, Idle, uiVars
    <3>3. bridge' \in [Sessions -> {"unused", "probing", "spawned", "attached", "ready", "failed"}]
      BY DEF BridgeStep, ProbeFails, SpawnFails, SpawnSucceeds, AttachSucceeds,
             AttachFails, PostReady, Bridge, TypeOK
    <3>4. /\ proc' \in [Sessions -> {"none", "running", "exited", "reported"}]
          /\ xdg' \subseteq Sessions
          /\ teardown' \in [Sessions -> {"no", "joining", "terminating", "done"}]
      BY DEF BridgeStep, ProbeFails, SpawnFails, SpawnSucceeds, AttachSucceeds,
             AttachFails, PostReady, TypeOK
    <3> QED BY <3>1, <3>2, <3>3, <3>4 DEF TypeOK
  <2>b. ASSUME TypeOK, Ownership
        PROVE  Ownership'
    <3> USE <2>b
    <3>1. session' = session /\ \E to : bridge' = [bridge EXCEPT ![s] = to]
      BY DEF BridgeStep, ProbeFails, SpawnFails, SpawnSucceeds, AttachSucceeds,
             AttachFails, PostReady, Bridge, Idle
    <3>2. /\ bridge[s] \in {"probing", "spawned", "attached"}
          /\ teardown[s] = "no" /\ session # s /\ ~Queued(Ready(s))
      <4>1. bridge[s] \in {"probing", "spawned", "attached"}
        BY DEF BridgeStep, ProbeFails, SpawnFails, SpawnSucceeds, AttachSucceeds,
               AttachFails, PostReady, Bridge
      <4> QED BY <4>1 DEF Ownership
    <3>3. EvOf("unavailable", s) \in Event /\ Ready(s) \in Event
          /\ EvOf("unavailable", s).kind # "ready"
      BY EventTypes DEF Ready, EvOf
    <3>4. CASE ProbeFails(s) \/ SpawnFails(s) \/ SpawnSucceeds(s) \/ AttachSucceeds(s)
      <4>1. PostsNoReady /\ teardown' = teardown
        BY <3>3, <3>4 DEF ProbeFails, SpawnFails, SpawnSucceeds, AttachSucceeds, PostsNoReady
      <4>2. \A r \in Sessions : bridge[r] \in {"ready", "failed"} => bridge'[r] = bridge[r]
        BY <3>1, <3>2 DEF TypeOK
      <4> QED BY <3>1, <4>1, <4>2, ChannelWithoutReady, HandsOff
    <3>5. CASE AttachFails(s)
      <4>1. PostsNoReady
        BY <3>3, <3>5 DEF AttachFails, PostsNoReady
      <4>2. \A r \in Sessions : /\ Queued(Ready(r))' => Queued(Ready(r))
                                /\ Once(Ready(r), channel)'
        BY <4>1, ChannelWithoutReady
      <4>3. /\ bridge' = [bridge EXCEPT ![s] = "failed"]
            /\ teardown' = [teardown EXCEPT ![s] = "terminating"]
        BY <3>5 DEF AttachFails, Bridge
      <4>4. ASSUME NEW r \in Sessions
            PROVE  /\ Queued(Ready(r))' => bridge'[r] = "ready" /\ teardown'[r] = "no" /\ session' # r
                   /\ session' = r => bridge'[r] = "ready" /\ teardown'[r] = "no"
                   /\ teardown'[r] # "no" => bridge'[r] \in {"ready", "failed"}
        <5>1. CASE r = s
          <6>1. bridge'[r] = "failed" /\ session' # r /\ ~Queued(Ready(r))'
            BY <3>1, <3>2, <4>2, <4>3, <5>1 DEF TypeOK
          <6> QED BY <6>1
        <5>2. CASE r # s
          <6>1. bridge'[r] = bridge[r] /\ teardown'[r] = teardown[r]
            BY <4>3, <5>2 DEF TypeOK
          <6> QED BY <3>1, <4>2, <6>1 DEF Ownership
        <5> QED BY <5>1, <5>2
      <4> QED BY <4>2, <4>4 DEF Ownership, Ready, EvOf
    <3>6. CASE PostReady(s)
      <4>1. /\ bridge' = [bridge EXCEPT ![s] = "ready"]
            /\ teardown' = teardown /\ Post(Ready(s))
        BY <3>6 DEF PostReady, Bridge, Ready
      <4>2. /\ \A f : Queued(f)' <=> Queued(f) \/ f = Ready(s)
            /\ \A f : Once(f, channel) /\ (f = Ready(s) => ~Queued(f)) => Once(f, channel)'
        BY <3>3, <4>1, PostToChannel
      <4>3. ASSUME NEW r \in Sessions
            PROVE  /\ Queued(EvOf("ready", r))' =>
                        bridge'[r] = "ready" /\ teardown'[r] = "no" /\ session' # r
                   /\ session' = r => bridge'[r] = "ready" /\ teardown'[r] = "no"
                   /\ teardown'[r] # "no" => bridge'[r] \in {"ready", "failed"}
                   /\ Once(EvOf("ready", r), channel)'
        <5>1. Once(Ready(r), channel)'
          BY <3>2, <4>2 DEF Ownership
        <5>2. CASE r = s
          <6>1. bridge'[r] = "ready" /\ teardown'[r] = "no" /\ session' # r
            BY <3>1, <3>2, <4>1, <5>2 DEF TypeOK
          <6> QED BY <5>1, <6>1 DEF Ready
        <5>3. CASE r # s
          <6>1. bridge'[r] = bridge[r] /\ teardown'[r] = teardown[r]
            BY <4>1, <5>3 DEF TypeOK
          <6>2. Queued(Ready(r))' => Queued(Ready(r))
            BY <4>2, <5>3, EventTypes DEF Ready
          <6> QED BY <3>1, <5>1, <6>1, <6>2 DEF Ownership, Ready
        <5> QED BY <5>2, <5>3
      <4> QED BY <4>3 DEF Ownership, Ready, EvOf
    <3> QED BY <3>4, <3>5, <3>6 DEF BridgeStep
  <2>2. TypeOK'    BY <2>1, <2>a
  <2>3. Ownership' BY <2>1, <2>b
  <2>4. DirOutlivesProcess'
    BY <2>1 DEF DirOutlivesProcess, BridgeStep, ProbeFails, SpawnFails, SpawnSucceeds,
                AttachSucceeds, AttachFails, PostReady, TypeOK
  <2>5. SpawningIsAttended'
    <3>1. \/ bridge'[s] \in {"spawned", "attached"}
          \/ Post(EvOf("unavailable", s)) \/ Post(EvOf("ready", s))
      BY <2>1 DEF BridgeStep, ProbeFails, SpawnFails, SpawnSucceeds, AttachSucceeds,
                  AttachFails, PostReady, Bridge, TypeOK
    <3>2. \/ bridge'[s] \in {"spawned", "attached"}
          \/ Queued(EvOf("unavailable", s))' \/ Queued(EvOf("ready", s))'
      BY <2>1, <3>1, EventTypes, PostToChannel
    <3> QED BY <3>2 DEF SpawningIsAttended, EvOf
  <2> QED BY <2>2, <2>3, <2>4, <2>5 DEF SessionInv
(* Its shutdown and its nvim process.                                      *)
<1>6. ASSUME SessionInv, NEW s \in Sessions, ProcessStep(s)
      PROVE  SessionInv'
  <2> USE <1>6
  <2> USE DEF Idle, IdleOutside, uiVars, nvimVars
  <2>1. TypeOK /\ Ownership /\ DirOutlivesProcess /\ SpawningIsAttended
    BY DEF SessionInv
  <2>2. /\ UNCHANGED <<focus, selection, pendingModal, session, cleanupTask, phase>>
        /\ UNCHANGED <<bridge, tasks>>
    BY DEF ProcessStep, JoinReader, Kill, FinishTeardown, NvimExits, ReportExit, NvimWrites
  <2>3. PostsNoReady
    <3>1. \A k \in {"exited", "writeRequested"} :
            EvOf(k, s) \in Event /\ EvOf(k, s).kind # "ready"
      BY EventTypes DEF EvOf
    <3>2. channel' = channel \/ \E k \in {"exited", "writeRequested"} : Post(EvOf(k, s))
      BY DEF ProcessStep, JoinReader, Kill, FinishTeardown, NvimExits, ReportExit, NvimWrites
    <3> QED BY <3>1, <3>2 DEF PostsNoReady
  <2>4. /\ channel' \in Seq(Event)
        /\ \A r \in Sessions : /\ Queued(Ready(r))' => Queued(Ready(r))
                               /\ Once(Ready(r), channel)'
        /\ \A e : Queued(e) => Queued(e)'
    BY <2>1, <2>3, ChannelWithoutReady
  <2>5. /\ teardown' \in [Sessions -> {"no", "joining", "terminating", "done"}]
        /\ \A r \in Sessions : teardown'[r] = "no" <=> teardown[r] = "no"
    BY <2>1 DEF TypeOK, ProcessStep, JoinReader, Kill, FinishTeardown, NvimExits,
                ReportExit, NvimWrites
  <2>6. /\ proc' \in [Sessions -> {"none", "running", "exited", "reported"}]
        /\ xdg' \subseteq Sessions
        /\ \A r \in Sessions : proc'[r] = "running" => proc[r] = "running"
        /\ \A r \in Sessions : proc'[r] = "running" /\ r \in xdg => r \in xdg'
    BY <2>1 DEF TypeOK, ProcessStep, JoinReader, Kill, FinishTeardown, NvimExits,
                ReportExit, NvimWrites
  <2>7. keys' \in Nat
    <3>1. keys' = keys \/ keys' = keys + 1
      BY DEF ProcessStep, JoinReader, Kill, FinishTeardown, NvimExits, ReportExit,
             NvimWrites, Key
    <3> QED BY <2>1, <3>1 DEF TypeOK
  <2>8. TypeOK'             BY <2>1, <2>2, <2>4, <2>5, <2>6, <2>7 DEF TypeOK
  <2>9. Ownership'          BY <2>1, <2>2, <2>4, <2>5 DEF Ownership, Ready, EvOf
  <2>10. DirOutlivesProcess' BY <2>1, <2>6 DEF DirOutlivesProcess
  <2>11. SpawningIsAttended' BY <2>1, <2>2, <2>4 DEF SpawningIsAttended, EvOf
  <2> QED BY <2>8, <2>9, <2>10, <2>11 DEF SessionInv
<1>7. SessionInv /\ Next => SessionInv'
  <2> SUFFICES ASSUME SessionInv, Next PROVE SessionInv'
    OBVIOUS
  <2>1. \/ KeyStep \/ HandleEvent \/ TaskStep
        \/ \E s \in Sessions : BridgeStep(s) \/ ProcessStep(s)
    BY DEF Next, KeyStep, TaskStep, ProcessStep
  <2> QED BY <2>1, <1>2, <1>3, <1>4, <1>5,
             <1>6
<1> QED BY <1>0, <1>1, <1>7, PTL DEF Spec

(* Every variable keeps its type: the driver's slots hold sessions, a Task *)
(* that ends had begun.                                                    *)
THEOREM SessionTypeCorrect == Spec => []TypeOK
<1>1. SessionInv => TypeOK BY DEF SessionInv
<1> QED BY <1>1, SessionInvariant, PTL

(* executeNvimCleanup forgets the session before its reader is joined, and *)
(* nothing that is still queued gives it back to the driver.               *)
THEOREM ClosedSessionIsForgotten == Spec => []NilBeforeTeardown
<1>1. SessionInv => NilBeforeTeardown
  BY DEF SessionInv, Ownership, NilBeforeTeardown, Ready
<1> QED BY <1>1, SessionInvariant, PTL

(* The supervisor removes the private directory only after waitUntilExit,  *)
(* so an nvim that runs has its directory, however its session ends.       *)
THEOREM DirectoryIsKept == Spec => []DirOutlivesProcess
<1>1. SessionInv => DirOutlivesProcess BY DEF SessionInv
<1> QED BY <1>1, SessionInvariant, PTL

(* The focus leaves .nvimSpawning with the verdict of EditorBridge.spawn:  *)
(* as long as it is there, a bridge is at work or its verdict is queued.   *)
THEOREM SpawnIsAttended == Spec => []SpawningIsAttended
<1>1. SessionInv => SpawningIsAttended BY DEF SessionInv
<1> QED BY <1>1, SessionInvariant, PTL
=============================================================================
