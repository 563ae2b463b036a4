------------------------------ MODULE RunOutput ------------------------------
(***************************************************************************)
(* A run and its output: the UI thread starts one run at a time; the       *)
(* script prints from a background Task into a Coalescer, which batches    *)
(* lines and posts them on the event channel when a line arrives late      *)
(* enough, on a tick, or at the end of the run.  The ticks come from a     *)
(* thread which the reducer arms at the shortest interval of those who     *)
(* need one: a run, a message on the status line, a pulse, a resize        *)
(* (Coalescer, TickSource, RunService, AppDriver.run, Reducer).            *)
(*                                                                         *)
(* Time is abstract: a deadline passes at some moment, a timer ends at     *)
(* some moment.  The script's lines are numbered.                          *)
(***************************************************************************)
EXTENDS Integers, Sequences, FiniteSets, Functions

CONSTANTS MaxRuns,   \* bound on the runs started
          MaxLines,  \* bound on the lines each of them prints
          MaxKeys,   \* bound on the keys pressed
          Cap        \* the output buffer's capacity (1000)

ASSUME RunOutputAssumption ==
  MaxRuns \in Nat /\ MaxLines \in Nat /\ MaxKeys \in Nat /\ Cap \in Nat \ {0}

VARIABLES
  runState, runNumber,   \* AppState.runState, bottomPane.runNumber
  buffer,                \* bottomPane.outputBuffer
  deadline,              \* of the transient, the pulse, the pending resize
  active,                \* AppDriver.activeCoalescer: a run, 0 for nil
  task, printed,         \* of each run: where its Task is, the lines printed
  pending, gateOpen,     \* of each run's Coalescer; 16 ms since the last flush
  channel,               \* the events posted and not handled
  tick, thread,          \* TickSource: its state, where its thread is
  ended,                 \* the loop has been left
  keys,                  \* keys pressed so far
  shown                  \* history: the lines of this run given to the buffer

runVars  == <<task, printed, pending, gateOpen>>
tickVars == <<tick, thread>>
uiVars   == <<runState, runNumber, buffer, deadline, active, ended, keys, shown>>
vars     == <<uiVars, runVars, tickVars, channel>>

Runs      == 1..MaxRuns
Deadlines == {"resize", "pulse", "transient"}
Line      == Runs \X (1..MaxLines)
LineOf(r, i) == <<r, i>>

(* TickInterval, in ms.                                                    *)
Interval == [resize |-> 50, run |-> 100, pulse |-> 500, transient |-> 1500]
Disarmed == 0
Stopped  == -1

Output(lines) == [type |-> "output", lines |-> lines]
Plain(t)      == [type |-> t, lines |-> <<>>]
Event         == {Plain(t) : t \in {"tick", "finished", "transient"}}
                   \cup [type : {"output"}, lines : Seq(Line)]

(* What the buffer holds: a line, a run's value or footer, a notice of the *)
(* lines evicted, what is left when the user clears it.                    *)
Entry(kind, x) == <<kind, x>>
Entries        == ({"line"} \X Line) \cup ({"value", "footer"} \X (0..MaxRuns))
                    \cup ({"notice", "cleared"} \X Nat)

TypeOK ==
  /\ runState \in {"idle", "running", "completed"} /\ runNumber \in 0..MaxRuns
  /\ buffer \in Seq(Entries) /\ Len(buffer) <= Cap
  /\ deadline \in [Deadlines -> {"none", "set", "due"}]
  /\ active \in 0..MaxRuns
  /\ task \in [Runs -> {"none", "evaluating", "returned", "flushed", "gone"}]
  /\ printed \in [Runs -> 0..MaxLines]
  /\ pending \in [Runs -> Seq(Line)] /\ gateOpen \in [Runs -> BOOLEAN]
  /\ channel \in Seq(Event)
  /\ tick \in {Disarmed, Stopped} \cup {Interval[c] : c \in DOMAIN Interval}
  /\ thread \in {"loop", "asleep", "timing", "posting", "gone"}
  /\ ended \in BOOLEAN /\ keys \in 0..MaxKeys
  /\ shown \in Seq(Line)

Init ==
  /\ runState = "idle" /\ runNumber = 0 /\ buffer = <<>>
  /\ deadline = [d \in Deadlines |-> "none"]
  /\ active = 0
  /\ task = [r \in Runs |-> "none"] /\ printed = [r \in Runs |-> 0]
  /\ pending = [r \in Runs |-> <<>>] /\ gateOpen = [r \in Runs |-> TRUE]
  /\ channel = <<>>
  /\ tick = Disarmed /\ thread = "loop"
  /\ ended = FALSE /\ keys = 0 /\ shown = <<>>

-----------------------------------------------------------------------------
(* The tick source.                                                        *)

(* arm, disarm, stop: the thread is woken from either of its waits.        *)
SetTick(t) ==
  /\ tick' = t
  /\ thread' = IF thread \in {"asleep", "timing"} THEN "loop" ELSE thread

(* armTickIfNeeded: the shortest interval somebody needs, or nothing.  Its *)
(* spinner waits for a source in .loading, which nothing ever is.          *)
Needs(rs, dl) == {Interval[d] : d \in {c \in Deadlines : dl[c] # "none"}}
                   \cup (IF rs = "running" THEN {Interval["run"]} ELSE {})
Shortest(S) == CHOOSE i \in S : \A j \in S : i <= j
ArmIfNeeded == LET S == Needs(runState', deadline')
               IN  IF S = {} THEN UNCHANGED tickVars ELSE SetTick(Shortest(S))
ArmOrStop   == LET S == Needs(runState', deadline')
               IN  SetTick(IF S = {} THEN Disarmed ELSE Shortest(S))

ThreadKeeps == UNCHANGED <<uiVars, runVars>>

(* One round of the thread's loop, under the lock.                         *)
ThreadLoops ==
  /\ thread = "loop"
  /\ thread' = CASE tick = Stopped  -> "gone"
                 [] tick = Disarmed -> "asleep"
                 [] OTHER             -> "timing"
  /\ UNCHANGED <<tick, channel>> /\ ThreadKeeps

(* The interval is over; a signal would have taken the thread away.        *)
TimerEnds ==
  /\ thread = "timing" /\ thread' = "posting"
  /\ UNCHANGED <<tick, channel>> /\ ThreadKeeps

(* A tick is posted outside the lock (bound: one unhandled tick).          *)
PostTick ==
  /\ thread = "posting" /\ thread' = "loop"
  /\ channel' = IF Plain("tick") \in Range(channel) THEN channel
                                                    ELSE Append(channel, Plain("tick"))
  /\ UNCHANGED tick /\ ThreadKeeps

ThreadStep == ThreadLoops \/ TimerEnds \/ PostTick

DeadlinePasses(d) ==
  /\ ~ended /\ deadline[d] = "set" /\ deadline' = [deadline EXCEPT ![d] = "due"]
  /\ UNCHANGED <<runState, runNumber, buffer, active, ended, keys, shown, runVars, tickVars, channel>>

-----------------------------------------------------------------------------
(* The run's Task and its Coalescer.                                       *)

(* What the Task does once the loop has been left is of no interest.       *)
RunKeeps == ~ended /\ UNCHANGED <<uiVars, tickVars>>

GateOpens(r) ==
  /\ ~gateOpen[r] /\ task[r] = "evaluating"
  /\ gateOpen' = [gateOpen EXCEPT ![r] = TRUE]
  /\ UNCHANGED <<task, printed, pending, channel>> /\ RunKeeps

(* flushLocked, under the Coalescer's lock.                                *)
Flush(r, lines, events) ==
  IF lines = <<>>
    THEN channel' = events /\ UNCHANGED <<pending, gateOpen>>
    ELSE /\ channel' = Append(events, Output(lines))
         /\ pending' = [pending EXCEPT ![r] = <<>>]
         /\ gateOpen' = [gateOpen EXCEPT ![r] = FALSE]

(* print: onOutput.                                                        *)
OnOutput(r) ==
  /\ task[r] = "evaluating" /\ printed[r] < MaxLines
  /\ printed' = [printed EXCEPT ![r] = @ + 1]
  /\ LET lines == Append(pending[r], LineOf(r, printed'[r]))
     IN  IF gateOpen[r] THEN Flush(r, lines, channel)
         ELSE pending' = [pending EXCEPT ![r] = lines] /\ UNCHANGED <<gateOpen, channel>>
  /\ UNCHANGED task /\ RunKeeps

(* The script ends, or fails, or the engine cannot be made.                *)
RunReturns(r) ==
  /\ task[r] = "evaluating" /\ task' = [task EXCEPT ![r] = "returned"]
  /\ UNCHANGED <<printed, pending, gateOpen, channel>> /\ RunKeeps

(* Mutant: the last lines are left to the next tick.                       *)
FinishFlushes_Nothing(r) ==
  /\ task[r] = "returned" /\ task' = [task EXCEPT ![r] = "flushed"]
  /\ UNCHANGED <<printed, pending, gateOpen, channel>> /\ RunKeeps

(* Coalescer.finish.                                                       *)
FinishFlushes(r) ==
  /\ task[r] = "returned" /\ task' = [task EXCEPT ![r] = "flushed"]
  /\ Flush(r, pending[r], channel)
  /\ UNCHANGED printed /\ RunKeeps

PostFinished(r) ==
  /\ task[r] = "flushed" /\ task' = [task EXCEPT ![r] = "gone"]
  /\ channel' = Append(channel, Plain("finished"))
  /\ UNCHANGED <<printed, pending, gateOpen>> /\ RunKeeps

TaskEnds(r) == FinishFlushes(r) \/ PostFinished(r)

-----------------------------------------------------------------------------
(* The UI thread: the output buffer.                                       *)

(* Mutant: room is made at the wrong end.                                  *)
AppendEntries_DropsNewest(buf, es) ==
  LET all == buf \o es
      evicted == Len(all) - Cap + 1
  IN  IF Len(all) <= Cap THEN all
      ELSE <<Entry("notice", evicted)>> \o SubSeq(all, 1, Len(all) - evicted)

(* Mutant: no room is made for the notice itself.                          *)
AppendEntries_NoRoom(buf, es) ==
  LET all == buf \o es
      evicted == Len(all) - Cap
  IN  IF Len(all) <= Cap THEN all
      ELSE <<Entry("notice", evicted)>> \o SubSeq(all, evicted + 1, Len(all))

(* appendOutputLines: a full buffer loses its oldest entries to a notice.  *)
AppendEntries(buf, es) ==
  LET all == buf \o es
      evicted == Len(all) - Cap + 1
  IN  IF Len(all) <= Cap THEN all
      ELSE <<Entry("notice", evicted)>> \o SubSeq(all, evicted + 1, Len(all))

-----------------------------------------------------------------------------
(* The UI thread: events.                                                  *)

Took(t) == ~ended /\ channel # <<>> /\ Head(channel).type = t

(* Mutant: a tick is for the status line only.                             *)
OnTick_NoFlush ==
  /\ Took("tick") /\ channel' = Tail(channel)
  /\ deadline' = [d \in Deadlines |-> IF deadline[d] = "due" THEN "none" ELSE deadline[d]]
  /\ UNCHANGED <<runState, runNumber, buffer, active, ended, keys, shown, runVars>>
  /\ ArmOrStop

(* .tick: the active Coalescer flushes; what is due is done; then the      *)
(* source is armed again or stopped.                                       *)
OnTick ==
  /\ Took("tick")
  /\ IF active = 0 THEN channel' = Tail(channel) /\ UNCHANGED <<pending, gateOpen>>
                   ELSE Flush(active, pending[active], Tail(channel))
  /\ deadline' = [d \in Deadlines |-> IF deadline[d] = "due" THEN "none" ELSE deadline[d]]
  /\ UNCHANGED <<runState, runNumber, buffer, active, ended, keys, shown, task, printed>>
  /\ ArmOrStop

(* .runOutput is appended whatever the state of the run.                   *)
OnRunOutput ==
  /\ Took("output") /\ channel' = Tail(channel)
  /\ LET lines == Head(channel).lines
     IN  /\ buffer' = AppendEntries(buffer, [i \in DOMAIN lines |-> Entry("line", lines[i])])
         /\ shown' = shown \o lines
  /\ UNCHANGED <<runState, runNumber, deadline, active, ended, keys, runVars, tickVars>>

(* Mutant: the end of a run stops the ticks.                               *)
OnRunFinished_StopsTick ==
  /\ Took("finished") /\ channel' = Tail(channel)
  /\ active' = 0 /\ runState' = "completed"
  /\ buffer' = AppendEntries(buffer, <<Entry("footer", runNumber)>>)
  /\ UNCHANGED <<runNumber, deadline, ended, keys, shown, runVars>>
  /\ SetTick(Disarmed)

(* .runFinished: the value, if there is one, then the footer.              *)
OnRunFinished ==
  /\ Took("finished") /\ channel' = Tail(channel)
  /\ active' = 0 /\ runState' = "completed"
  /\ \E value \in {<<>>, <<Entry("value", runNumber)>>} :
       buffer' = AppendEntries(AppendEntries(buffer, value), <<Entry("footer", runNumber)>>)
  /\ UNCHANGED <<runNumber, deadline, ended, keys, shown, runVars>>
  /\ ArmOrStop

(* Something is put on the status line, or given another deadline.         *)
Begin(d) ==
  /\ deadline' = [deadline EXCEPT ![d] = "set"]
  /\ UNCHANGED <<runState, runNumber, buffer, active, ended, shown, runVars>>
  /\ ArmIfNeeded

OnTransient ==
  /\ Took("transient") /\ channel' = Tail(channel)
  /\ Begin("transient") /\ UNCHANGED keys

HandleEvent == OnTick \/ OnRunOutput \/ OnRunFinished \/ OnTransient

-----------------------------------------------------------------------------
(* The UI thread: keys.                                                    *)

Press == ~ended /\ keys < MaxKeys /\ keys' = keys + 1

(* tryRun, then executeRun.                                                *)
StartRun ==
  /\ runNumber < MaxRuns /\ runNumber' = runNumber + 1
  /\ runState' = "running" /\ buffer' = <<>> /\ shown' = <<>>
  /\ active' = runNumber' /\ task' = [task EXCEPT ![runNumber'] = "evaluating"]
  /\ SetTick(Interval["run"])
  /\ UNCHANGED <<deadline, ended, printed, pending, gateOpen, channel>>

PressRun ==
  /\ Press
  /\ \/ runState # "running" /\ StartRun
     \/ runState = "running" /\ Begin("transient") /\ UNCHANGED channel

(* x: nothing can be cancelled, a notice is posted.                        *)
PressCancel ==
  /\ Press /\ channel' = Append(channel, Plain("transient"))
  /\ UNCHANGED <<runState, runNumber, buffer, deadline, active, ended, shown, runVars, tickVars>>

(* <C-l> in the bottom pane.                                               *)
PressClear ==
  /\ Press /\ buffer' = <<Entry("cleared", 0)>>
  /\ UNCHANGED <<runState, runNumber, deadline, active, ended, shown, runVars, tickVars, channel>>

(* A key with a message, a jump to an error line, a resize over nvim.      *)
PressOther == Press /\ (\E d \in Deadlines : Begin(d)) /\ UNCHANGED channel

(* What is over before its tick: the code pane of a selected entry has no  *)
(* pulse, an editor that ends no pending resize.  The timer is left as it  *)
(* is, unless the editor's end has a message.                              *)
Drop(d) ==
  /\ deadline' = [deadline EXCEPT ![d] = "none"]
  /\ UNCHANGED <<runState, runNumber, buffer, active, ended, shown, runVars, tickVars, channel>>

PressSelect == Press /\ Drop("pulse")

EditorEnds ==
  /\ Press
  /\ \/ Drop("resize")
     \/ /\ deadline' = [deadline EXCEPT !["resize"] = "none", !["transient"] = "set"]
        /\ UNCHANGED <<runState, runNumber, buffer, active, ended, shown, runVars, channel>>
        /\ ArmIfNeeded

(* A source is loaded, or is not: the timer starts anew if one is needed.  *)
(* Like the end of an editor this is bounded as if it were a key.          *)
SourceArrives ==
  /\ Press
  /\ UNCHANGED <<runState, runNumber, buffer, deadline, active, ended, shown, runVars, channel>>
  /\ ArmIfNeeded

(* <C-p> without a usable $EDITOR: the driver sets the message and the     *)
(* interval itself.                                                        *)
PressEditor ==
  /\ Press /\ deadline' = [deadline EXCEPT !["transient"] = "set"]
  /\ SetTick(Interval["transient"])
  /\ UNCHANGED <<runState, runNumber, buffer, active, ended, shown, runVars, channel>>

PressQuit ==
  /\ Press /\ ended' = TRUE /\ SetTick(Stopped)
  /\ channel' = Append(channel, Plain("transient"))
  /\ UNCHANGED <<runState, runNumber, buffer, deadline, active, shown, runVars>>

PressKey == \/ PressRun \/ PressCancel \/ PressClear \/ PressOther \/ PressEditor
            \/ PressSelect \/ EditorEnds \/ SourceArrives \/ PressQuit

-----------------------------------------------------------------------------
Next ==
  \/ ThreadStep \/ HandleEvent \/ PressKey
  \/ \E d \in Deadlines : DeadlinePasses(d)
  \/ \E r \in Runs : GateOpens(r) \/ OnOutput(r) \/ RunReturns(r) \/ TaskEnds(r)

Spec == Init /\ [][Next]_vars

(* Threads and Tasks run and time passes; a script need not end and the    *)
(* user need not press a key.                                              *)
LiveSpec ==
  /\ Spec
  /\ WF_vars(ThreadStep) /\ WF_vars(HandleEvent)
  /\ \A d \in Deadlines : WF_vars(DeadlinePasses(d))
  /\ \A r \in Runs : WF_vars(TaskEnds(r))

-----------------------------------------------------------------------------
(* Properties.                                                             *)

(* ARCHITECTURE 3c: the last-line guarantee and the single run.            *)
PrintedBy(r) == [i \in 1 .. (IF r = 0 THEN 0 ELSE printed[r]) |-> LineOf(r, i)]
Promise      == INSTANCE RunPromise WITH phase <- runState, printed <- PrintedBy(runNumber)
KeepsPromise == Promise!Spec

(* ARCHITECTURE 3b: the source is armed while somebody needs ticks, and    *)
(* neither a run nor a message leaves it armed; only a pulse or a resize   *)
(* that was dropped may, until the next tick.                              *)
TicksAsNeeded ==
  ~ended =>
    /\ Needs(runState, deadline) # {} => tick # Disarmed
    /\ runState # "running" /\ deadline["transient"] = "none" =>
         tick \in {Disarmed, Interval["pulse"], Interval["resize"]}

(* ux-spec 6.4: what is left in the buffer are the newest lines.           *)
BufferHasNewest ==
  LET lines == {i \in DOMAIN buffer : buffer[i][1] = "line"}
  IN  \A i \in lines :
        LET newer == Cardinality({j \in lines : j > i})
        IN  newer < Len(shown) /\ buffer[i][2] = shown[Len(shown) - newer]

(* ARCHITECTURE 3c: a line is never stranded, even if the script prints it *)
(* and then computes for ever: the user is given all there is, again and   *)
(* again.                                                                  *)
LinesAppear == []<>(ended \/ shown = PrintedBy(runNumber))

(* A message disappears, a pulse ends, a resize is sent to nvim; and when  *)
(* nobody is left who needs ticks, they end.                               *)
DeadlinesAreServed ==
  /\ \A d \in Deadlines : deadline[d] # "none" ~> ended \/ deadline[d] = "none"
  /\ []<>(ended \/ tick = Disarmed \/ Needs(runState, deadline) # {})
=============================================================================
