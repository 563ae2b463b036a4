------------------------------ MODULE EventPump ------------------------------
(***************************************************************************)
(* The event pump and $EDITOR: a thread polls the terminal for input and   *)
(* has to be out of the way while an editor owns the terminal.  The UI     *)
(* thread asks it to park and waits for the acknowledgement, both on one   *)
(* NSCondition (EventPump.swift), around suspending the terminal, running  *)
(* the editor and resuming (AppDriver+EditorEffects.swift).  As long as    *)
(* the edited text does not parse, the $EDITOR fallback does this again.   *)
(*                                                                         *)
(* A step is one critical section of the condition's lock or one call      *)
(* outside it.  A thread in wait() is in "waiting"; signal() takes one     *)
(* thread out, and a thread may wake up for no reason at all.              *)
(***************************************************************************)
EXTENDS Naturals

CONSTANTS MaxEdits,    \* bound on the times an editor is started
          MaxKeys,     \* bound on the keys posted and not handled
          EditorIsSet  \* $EDITOR names an absolute, executable path

ASSUME EventPumpAssumption ==
  MaxEdits \in Nat /\ MaxKeys \in Nat /\ EditorIsSet \in BOOLEAN

VARIABLES
  parkRequested, parked, stopped, \* EventPump's fields
  waiting,   \* the threads in condition.wait()
  pump,      \* where the pump thread is
  ui,        \* where the UI thread is
  loop,      \* the UI thread runs the fallback's syntax loop
  text,      \* the text being edited parses, or does not
  keys,      \* keys posted and not handled yet
  sentinel,  \* the resize(0,0) that stands for a dead terminal is queued
  edits      \* editors started so far

flags == <<parkRequested, parked, stopped>>
pumpVars == <<flags, waiting, pump, ui, loop, text, keys, sentinel, edits>>

PumpTypeOK ==
  /\ parkRequested \in BOOLEAN /\ parked \in BOOLEAN /\ stopped \in BOOLEAN
  /\ waiting \subseteq {"pump", "ui"}
  /\ pump \in {"top", "polling", "blocked", "parked", "gone"}
  /\ ui \in {"idle", "spawn", "park", "awaitAck", "suspend", "editing", "resume",
             "unpark", "readBack", "ended"}
  /\ loop \in BOOLEAN
  /\ text \in {"clean", "broken"}
  /\ keys \in 0..MaxKeys
  /\ sentinel \in BOOLEAN
  /\ edits \in 0..MaxEdits

PumpInit ==
  /\ parkRequested = FALSE /\ parked = FALSE /\ stopped = FALSE
  /\ waiting = {} /\ pump = "top" /\ ui = "idle"
  /\ loop = FALSE /\ text \in {"clean", "broken"}
  /\ keys = 0 /\ sentinel = FALSE /\ edits = 0

(* condition.signal(), then, for a thread that goes on to wait, wait().    *)
Signal == IF waiting = {} THEN waiting' = {}
                          ELSE \E t \in waiting : waiting' = waiting \ {t}
SignalAndWait(t) == IF waiting = {} THEN waiting' = {t}
                    ELSE \E r \in waiting : waiting' = (waiting \ {r}) \cup {t}

SpuriousWakeup ==
  /\ \E t \in waiting : waiting' = waiting \ {t}
  /\ UNCHANGED <<flags, pump, ui, loop, text, keys, sentinel, edits>>

-----------------------------------------------------------------------------
(* The pump thread (runLoop).                                              *)

PumpKeeps == UNCHANGED <<ui, loop, text, edits>>

(* Mutant: a stopped pump posts what it still has and goes on.             *)
Stop_Polls ==
  /\ pump = "top" /\ stopped
  /\ pump' = "polling"
  /\ UNCHANGED <<flags, waiting, keys, sentinel>> /\ PumpKeeps

(* The top of the loop, under the lock.                                    *)
Stop ==
  /\ pump = "top" /\ stopped
  /\ pump' = "gone"
  /\ UNCHANGED <<flags, waiting, keys, sentinel>> /\ PumpKeeps

(* Mutant: the acknowledgement is not signalled.                           *)
Park_Silent ==
  /\ pump = "top" /\ parkRequested /\ ~stopped
  /\ parked' = TRUE /\ pump' = "parked"
  /\ waiting' = waiting \cup {"pump"}
  /\ UNCHANGED <<parkRequested, stopped, keys, sentinel>> /\ PumpKeeps

Park ==
  /\ pump = "top" /\ parkRequested /\ ~stopped
  /\ parked' = TRUE /\ pump' = "parked"
  /\ SignalAndWait("pump")
  /\ UNCHANGED <<parkRequested, stopped, keys, sentinel>> /\ PumpKeeps

AskSource ==
  /\ pump = "top" /\ ~parkRequested /\ ~stopped
  /\ pump' = "polling"
  /\ UNCHANGED <<flags, waiting, keys, sentinel>> /\ PumpKeeps

(* Back from wait(): stop, go on polling, or wait again.                   *)
Wake ==
  /\ pump = "parked" /\ "pump" \notin waiting
  /\ \/ stopped /\ pump' = "gone" /\ waiting' = waiting
     \/ ~stopped /\ ~parkRequested /\ pump' = "polling" /\ waiting' = waiting
     \/ ~stopped /\ parkRequested /\ pump' = "parked" /\ waiting' = waiting \cup {"pump"}
  /\ UNCHANGED <<flags, keys, sentinel>> /\ PumpKeeps

InSource == pump \in {"polling", "blocked"}

(* source.next is called with a timeout of 50 ms, but the tty is read in   *)
(* blocking mode until an escape sequence is complete (mio.rs:95): in the  *)
(* middle of one the call lasts until the terminal sends more.             *)
SourceBlocks ==
  /\ pump = "polling" /\ pump' = "blocked"
  /\ UNCHANGED <<flags, waiting, keys, sentinel>> /\ PumpKeeps

(* source.next: a timeout or an event nobody knows; a key; an I/O error.   *)
SourceReturns ==
  /\ InSource /\ pump' = "top"
  /\ keys' \in IF keys < MaxKeys THEN {keys, keys + 1} ELSE {keys}
  /\ UNCHANGED <<flags, waiting, sentinel>> /\ PumpKeeps

SourceThrows ==
  /\ InSource /\ pump' = "gone"
  /\ sentinel' = TRUE
  /\ UNCHANGED <<flags, waiting, keys>> /\ PumpKeeps

PumpStep == Stop \/ Park \/ AskSource \/ Wake \/ SourceReturns

(* What the pump thread does without waiting for the terminal.             *)
PumpAlone == PumpStep /\ pump # "blocked"

-----------------------------------------------------------------------------
(* The UI thread: events.                                                  *)

UiKeeps == UNCHANGED <<pump, sentinel>>

Ends == /\ ui' = "ended" /\ stopped' = TRUE /\ Signal
        /\ UNCHANGED <<parkRequested, parked, loop, text, edits>>

(* A key: nothing here, <C-p> (the project file in the editor), or q.      *)
HandleKey ==
  /\ ui = "idle" /\ keys > 0 /\ keys' = keys - 1
  /\ \/ UNCHANGED <<flags, waiting, ui, loop, text, edits>>
     \/ /\ edits < MaxEdits /\ ui' = "spawn" /\ loop' = FALSE
        /\ UNCHANGED <<flags, waiting, text, edits>>
     \/ Ends
  /\ UiKeeps

(* nvimUnavailable: the selected fragment, whatever it is, is edited.      *)
HandleUnavailable ==
  /\ ui = "idle" /\ edits < MaxEdits
  /\ ui' = "spawn" /\ loop' = TRUE /\ text' \in {"clean", "broken"}
  /\ UNCHANGED <<flags, waiting, keys, edits>> /\ UiKeeps

(* The sentinel comes after the keys of the same producer.                 *)
HandleSentinel ==
  /\ ui = "idle" /\ sentinel /\ keys = 0
  /\ Ends
  /\ UNCHANGED keys /\ UiKeeps

(* spawnEditorAndWait: without a usable $EDITOR nothing is touched.        *)
SpawnEditor ==
  /\ ui = "spawn"
  /\ IF EditorIsSet
       THEN ui' = "park" /\ edits' = edits + 1
       ELSE ui' = (IF loop THEN "readBack" ELSE "idle") /\ edits' = edits
  /\ UNCHANGED <<flags, waiting, loop, text, keys>> /\ UiKeeps

UiAtEditor == UNCHANGED <<loop, keys, edits>> /\ UiKeeps

(* Mutant: the request is enough, the acknowledgement is not awaited.      *)
ParkAndWait_NoWait ==
  /\ ui = "park" /\ ui' = "suspend"
  /\ parkRequested' = TRUE /\ Signal
  /\ UNCHANGED <<parked, stopped, text>> /\ UiAtEditor

ParkAndWait ==
  /\ ui = "park" /\ parkRequested' = TRUE
  /\ \/ parked /\ ui' = "suspend" /\ Signal
     \/ ~parked /\ ui' = "awaitAck" /\ SignalAndWait("ui")
  /\ UNCHANGED <<parked, stopped, text>> /\ UiAtEditor

Acknowledged ==
  /\ ui = "awaitAck" /\ "ui" \notin waiting
  /\ \/ parked /\ ui' = "suspend" /\ waiting' = waiting
     \/ ~parked /\ ui' = ui /\ waiting' = waiting \cup {"ui"}
  /\ UNCHANGED <<flags, text>> /\ UiAtEditor

(* A terminal that cannot be suspended is left alone.                      *)
Suspend ==
  /\ ui = "suspend" /\ ui' \in {"editing", "unpark"}
  /\ UNCHANGED <<flags, waiting, text>> /\ UiAtEditor

(* The editor cannot be started, or the user leaves it.                    *)
EditorExits ==
  /\ ui = "editing" /\ ui' = "resume"
  /\ text' \in {"clean", "broken"}
  /\ UNCHANGED <<flags, waiting>> /\ UiAtEditor

(* An error from resume() is ignored.                                      *)
Resume ==
  /\ ui = "resume" /\ ui' = "unpark"
  /\ UNCHANGED <<flags, waiting, text>> /\ UiAtEditor

(* Mutant: the pump is not woken.                                          *)
UnparkAfterResume_Silent ==
  /\ ui = "unpark" /\ ui' = IF loop THEN "readBack" ELSE "idle"
  /\ parkRequested' = FALSE /\ parked' = FALSE
  /\ UNCHANGED <<waiting, stopped, text>> /\ UiAtEditor

UnparkAfterResume ==
  /\ ui = "unpark" /\ ui' = IF loop THEN "readBack" ELSE "idle"
  /\ parkRequested' = FALSE /\ parked' = FALSE /\ Signal
  /\ UNCHANGED <<stopped, text>> /\ UiAtEditor

(* The fallback reads the text back: an I/O error ends it, so does a text  *)
(* that parses; another one is annotated and opened again.                 *)
ReadBack ==
  /\ ui = "readBack"
  /\ \/ ui' = "idle"
     \/ text = "broken" /\ edits < MaxEdits /\ ui' = "spawn"
  /\ UNCHANGED <<flags, waiting, text>> /\ UiAtEditor

UiStep ==
  \/ HandleKey \/ HandleSentinel
  \/ SpawnEditor \/ ParkAndWait \/ Acknowledged \/ Suspend \/ EditorExits \/ Resume
  \/ UnparkAfterResume \/ ReadBack

PumpNext == SpuriousWakeup \/ PumpStep \/ SourceBlocks \/ SourceThrows \/ UiStep \/ HandleUnavailable

PumpSpec == PumpInit /\ [][PumpNext]_pumpVars

(* Both threads run; the user leaves every editor sooner or later.  A read *)
(* that blocks need not end.                                               *)
LiveSpec == PumpSpec /\ WF_pumpVars(PumpAlone) /\ WF_pumpVars(UiStep)

-----------------------------------------------------------------------------
(* Properties.                                                             *)

(* ARCHITECTURE 5.2: no input-class call is in flight from the moment the  *)
(* terminal is given away until it is taken back.                          *)
NoPollDuringHandoff == ui \in {"suspend", "editing", "resume"} => ~InSource

(* The pump thread waits, was asked to park and has not acknowledged it:   *)
(* the inner loop (EventPump.swift:150) went back to wait() for a request  *)
(* that came before it had seen the end of the last one.                   *)
Reparked == pump = "parked" /\ parkRequested /\ ~parked

(* Every request to park is acknowledged, and the UI thread gets on; only  *)
(* a terminal that died, a read that never ends and the deadlock of        *)
(* Reparked keep it waiting.                                               *)
ParkIsAnswered ==
  ui = "awaitAck" ~> ui # "awaitAck" \/ pump = "gone" \/ Reparked \/ [](pump = "blocked")

(* No wake-up is lost when the pump is unparked: input flows again, unless *)
(* it is asked to park once more.                                          *)
UnparkResumes == pump = "parked" /\ ~parkRequested ~> pump # "parked" \/ parkRequested

(* stop(): the pump thread ends, wherever it is, unless its read never     *)
(* does.                                                                   *)
StopEnds == stopped ~> pump = "gone" \/ [](pump = "blocked")

-----------------------------------------------------------------------------
(* What the documentation says and the code does not do.                   *)

(* "The pump will park at its next poll boundary" (EventPump.swift:91):    *)
(* every request to park is acknowledged as long as the pump thread lives. *)
(* Neither Reparked nor a blocked read lets it.                            *)
EveryParkReturns ==
  ui = "awaitAck" ~> ui # "awaitAck" \/ pump = "gone" \/ [](pump = "blocked")
EveryPollReturns == ui = "awaitAck" ~> ui # "awaitAck" \/ pump = "gone" \/ Reparked

(* CR-019: a dead terminal ends the loop instead of leaving it on a        *)
(* channel that nobody answers.                                            *)
DeadTerminalQuits == sentinel ~> ui = "ended"
=============================================================================
