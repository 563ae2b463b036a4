------------------------------- MODULE NvimRpc -------------------------------
(***************************************************************************)
(* The msgpack-RPC client of the embedded nvim (NvimRPCClient.swift and    *)
(* NvimRPCClient+Reader.swift): an actor that owns nvim's stdin, the       *)
(* continuations of the requests in flight, and a reader thread that turns *)
(* every message on nvim's stdout into a task for the actor.               *)
(*                                                                         *)
(* One actor turn is one step: an actor method runs without interleaving   *)
(* up to its suspension.  The reader starts one unstructured Task per      *)
(* message, so the tasks waiting for the actor form a set and any of them  *)
(* may run next.  nvim itself and the pipes are external.                  *)
(***************************************************************************)
EXTENDS Naturals, Sequences, FiniteSets

CONSTANTS Callers,   \* the request() calls made during one session
          MaxNotes   \* bound on the notifications nvim sends

ASSUME NvimRpcAssumption == MaxNotes \in Nat

VARIABLES
  caller,      \* how far each request() call has come
  msgidOf,     \* the msgid request() allocated for the call
  nextMsgid,   \* the actor's msgid counter
  pending,     \* the actor's dictionary: msgid -> suspended call
  resumed,     \* history: how often each continuation was resumed
  stdinOpen,   \* the actor's stdinOpen flag
  handler,     \* TRUE once onNotification has registered a handler
  tasks,       \* tasks enqueued on the actor and not yet run
  reader,      \* reader thread: where it stands in runReaderLoop
  stopReader,  \* the stop flag
  joinPermits, \* value of readerExitSemaphore
  shutdown,    \* where the cleanup task stands
  stdin,       \* request frames nvim has not read yet
  stdout,      \* messages in the stdout pipe
  writers,     \* processes holding a write end of the stdout pipe
  notesSent,   \* notifications nvim has sent
  handled,     \* history: notifications in the order the handler saw them
  writeFailed, \* history: some write to stdin failed
  eofSeen      \* history: the actor has run readerDidObserveEOF

actorVars  == <<nextMsgid, pending, stdinOpen, handler>>
callVars   == <<caller, msgidOf, resumed>>
readerVars == <<reader, stopReader, joinPermits, shutdown>>
nvimVars   == <<stdin, stdout, writers, notesSent>>
histVars   == <<handled, writeFailed, eofSeen>>
vars == <<actorVars, callVars, readerVars, nvimVars, histVars, tasks>>

Outcomes == {"result", "remoteError", "closed", "cancelled"}
Message  == [kind : {"response", "note"}, id : Nat, err : BOOLEAN]
Eof      == [kind |-> "eof", id |-> 0, err |-> FALSE]
Cancellation(id) == [kind |-> "cancel", id |-> id, err |-> FALSE]
Task     == [kind : {"response", "note", "eof", "cancel"}, id : Nat, err : BOOLEAN]

NoEntries == [id \in {} |-> id]  \* the empty dictionary

NvimRunning == "nvim" \in writers

TypeOK ==
  /\ caller \in [Callers -> {"idle", "waiting"} \cup Outcomes]
  /\ msgidOf \in [Callers -> Nat]
  /\ resumed \in [Callers -> Nat]
  /\ nextMsgid \in Nat
  /\ DOMAIN pending \subseteq Nat
  /\ \A id \in DOMAIN pending : pending[id] \in Callers
  /\ stdinOpen \in BOOLEAN
  /\ handler \in BOOLEAN
  /\ tasks \subseteq Task
  /\ reader \in {"none", "check", "read", "leaving", "exited"}
  /\ stopReader \in BOOLEAN
  /\ joinPermits \in Nat
  /\ shutdown \in {"no", "waiting", "returned", "closed"}
  /\ stdin \in Seq(Nat)
  /\ stdout \in Seq(Message)
  /\ writers \subseteq {"moonswift", "nvim"}
  /\ notesSent \in Nat
  /\ handled \in Seq(Nat)
  /\ writeFailed \in BOOLEAN
  /\ eofSeen \in BOOLEAN

(* The session starts when nvim has been spawned with its pipes open.      *)
(* Whether MoonSwift still holds a write end of nvim's stdout is up to the *)
(* Foundation release: both cases are initial states.                      *)
Init ==
  /\ caller = [c \in Callers |-> "idle"]
  /\ msgidOf = [c \in Callers |-> 0]
  /\ resumed = [c \in Callers |-> 0]
  /\ nextMsgid = 0
  /\ pending = NoEntries
  /\ stdinOpen = FALSE
  /\ handler = FALSE
  /\ tasks = {}
  /\ reader = "none"
  /\ stopReader = FALSE
  /\ joinPermits = 0
  /\ shutdown = "no"
  /\ stdin = << >>
  /\ stdout = << >>
  /\ writers \in {{"nvim"}, {"moonswift", "nvim"}}
  /\ notesSent = 0
  /\ handled = << >>
  /\ writeFailed = FALSE
  /\ eofSeen = FALSE

-----------------------------------------------------------------------------
(* The calls a client makes on the actor.                                  *)

(* attachPipes(stdin:stdout:): opens the send side, starts the reader.     *)
AttachPipes ==
  /\ reader = "none"
  /\ stdinOpen' = TRUE
  /\ reader' = "check"
  /\ UNCHANGED <<callVars, nextMsgid, pending, handler, tasks, stopReader,
                 joinPermits, shutdown, nvimVars, histVars>>

(* request() while the send side is closed: throws connectionClosed.       *)
RequestRefused(c) ==
  /\ caller[c] = "idle"
  /\ ~stdinOpen
  /\ caller' = [caller EXCEPT ![c] = "closed"]
  /\ UNCHANGED <<msgidOf, resumed, actorVars, tasks, readerVars, nvimVars, histVars>>

(* request() whose write fails (EPIPE: nvim is gone): the msgid is spent,  *)
(* the send side is marked closed, nothing is registered.                  *)
RequestWriteFails(c) ==
  /\ caller[c] = "idle"
  /\ stdinOpen
  /\ ~NvimRunning
  /\ nextMsgid' = nextMsgid + 1
  /\ stdinOpen' = FALSE
  /\ writeFailed' = TRUE
  /\ caller' = [caller EXCEPT ![c] = "closed"]
  /\ UNCHANGED <<msgidOf, resumed, pending, handler, tasks, readerVars, nvimVars,
                 handled, eofSeen>>

(* request() whose frame is written: register the continuation, suspend.   *)
(* A frame may still fit into the pipe of an nvim that is gone: it is lost *)
(* and nobody is told.                                                     *)
Request(c) ==
  /\ caller[c] = "idle"
  /\ stdinOpen
  /\ nextMsgid' = nextMsgid + 1
  /\ msgidOf' = [msgidOf EXCEPT ![c] = nextMsgid]
  /\ pending' = [id \in DOMAIN pending \cup {nextMsgid} |->
                   IF id = nextMsgid THEN c ELSE pending[id]]
  /\ caller' = [caller EXCEPT ![c] = "waiting"]
  /\ stdin' = IF NvimRunning THEN Append(stdin, nextMsgid) ELSE stdin
  /\ UNCHANGED <<resumed, stdinOpen, handler, tasks, readerVars, stdout, writers,
                 notesSent, histVars>>

(* notify() after nvim is gone: the write fails and closes the send side.  *)
(* A notify that is written, or dropped by the guard, changes nothing here.*)
NotifyWriteFails ==
  /\ stdinOpen
  /\ ~NvimRunning
  /\ stdinOpen' = FALSE
  /\ writeFailed' = TRUE
  /\ UNCHANGED <<callVars, nextMsgid, pending, handler, tasks, readerVars,
                 nvimVars, handled, eofSeen>>

(* onNotification(_:_:) *)
OnNotification ==
  /\ ~handler
  /\ handler' = TRUE
  /\ UNCHANGED <<callVars, nextMsgid, pending, stdinOpen, tasks, readerVars,
                 nvimVars, histVars>>

(* The Task that called request() is cancelled while suspended: onCancel   *)
(* enqueues cancelPendingRequest on the actor.                             *)
CancelCall(c) ==
  /\ caller[c] = "waiting"
  /\ tasks' = tasks \cup {Cancellation(msgidOf[c])}
  /\ UNCHANGED <<callVars, actorVars, readerVars, nvimVars, histVars>>

-----------------------------------------------------------------------------
(* The tasks the actor runs.                                               *)

(* Remove one continuation from the dictionary and resume it.              *)
Resume(id, outcome) ==
  /\ pending' = [i \in DOMAIN pending \ {id} |-> pending[i]]
  /\ caller' = [caller EXCEPT ![pending[id]] = outcome]
  /\ resumed' = [resumed EXCEPT ![pending[id]] = @ + 1]

(* Mutant: the oldest request is taken for the one that was answered.      *)
DeliverResponse_ToOldest(t) ==
  /\ t \in tasks /\ t.kind = "response"
  /\ tasks' = tasks \ {t}
  /\ \/ /\ pending = NoEntries
        /\ UNCHANGED <<pending, caller, resumed>>
     \/ \E id \in DOMAIN pending :
          /\ \A other \in DOMAIN pending : id <= other
          /\ Resume(id, IF t.err THEN "remoteError" ELSE "result")
  /\ UNCHANGED <<msgidOf, nextMsgid, stdinOpen, handler, readerVars, nvimVars, histVars>>

(* deliver(.response): resume the request with that msgid; a response to   *)
(* an unknown msgid is dropped.                                            *)
DeliverResponse(t) ==
  /\ t \in tasks /\ t.kind = "response"
  /\ tasks' = tasks \ {t}
  /\ IF t.id \in DOMAIN pending
     THEN Resume(t.id, IF t.err THEN "remoteError" ELSE "result")
     ELSE UNCHANGED <<pending, caller, resumed>>
  /\ UNCHANGED <<msgidOf, nextMsgid, stdinOpen, handler, readerVars, nvimVars, histVars>>

(* deliver(.notification): call the handler if one is registered.          *)
DeliverNotification(t) ==
  /\ t \in tasks /\ t.kind = "note"
  /\ tasks' = tasks \ {t}
  /\ handled' = IF handler THEN Append(handled, t.id) ELSE handled
  /\ UNCHANGED <<callVars, actorVars, readerVars, nvimVars, writeFailed, eofSeen>>

(* cancelPendingRequest(msgid:) *)
CancelPendingRequest(t) ==
  /\ t \in tasks /\ t.kind = "cancel"
  /\ tasks' = tasks \ {t}
  /\ IF t.id \in DOMAIN pending
     THEN Resume(t.id, "cancelled")
     ELSE UNCHANGED <<pending, caller, resumed>>
  /\ UNCHANGED <<msgidOf, nextMsgid, stdinOpen, handler, readerVars, nvimVars, histVars>>

(* Mutant: the dictionary is cleared and nobody is resumed.                *)
FailAllPending_Forgets ==
  /\ pending' = NoEntries
  /\ UNCHANGED <<caller, resumed>>

(* Resume every suspended call with connectionClosed.                      *)
FailAllPending ==
  LET waiting == {pending[id] : id \in DOMAIN pending} IN
  /\ pending' = NoEntries
  /\ caller' = [c \in Callers |-> IF c \in waiting THEN "closed" ELSE caller[c]]
  /\ resumed' = [c \in Callers |-> IF c \in waiting THEN resumed[c] + 1 ELSE resumed[c]]

(* Mutant: the send side is closed but the suspended calls are left alone. *)
ReaderDidObserveEOF_LeavesPending ==
  /\ Eof \in tasks
  /\ tasks' = tasks \ {Eof}
  /\ eofSeen' = TRUE
  /\ stdinOpen' = FALSE
  /\ UNCHANGED <<callVars, nextMsgid, pending, handler, readerVars, nvimVars,
                 handled, writeFailed>>

(* readerDidObserveEOF(): returns early when the send side is closed.      *)
ReaderDidObserveEOF ==
  /\ Eof \in tasks
  /\ tasks' = tasks \ {Eof}
  /\ eofSeen' = TRUE
  /\ IF stdinOpen
     THEN /\ stdinOpen' = FALSE
          /\ FailAllPending
     ELSE UNCHANGED <<stdinOpen, pending, caller, resumed>>
  /\ UNCHANGED <<msgidOf, nextMsgid, handler, readerVars, nvimVars, handled, writeFailed>>

RunTask ==
  \/ \E t \in tasks : DeliverResponse(t) \/ DeliverNotification(t) \/ CancelPendingRequest(t)
  \/ ReaderDidObserveEOF

-----------------------------------------------------------------------------
(* The reader thread (runReaderLoop).                                      *)

(* while !stopReaderFlag *)
ReaderCheckStop ==
  /\ reader = "check"
  /\ reader' = IF stopReader THEN "leaving" ELSE "read"
  /\ UNCHANGED <<callVars, actorVars, tasks, stopReader, joinPermits, shutdown,
                 nvimVars, histVars>>

(* read(2) returned bytes: every message completed by the chunk becomes a  *)
(* task of its own for the actor.                                          *)
ReaderReadChunk ==
  /\ reader = "read"
  /\ \E n \in 1..Len(stdout) :
       /\ tasks' = tasks \cup {stdout[i] : i \in 1..n}
       /\ stdout' = SubSeq(stdout, n + 1, Len(stdout))
  /\ reader' = "check"
  /\ UNCHANGED <<callVars, actorVars, stopReader, joinPermits, shutdown, stdin,
                 writers, notesSent, histVars>>

(* read(2) failed, or the framer rejected the chunk (a cap violation).     *)
ReaderFails ==
  /\ reader = "read"
  /\ reader' = "leaving"
  /\ UNCHANGED <<callVars, actorVars, tasks, stopReader, joinPermits, shutdown,
                 nvimVars, histVars>>

(* read(2) returned 0: the pipe is drained and no process can write to it. *)
ReaderSeesEOF ==
  /\ reader = "read"
  /\ stdout = << >>
  /\ writers = {}
  /\ reader' = "leaving"
  /\ UNCHANGED <<callVars, actorVars, tasks, stopReader, joinPermits, shutdown,
                 nvimVars, histVars>>

(* Mutant: no EOF task when the loop ends because of the stop flag.        *)
ReaderLeaves_SilentOnStop ==
  /\ reader = "leaving"
  /\ reader' = "exited"
  /\ tasks' = IF stopReader THEN tasks ELSE tasks \cup {Eof}
  /\ joinPermits' = joinPermits + 1
  /\ UNCHANGED <<callVars, actorVars, stopReader, shutdown, nvimVars, histVars>>

(* The defer block: post the EOF task, then signal the semaphore.          *)
ReaderLeaves ==
  /\ reader = "leaving"
  /\ reader' = "exited"
  /\ tasks' = tasks \cup {Eof}
  /\ joinPermits' = joinPermits + 1
  /\ UNCHANGED <<callVars, actorVars, stopReader, shutdown, nvimVars, histVars>>

-----------------------------------------------------------------------------
(* The cleanup task: shutdownReader(), then the supervisor's teardown().   *)

(* Mutant: MoonSwift keeps its own write end of nvim's stdout.             *)
ShutdownReader_KeepsWriteEnd ==
  /\ shutdown = "no"
  /\ reader # "none"
  /\ stopReader' = TRUE
  /\ shutdown' = "waiting"
  /\ UNCHANGED <<callVars, actorVars, tasks, reader, joinPermits, nvimVars, histVars>>

(* Close the stdout write end, then set the stop flag and start waiting.   *)
ShutdownReader ==
  /\ shutdown = "no"
  /\ reader # "none"
  /\ writers' = writers \ {"moonswift"}
  /\ stopReader' = TRUE
  /\ shutdown' = "waiting"
  /\ UNCHANGED <<callVars, actorVars, tasks, reader, joinPermits, stdin, stdout,
                 notesSent, histVars>>

(* readerExitSemaphore.wait returns, signalled or after two seconds: its   *)
(* result is discarded, what follows is the same.                          *)
ShutdownReturns ==
  /\ shutdown = "waiting"
  /\ joinPermits' = IF joinPermits > 0 THEN joinPermits - 1 ELSE joinPermits
  /\ shutdown' = "returned"
  /\ UNCHANGED <<callVars, actorVars, tasks, reader, stopReader, nvimVars, histVars>>

(* teardown() ends an nvim that still runs: SIGTERM, SIGKILL two seconds   *)
(* later, waitUntilExit.                                                   *)
TeardownKills ==
  /\ shutdown = "returned"
  /\ NvimRunning
  /\ writers' = writers \ {"nvim"}
  /\ stdin' = << >>
  /\ UNCHANGED <<callVars, actorVars, tasks, readerVars, stdout, notesSent, histVars>>

(* ... and closes the read end of nvim's stdout, whatever the reader does. *)
(* A reader inside read(2) gets what was there before, or an error.        *)
TeardownCloses ==
  /\ shutdown = "returned"
  /\ ~NvimRunning
  /\ shutdown' = "closed"
  /\ UNCHANGED <<callVars, actorVars, tasks, reader, stopReader, joinPermits,
                 nvimVars, histVars>>

-----------------------------------------------------------------------------
(* nvim (external).                                                        *)

NvimReplies ==
  /\ NvimRunning
  /\ stdin # << >>
  /\ \E err \in BOOLEAN :
       stdout' = Append(stdout, [kind |-> "response", id |-> Head(stdin), err |-> err])
  /\ stdin' = Tail(stdin)
  /\ UNCHANGED <<callVars, actorVars, tasks, readerVars, writers, notesSent, histVars>>

(* nvim never answers, or with a message the reader cannot parse and drops.*)
NvimRepliesNothing ==
  /\ NvimRunning
  /\ stdin # << >>
  /\ stdin' = Tail(stdin)
  /\ UNCHANGED <<callVars, actorVars, tasks, readerVars, stdout, writers, notesSent, histVars>>

NvimNotifies ==
  /\ NvimRunning
  /\ notesSent < MaxNotes
  /\ notesSent' = notesSent + 1
  /\ stdout' = Append(stdout, [kind |-> "note", id |-> notesSent + 1, err |-> FALSE])
  /\ UNCHANGED <<callVars, actorVars, tasks, readerVars, stdin, writers, histVars>>

(* nvim ends, cleanly or not: unread requests are lost with it.            *)
NvimExits ==
  /\ NvimRunning
  /\ writers' = writers \ {"nvim"}
  /\ stdin' = << >>
  /\ UNCHANGED <<callVars, actorVars, tasks, readerVars, stdout, notesSent, histVars>>

-----------------------------------------------------------------------------
Client == \/ AttachPipes \/ NotifyWriteFails \/ OnNotification
          \/ \E c \in Callers : RequestRefused(c) \/ RequestWriteFails(c) \/ Request(c) \/ CancelCall(c)

ReaderThread == ReaderCheckStop \/ ReaderReadChunk \/ ReaderFails \/ ReaderSeesEOF \/ ReaderLeaves

Teardown == ShutdownReturns \/ TeardownKills \/ TeardownCloses

Shutdown == ShutdownReader \/ Teardown

Nvim == NvimReplies \/ NvimRepliesNothing \/ NvimNotifies \/ NvimExits

Next == Client \/ RunTask \/ ReaderThread \/ Shutdown \/ Nvim

(* The actor runs every task it is handed, and the reader thread keeps     *)
(* running; the cleanup task, once started, ends: its wait has a timeout   *)
(* and SIGKILL ends the process.  nvim owes nothing by itself, and a read  *)
(* error never has to happen.                                              *)
Fairness ==
  /\ WF_vars(RunTask)
  /\ WF_vars(ReaderCheckStop)
  /\ WF_vars(ReaderReadChunk)
  /\ WF_vars(ReaderSeesEOF)
  /\ WF_vars(ReaderLeaves)
  /\ WF_vars(Teardown)

Spec == Init /\ [][Next]_vars
FairSpec == Spec /\ Fairness

-----------------------------------------------------------------------------
(* Properties.                                                             *)

(* A request() call that is suspended is registered in the dictionary      *)
(* under its own msgid, and only such a call is: whatever order responses, *)
(* cancellations and the end of the stream are handled in, no continuation *)
(* is dropped from `pending` without being resumed (NvimRPCClient.deliver, *)
(* cancelPendingRequest, readerDidObserveEOF).                             *)
WaitingIsRegistered ==
  /\ \A c \in Callers : caller[c] = "waiting" =>
        msgidOf[c] \in DOMAIN pending /\ pending[msgidOf[c]] = c
  /\ \A id \in DOMAIN pending : caller[pending[id]] = "waiting"

(* A continuation is resumed at most once: resuming a CheckedContinuation  *)
(* twice is a run-time trap.  A response, a cancellation and the end of    *)
(* the stream can all be queued for the same call.                         *)
ResumedOnce == \A c \in Callers :
  resumed[c] = 0 \/ (resumed[c] = 1 /\ caller[c] \in Outcomes)

(* Each call returns what became of this call, once, whatever else is on   *)
(* its way to it or to others: nvim's answer to its own msgid, through the *)
(* pipe and a Task (deliver), its cancellation (cancelPendingRequest) or   *)
(* the end of the connection (RpcPromise).                                 *)
Responses == {m \in tasks \cup {stdout[i] : i \in DOMAIN stdout} : m.kind = "response"}
AnswersTo(c) == {IF m.err THEN "remoteError" ELSE "result" : m \in {n \in Responses : n.id = msgidOf[c]}}
Cancelled(c) == IF Cancellation(msgidOf[c]) \in tasks THEN {"cancelled"} ELSE {}

Connection == IF reader = "none" THEN "new" ELSE IF stdinOpen THEN "open" ELSE "closed"
Calls      == [c \in Callers |-> IF caller[c] = "waiting" THEN "asked" ELSE caller[c]]
Due        == [c \in Callers |-> IF caller[c] = "waiting" THEN AnswersTo(c) \cup Cancelled(c) ELSE {}]

Promise      == INSTANCE RpcPromise WITH connection <- Connection, call <- Calls, due <- Due
KeepsPromise == Promise!Spec

(* When the reader's end-of-stream task has run and no write had failed    *)
(* before it, no call is left suspended, nor will any ever be again.       *)
EofReleasesCallers == eofSeen /\ ~writeFailed => DOMAIN pending = {} /\ ~stdinOpen

(* If nvim dies while calls are suspended and no write has failed, the     *)
(* reader sees the end of the stream and every call is released.           *)
NvimDeathReleases ==
  writers = {} ~> writeFailed \/ \A c \in Callers : caller[c] # "waiting"

(* The reader thread does not outlive its session: whatever the wait in    *)
(* shutdownReader came to, and although an nvim that is still alive keeps  *)
(* the reader's read(2) blocked through it, the teardown takes both write  *)
(* ends of the pipe away and the thread ends.                              *)
CleanupEndsReader == (shutdown # "no") ~> (reader = "exited")

-----------------------------------------------------------------------------
(* What the documentation says and the code does not do.                   *)

(* The comment on readerDidObserveEOF: the end of the stream fails all     *)
(* pending continuations so callers do not hang indefinitely.              *)
NobodyHangsAfterEof == eofSeen => DOMAIN pending = {}

(* ARCHITECTURE.md section 10.4.6: the actor processes deliveries in       *)
(* arrival order.                                                          *)
HandledInArrivalOrder ==
  \A i, j \in DOMAIN handled : i < j => handled[i] < handled[j]

(* The comment on step 8 of teardown(): the reader thread has been joined  *)
(* before the read end of nvim's stdout is closed.                         *)
DescriptorsOutliveReader == shutdown = "closed" => reader = "exited"
=============================================================================
