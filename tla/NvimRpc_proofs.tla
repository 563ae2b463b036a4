---------------------------- MODULE NvimRpc_proofs ----------------------------
(***************************************************************************)
(* Proofs about NvimRpc, for any set of callers and any number of          *)
(* notifications.                                                          *)
(*                                                                         *)
(* The inductive invariant RpcInv adds to the properties what makes them   *)
(* survive a step: every key of the dictionary was allocated by the        *)
(* counter and leads back to the call that allocated it, the dictionary is *)
(* empty once the send side has been closed without a failed write, and    *)
(* the end-of-stream task exists only after the reader has left its loop.  *)
(*                                                                         *)
(* That NvimRpc implements RpcPromise rests on AnswerInv beside it: every  *)
(* msgid is with nvim once at most, as a request or as a response, so the  *)
(* answer of a call is not followed by another one.                        *)
(***************************************************************************)
EXTENDS NvimRpc, TLAPS

(* Every entry of the dictionary belongs to the suspended call that        *)
(* allocated its key.                                                      *)
PendingIsWaiting ==
  \A id \in DOMAIN pending :
    /\ id < nextMsgid
    /\ caller[pending[id]] = "waiting"
    /\ msgidOf[pending[id]] = id

(* Every suspended call has its entry in the dictionary.                   *)
WaitingIsPending ==
  \A c \in Callers : caller[c] = "waiting" =>
    msgidOf[c] \in DOMAIN pending /\ pending[msgidOf[c]] = c

(* A send side closed by the end of the stream has an empty dictionary.    *)
ClosedIsEmpty ==
  /\ ~stdinOpen /\ ~writeFailed => DOMAIN pending = {}
  /\ eofSeen => ~stdinOpen

(* The reader's farewell happens after its loop.                           *)
ReaderOrder == Eof \in tasks \/ eofSeen => reader = "exited"

RpcInv == /\ TypeOK
          /\ PendingIsWaiting
          /\ WaitingIsPending
          /\ ResumedOnce
          /\ ClosedIsEmpty
          /\ ReaderOrder

-----------------------------------------------------------------------------
(* Resuming the call registered under id keeps the dictionary, the calls   *)
(* and the resume counts consistent.                                       *)
LEMMA ResumeKeepsInv ==
  ASSUME RpcInv, NEW id \in DOMAIN pending, NEW outcome \in Outcomes,
         Resume(id, outcome), UNCHANGED <<msgidOf, nextMsgid>>
  PROVE  /\ caller' \in [Callers -> {"idle", "waiting"} \cup Outcomes]
         /\ resumed' \in [Callers -> Nat]
         /\ DOMAIN pending' \subseteq Nat
         /\ \A i \in DOMAIN pending' : pending'[i] \in Callers
         /\ DOMAIN pending' \subseteq DOMAIN pending
         /\ PendingIsWaiting' /\ WaitingIsPending' /\ ResumedOnce'
<1> USE DEF RpcInv, TypeOK
<1>1. pending[id] \in Callers /\ caller[pending[id]] = "waiting" /\ msgidOf[pending[id]] = id
  BY DEF PendingIsWaiting
<1>2. resumed[pending[id]] = 0
  BY <1>1 DEF ResumedOnce, Outcomes
<1>3. /\ DOMAIN pending' = DOMAIN pending \ {id}
      /\ \A i \in DOMAIN pending' : pending'[i] = pending[i]
  BY DEF Resume
<1>4. /\ caller' \in [Callers -> {"idle", "waiting"} \cup Outcomes]
      /\ resumed' \in [Callers -> Nat]
  BY <1>1 DEF Resume
<1>5. PendingIsWaiting'
  BY <1>1, <1>3 DEF PendingIsWaiting, Resume
<1>6. WaitingIsPending'
  BY <1>1, <1>3 DEF WaitingIsPending, Resume, Outcomes
<1>7. ResumedOnce'
  BY <1>1, <1>2 DEF ResumedOnce, Resume, Outcomes
<1> QED BY <1>3, <1>4, <1>5, <1>6, <1>7

(* A step that leaves the calls and the dictionary alone keeps what the    *)
(* invariant says of them.                                                 *)
LEMMA CallsUntouched ==
  ASSUME RpcInv, UNCHANGED <<callVars, nextMsgid, pending>>
  PROVE  PendingIsWaiting' /\ WaitingIsPending' /\ ResumedOnce'
  BY DEF RpcInv, callVars, PendingIsWaiting, WaitingIsPending, ResumedOnce

-----------------------------------------------------------------------------
(* The strengthened invariant holds in every reachable state.              *)
THEOREM RpcInvariant == Spec => []RpcInv
<1>0. Init => RpcInv
  <2> SUFFICES ASSUME Init PROVE RpcInv
    OBVIOUS
  <2> USE DEF Init
  <2>1. TypeOK
    <3>1. writers \subseteq {"moonswift", "nvim"}
      OBVIOUS
    <3>2. stdin \in Seq(Nat) /\ stdout \in Seq(Message) /\ handled \in Seq(Nat)
      OBVIOUS
    <3>3. DOMAIN pending = {}
      BY DEF NoEntries
    <3> QED BY <3>1, <3>2, <3>3 DEF TypeOK
  <2>2. PendingIsWaiting /\ WaitingIsPending /\ ResumedOnce
    BY DEF PendingIsWaiting, WaitingIsPending, ResumedOnce, NoEntries
  <2>3. ClosedIsEmpty /\ ReaderOrder
    BY DEF ClosedIsEmpty, ReaderOrder, NoEntries
  <2> QED BY <2>1, <2>2, <2>3 DEF RpcInv
<1>1. RpcInv /\ Shutdown => RpcInv'
  <2> SUFFICES ASSUME RpcInv, Shutdown PROVE RpcInv'
    OBVIOUS
  <2> USE DEF RpcInv, callVars, actorVars, nvimVars, histVars
  <2>1. CASE ShutdownReader
    <3> USE <2>1 DEF ShutdownReader
    <3>1. TypeOK' BY DEF TypeOK
    <3>2. ClosedIsEmpty' /\ ReaderOrder' BY DEF ClosedIsEmpty, ReaderOrder
    <3> QED BY <3>1, <3>2, CallsUntouched
  <2>2. CASE ShutdownReturns
    <3> USE <2>2 DEF ShutdownReturns
    <3>1. TypeOK' BY DEF TypeOK
    <3>2. ClosedIsEmpty' /\ ReaderOrder' BY DEF TypeOK, ClosedIsEmpty, ReaderOrder
    <3> QED BY <3>1, <3>2, CallsUntouched
  <2>3. CASE TeardownKills
    <3> USE <2>3 DEF TeardownKills, readerVars
    <3>1. TypeOK' BY DEF TypeOK
    <3>2. ClosedIsEmpty' /\ ReaderOrder' BY DEF ClosedIsEmpty, ReaderOrder
    <3> QED BY <3>1, <3>2, CallsUntouched
  <2>4. CASE TeardownCloses
    <3> USE <2>4 DEF TeardownCloses
    <3>1. TypeOK' BY DEF TypeOK
    <3>2. ClosedIsEmpty' /\ ReaderOrder' BY DEF ClosedIsEmpty, ReaderOrder
    <3> QED BY <3>1, <3>2, CallsUntouched
  <2> QED BY <2>1, <2>2, <2>3, <2>4 DEF Shutdown, Teardown
<1>2. RpcInv /\ Nvim => RpcInv'
  <2> SUFFICES ASSUME RpcInv, Nvim PROVE RpcInv'
    OBVIOUS
  <2> USE DEF RpcInv, callVars, actorVars, readerVars, histVars
  <2>1. CASE NvimReplies
    <3> USE <2>1 DEF NvimReplies
    <3>1. PICK err \in BOOLEAN :
            stdout' = Append(stdout, [kind |-> "response", id |-> Head(stdin), err |-> err])
      OBVIOUS
    <3>2. Head(stdin) \in Nat /\ stdin' \in Seq(Nat)
      BY DEF TypeOK
    <3>3. [kind |-> "response", id |-> Head(stdin), err |-> err] \in Message
      BY <3>2 DEF Message
    <3>4. stdout' \in Seq(Message)
      BY <3>1, <3>3 DEF TypeOK
    <3>5. TypeOK' BY <3>2, <3>4 DEF TypeOK
    <3>6. ClosedIsEmpty' /\ ReaderOrder' BY DEF ClosedIsEmpty, ReaderOrder
    <3> QED BY <3>5, <3>6, CallsUntouched
  <2>2. CASE NvimNotifies
    <3> USE <2>2 DEF NvimNotifies
    <3>1. [kind |-> "note", id |-> notesSent + 1, err |-> FALSE] \in Message
      BY DEF TypeOK, Message
    <3>2. stdout' \in Seq(Message)
      BY <3>1 DEF TypeOK
    <3>3. TypeOK' BY <3>2 DEF TypeOK
    <3>4. ClosedIsEmpty' /\ ReaderOrder' BY DEF ClosedIsEmpty, ReaderOrder
    <3> QED BY <3>3, <3>4, CallsUntouched
  <2>3. CASE NvimExits
    <3> USE <2>3 DEF NvimExits
    <3>1. TypeOK' BY DEF TypeOK
    <3>2. ClosedIsEmpty' /\ ReaderOrder' BY DEF ClosedIsEmpty, ReaderOrder
    <3> QED BY <3>1, <3>2, CallsUntouched
  <2>4. CASE NvimRepliesNothing
    <3> USE <2>4 DEF NvimRepliesNothing
    <3>1. TypeOK' BY DEF TypeOK
    <3>2. ClosedIsEmpty' /\ ReaderOrder' BY DEF ClosedIsEmpty, ReaderOrder
    <3> QED BY <3>1, <3>2, CallsUntouched
  <2> QED BY <2>1, <2>2, <2>3, <2>4 DEF Nvim
(* The calls of the client.                                                *)
<1>5. RpcInv /\ Client => RpcInv'
  <2> SUFFICES ASSUME RpcInv, Client PROVE RpcInv'
    OBVIOUS
  <2> USE DEF RpcInv
  <2>1. CASE AttachPipes
    <3>1. TypeOK'
      BY <2>1 DEF TypeOK, AttachPipes, callVars, nvimVars, histVars
    <3>2. ClosedIsEmpty' /\ ReaderOrder'
      BY <2>1 DEF TypeOK, AttachPipes, callVars, nvimVars, histVars, ClosedIsEmpty, ReaderOrder
    <3> QED BY <2>1, <3>1, <3>2, CallsUntouched DEF AttachPipes
  <2>2. CASE NotifyWriteFails
    <3>1. TypeOK'
      BY <2>2 DEF TypeOK, NotifyWriteFails, callVars, nvimVars, readerVars
    <3>2. ClosedIsEmpty' /\ ReaderOrder'
      BY <2>2 DEF TypeOK, NotifyWriteFails, nvimVars, readerVars, ClosedIsEmpty, ReaderOrder
    <3> QED BY <2>2, <3>1, <3>2, CallsUntouched DEF NotifyWriteFails
  <2>3. CASE OnNotification
    <3>1. TypeOK'
      BY <2>3 DEF TypeOK, OnNotification, callVars, nvimVars, readerVars, histVars
    <3>2. ClosedIsEmpty' /\ ReaderOrder'
      BY <2>3 DEF OnNotification, nvimVars, readerVars, histVars, ClosedIsEmpty, ReaderOrder
    <3> QED BY <2>3, <3>1, <3>2, CallsUntouched DEF OnNotification
  <2>4. ASSUME NEW c \in Callers, RequestRefused(c) PROVE RpcInv'
    <3> USE <2>4 DEF RequestRefused, actorVars, readerVars, nvimVars, histVars
    <3>1. TypeOK'
      BY DEF TypeOK, Outcomes
    <3>2. PendingIsWaiting' /\ WaitingIsPending' /\ ResumedOnce'
      BY DEF TypeOK, PendingIsWaiting, WaitingIsPending, ResumedOnce, Outcomes
    <3>3. ClosedIsEmpty' /\ ReaderOrder'
      BY DEF ClosedIsEmpty, ReaderOrder
    <3> QED BY <3>1, <3>2, <3>3
  <2>5. ASSUME NEW c \in Callers, RequestWriteFails(c) PROVE RpcInv'
    <3> USE <2>5 DEF RequestWriteFails, readerVars, nvimVars
    <3>0. caller' \in [Callers -> {"idle", "waiting"} \cup Outcomes] /\ nextMsgid' \in Nat
      BY DEF TypeOK, Outcomes
    <3>1. TypeOK'
      BY <3>0 DEF TypeOK
    <3>2. PendingIsWaiting' /\ WaitingIsPending' /\ ResumedOnce'
      BY DEF TypeOK, PendingIsWaiting, WaitingIsPending, ResumedOnce, Outcomes
    <3>3. ClosedIsEmpty' /\ ReaderOrder'
      BY DEF ClosedIsEmpty, ReaderOrder
    <3> QED BY <3>1, <3>2, <3>3
  <2>6. ASSUME NEW c \in Callers, Request(c) PROVE RpcInv'
    <3> USE <2>6 DEF Request, readerVars, histVars
    <3>1. nextMsgid \notin DOMAIN pending
      BY DEF TypeOK, PendingIsWaiting
    <3>2. /\ DOMAIN pending' = DOMAIN pending \cup {nextMsgid}
          /\ pending'[nextMsgid] = c
          /\ \A id \in DOMAIN pending : pending'[id] = pending[id]
      BY <3>1
    <3>3. \A id \in DOMAIN pending : pending[id] # c
      BY DEF PendingIsWaiting
    <3>4. TypeOK'
      BY <3>2 DEF TypeOK
    <3>5. PendingIsWaiting' /\ WaitingIsPending' /\ ResumedOnce'
      BY <3>1, <3>2, <3>3 DEF TypeOK, PendingIsWaiting, WaitingIsPending, ResumedOnce, Outcomes
    <3>6. ClosedIsEmpty' /\ ReaderOrder'
      BY DEF ClosedIsEmpty, ReaderOrder
    <3> QED BY <3>4, <3>5, <3>6
  <2>7. ASSUME NEW c \in Callers, CancelCall(c) PROVE RpcInv'
    <3> USE <2>7 DEF CancelCall, callVars, actorVars, readerVars, nvimVars, histVars
    <3>0. Cancellation(msgidOf[c]) \in Task
      BY DEF TypeOK, Task, Cancellation
    <3>1. TypeOK'
      BY <3>0 DEF TypeOK
    <3>2. ClosedIsEmpty' /\ ReaderOrder'
      BY DEF ClosedIsEmpty, ReaderOrder, Cancellation, Eof
    <3> QED BY <3>1, <3>2, CallsUntouched
  <2> QED BY <2>1, <2>2, <2>3, <2>4, <2>5, <2>6, <2>7 DEF Client
(* The tasks of the actor.                                                 *)
<1>6. RpcInv /\ RunTask => RpcInv'
  <2> SUFFICES ASSUME RpcInv, RunTask PROVE RpcInv'
    OBVIOUS
  <2> USE DEF RpcInv
  <2>1. ASSUME NEW t \in tasks, DeliverResponse(t) PROVE RpcInv'
    <3> USE <2>1 DEF DeliverResponse, readerVars, nvimVars, histVars
    <3>1. ClosedIsEmpty' /\ ReaderOrder'
      BY DEF ClosedIsEmpty, ReaderOrder, Eof, Resume
    <3>2. CASE t.id \in DOMAIN pending
      <4> DEFINE outcome == IF t.err THEN "remoteError" ELSE "result"
      <4>1. outcome \in Outcomes /\ Resume(t.id, outcome)
        BY <3>2 DEF Outcomes
      <4> HIDE DEF outcome
      <4>2. UNCHANGED <<msgidOf, nextMsgid>>
        OBVIOUS
      <4>3. /\ caller' \in [Callers -> {"idle", "waiting"} \cup Outcomes]
            /\ resumed' \in [Callers -> Nat]
            /\ DOMAIN pending' \subseteq Nat
            /\ \A i \in DOMAIN pending' : pending'[i] \in Callers
            /\ PendingIsWaiting' /\ WaitingIsPending' /\ ResumedOnce'
        BY <3>2, <4>1, <4>2, ResumeKeepsInv
      <4>4. TypeOK'
        BY <4>3 DEF TypeOK
      <4> QED BY <3>1, <4>3, <4>4
    <3>3. CASE t.id \notin DOMAIN pending
      <4>1. TypeOK'
        BY <3>3 DEF TypeOK
      <4> QED BY <3>1, <3>3, <4>1, CallsUntouched DEF callVars
    <3> QED BY <3>2, <3>3
  <2>2. ASSUME NEW t \in tasks, CancelPendingRequest(t) PROVE RpcInv'
    <3> USE <2>2 DEF CancelPendingRequest, readerVars, nvimVars, histVars
    <3>1. ClosedIsEmpty' /\ ReaderOrder'
      BY DEF ClosedIsEmpty, ReaderOrder, Eof, Resume
    <3>2. CASE t.id \in DOMAIN pending
      <4>1. "cancelled" \in Outcomes /\ Resume(t.id, "cancelled")
        BY <3>2 DEF Outcomes
      <4>2. UNCHANGED <<msgidOf, nextMsgid>>
        OBVIOUS
      <4>3. /\ caller' \in [Callers -> {"idle", "waiting"} \cup Outcomes]
            /\ resumed' \in [Callers -> Nat]
            /\ DOMAIN pending' \subseteq Nat
            /\ \A i \in DOMAIN pending' : pending'[i] \in Callers
            /\ PendingIsWaiting' /\ WaitingIsPending' /\ ResumedOnce'
        BY <3>2, <4>1, <4>2, ResumeKeepsInv
      <4>4. TypeOK'
        BY <4>3 DEF TypeOK
      <4> QED BY <3>1, <4>3, <4>4
    <3>3. CASE t.id \notin DOMAIN pending
      <4>1. TypeOK'
        BY <3>3 DEF TypeOK
      <4> QED BY <3>1, <3>3, <4>1, CallsUntouched DEF callVars
    <3> QED BY <3>2, <3>3
  <2>3. ASSUME NEW t \in tasks, DeliverNotification(t) PROVE RpcInv'
    <3> USE <2>3 DEF DeliverNotification, callVars, actorVars, readerVars, nvimVars
    <3>1. t.id \in Nat
      BY DEF TypeOK, Task
    <3>2. handled' \in Seq(Nat)
      BY <3>1 DEF TypeOK
    <3>3. TypeOK'
      BY <3>2 DEF TypeOK
    <3>4. ClosedIsEmpty' /\ ReaderOrder'
      BY DEF ClosedIsEmpty, ReaderOrder, Eof
    <3> QED BY <3>3, <3>4, CallsUntouched
  <2>4. CASE ReaderDidObserveEOF
    <3> USE <2>4 DEF ReaderDidObserveEOF, readerVars, nvimVars
    <3>1. ReaderOrder'
      BY DEF ReaderOrder, Eof
    <3>2. CASE stdinOpen
      <4> DEFINE waiting == {pending[id] : id \in DOMAIN pending}
      <4>1. /\ DOMAIN pending' = {}
            /\ caller' = [c \in Callers |-> IF c \in waiting THEN "closed" ELSE caller[c]]
            /\ resumed' = [c \in Callers |-> IF c \in waiting THEN resumed[c] + 1 ELSE resumed[c]]
        BY <3>2 DEF FailAllPending, NoEntries
      <4>2. \A c \in Callers : c \in waiting <=> caller[c] = "waiting"
        BY DEF PendingIsWaiting, WaitingIsPending
      <4> HIDE DEF waiting
      <4>3. \A c \in Callers : caller[c] = "waiting" => resumed[c] = 0
        BY DEF ResumedOnce, Outcomes
      <4>4. /\ caller' \in [Callers -> {"idle", "waiting"} \cup Outcomes]
            /\ resumed' \in [Callers -> Nat]
        BY <4>1 DEF TypeOK, Outcomes
      <4>5. TypeOK'
        BY <3>2, <4>1, <4>4 DEF TypeOK
      <4>6. PendingIsWaiting' /\ WaitingIsPending'
        BY <4>1, <4>2 DEF PendingIsWaiting, WaitingIsPending, TypeOK
      <4>7. ResumedOnce'
        BY <4>1, <4>2, <4>3 DEF ResumedOnce, Outcomes, TypeOK
      <4>8. ClosedIsEmpty'
        BY <3>2, <4>1 DEF ClosedIsEmpty
      <4> QED BY <3>1, <4>5, <4>6, <4>7, <4>8
    <3>3. CASE ~stdinOpen
      <4>1. TypeOK'
        BY <3>3 DEF TypeOK
      <4>2. ClosedIsEmpty'
        BY <3>3 DEF ClosedIsEmpty
      <4> QED BY <3>1, <3>3, <4>1, <4>2, CallsUntouched DEF callVars
    <3> QED BY <3>2, <3>3
  <2> QED BY <2>1, <2>2, <2>3, <2>4 DEF RunTask
(* The reader thread, the join and nvim: none of them touches a call.      *)
<1>7. RpcInv /\ ReaderThread => RpcInv'
  <2> SUFFICES ASSUME RpcInv, ReaderThread PROVE RpcInv'
    OBVIOUS
  <2> USE DEF RpcInv
  <2>1. CASE ReaderCheckStop
    <3> USE <2>1 DEF ReaderCheckStop, callVars, actorVars, nvimVars, histVars
    <3>1. TypeOK' BY DEF TypeOK
    <3>2. ClosedIsEmpty' /\ ReaderOrder' BY DEF ClosedIsEmpty, ReaderOrder
    <3> QED BY <3>1, <3>2, CallsUntouched
  <2>2. CASE ReaderReadChunk
    <3> USE <2>2 DEF ReaderReadChunk, callVars, actorVars, histVars
    <3>1. PICK n \in 1..Len(stdout) :
            /\ tasks' = tasks \cup {stdout[i] : i \in 1..n}
            /\ stdout' = SubSeq(stdout, n + 1, Len(stdout))
      OBVIOUS
    <3>2. \A i \in 1..n : stdout[i] \in Message
      BY DEF TypeOK
    <3>3. stdout' \in Seq(Message)
      BY <3>1 DEF TypeOK
    <3>4. Message \subseteq Task /\ Eof \notin Message
      BY DEF Message, Task, Eof
    <3>5. tasks' \subseteq Task /\ (Eof \in tasks' => Eof \in tasks)
      BY <3>1, <3>2, <3>4 DEF TypeOK
    <3>6. TypeOK' BY <3>3, <3>5 DEF TypeOK
    <3>7. ClosedIsEmpty' /\ ReaderOrder' BY <3>5 DEF ClosedIsEmpty, ReaderOrder
    <3> QED BY <3>6, <3>7, CallsUntouched
  <2>3. CASE ReaderFails
    <3> USE <2>3 DEF ReaderFails, callVars, actorVars, nvimVars, histVars
    <3>1. TypeOK' BY DEF TypeOK
    <3>2. ClosedIsEmpty' /\ ReaderOrder' BY DEF ClosedIsEmpty, ReaderOrder
    <3> QED BY <3>1, <3>2, CallsUntouched
  <2>4. CASE ReaderSeesEOF
    <3> USE <2>4 DEF ReaderSeesEOF, callVars, actorVars, nvimVars, histVars
    <3>1. TypeOK' BY DEF TypeOK
    <3>2. ClosedIsEmpty' /\ ReaderOrder' BY DEF ClosedIsEmpty, ReaderOrder
    <3> QED BY <3>1, <3>2, CallsUntouched
  <2>5. CASE ReaderLeaves
    <3> USE <2>5 DEF ReaderLeaves, callVars, actorVars, nvimVars, histVars
    <3>1. Eof \in Task BY DEF Eof, Task
    <3>2. TypeOK' BY <3>1 DEF TypeOK
    <3>3. ClosedIsEmpty' /\ ReaderOrder' BY DEF TypeOK, ClosedIsEmpty, ReaderOrder
    <3> QED BY <3>2, <3>3, CallsUntouched
  <2> QED BY <2>1, <2>2, <2>3, <2>4, <2>5 DEF ReaderThread
<1>3. RpcInv /\ Next => RpcInv'
  BY <1>5, <1>6, <1>7, <1>1, <1>2 DEF Next
<1>4. ASSUME RpcInv, UNCHANGED vars PROVE RpcInv'
  <2> USE <1>4 DEF RpcInv, vars, callVars, actorVars, readerVars, nvimVars, histVars
  <2>1. TypeOK' BY DEF TypeOK
  <2>2. ClosedIsEmpty' /\ ReaderOrder' BY DEF ClosedIsEmpty, ReaderOrder
  <2> QED BY <2>1, <2>2, CallsUntouched
<1> QED BY <1>0, <1>3, <1>4, PTL DEF Spec

(* Every variable of the client keeps its type.                            *)
THEOREM TypeCorrect == Spec => []TypeOK
<1>1. RpcInv => TypeOK BY DEF RpcInv
<1> QED BY RpcInvariant, <1>1, PTL

(* A suspended request() call is always registered, so that a response, a  *)
(* cancellation or the end of the stream can still resume it.              *)
THEOREM SuspendedCallsAreRegistered == Spec => []WaitingIsRegistered
<1>1. RpcInv => WaitingIsRegistered
  BY DEF RpcInv, TypeOK, PendingIsWaiting, WaitingIsPending, WaitingIsRegistered
<1> QED BY RpcInvariant, <1>1, PTL

(* No continuation is ever resumed twice.                                  *)
THEOREM NoDoubleResume == Spec => []ResumedOnce
<1>1. RpcInv => ResumedOnce BY DEF RpcInv
<1> QED BY RpcInvariant, <1>1, PTL

(* The end of the stream releases every suspended call, unless a write had *)
(* failed before it was noticed.                                           *)
THEOREM EndOfStreamReleases == Spec => []EofReleasesCallers
<1>1. RpcInv => EofReleasesCallers
  BY DEF RpcInv, TypeOK, WaitingIsPending, ClosedIsEmpty, EofReleasesCallers
<1> QED BY RpcInvariant, <1>1, PTL

-----------------------------------------------------------------------------
(* Answers.                                                                *)

(* A msgid is with nvim, or on its way from it, once at most: as a request *)
(* not read yet or as responses to it.  None was not allocated.            *)
AnsweredOnce ==
  /\ \A i \in DOMAIN stdin : /\ stdin[i] < nextMsgid
                            /\ \A j \in DOMAIN stdin : stdin[j] = stdin[i] => j = i
  /\ \A m \in Responses : m.id < nextMsgid /\ \A i \in DOMAIN stdin : stdin[i] # m.id

AnswerInv ==
  /\ AnsweredOnce
  /\ \A t \in tasks : t.kind = "cancel" => t.id < nextMsgid /\ t = Cancellation(t.id)
  /\ reader = "none" => ~stdinOpen

(* Msgids are numbers, wherever they are.                                  *)
LEMMA TypesOfIds ==
  ASSUME TypeOK
  PROVE  /\ nextMsgid \in Nat
         /\ \A i \in DOMAIN stdin : stdin[i] \in Nat
         /\ \A t \in tasks : t.id \in Nat
         /\ \A m \in Responses : m.id \in Nat
<1>1. stdin \in Seq(Nat) /\ nextMsgid \in Nat /\ tasks \subseteq Task /\ stdout \in Seq(Message)
  BY DEF TypeOK
<1>2. \A i \in DOMAIN stdout : stdout[i].id \in Nat
  <2>1. \A i \in DOMAIN stdout : stdout[i] \in Message
    BY <1>1
  <2> QED BY <2>1 DEF Message
<1> QED BY <1>1, <1>2 DEF Responses, Task

(* What a chunk completes is in a Task instead of the pipe.                *)
LEMMA ChunkKeepsResponses ==
  ASSUME TypeOK, NEW n \in 1..Len(stdout),
         tasks' = tasks \cup {stdout[i] : i \in 1..n}, stdout' = SubSeq(stdout, n + 1, Len(stdout))
  PROVE  Responses' = Responses
<1>1. PICK len \in Nat : len = Len(stdout) /\ n \in Nat /\ n <= len /\ stdout \in Seq(Message)
  BY DEF TypeOK
<1>2. DOMAIN stdout = 1..len /\ DOMAIN stdout' = 1..(len - n)
  BY <1>1
<1>3. \A i \in 1..(len - n) : stdout'[i] = stdout[i + n] /\ i + n \in 1..len
  BY <1>1
<1>4. \A i \in 1..len : i \in 1..n \/ (i - n \in 1..(len - n) /\ stdout'[i - n] = stdout[i])
  BY <1>1
<1>5. 1..n \subseteq 1..len
  BY <1>1
<1>6. {stdout[i] : i \in 1..len} = {stdout[i] : i \in 1..n} \cup {stdout'[i] : i \in 1..(len - n)}
  <2> DEFINE rest == {stdout'[i] : i \in 1..(len - n)}
  <2>1. \A i \in 1..n : stdout[i] \in {stdout[j] : j \in 1..len}
    BY <1>5, Zenon
  <2>2. \A i \in 1..(len - n) : stdout'[i] \in {stdout[j] : j \in 1..len}
    BY <1>3, Zenon
  <2>3. \A i \in 1..len : stdout[i] \in {stdout[j] : j \in 1..n} \/ stdout[i] \in rest
    BY <1>4, Zenon
  <2> QED BY <2>1, <2>2, <2>3, Zenon
<1> QED BY <1>2, <1>6, Zenon DEF Responses

(* nvim adds a response to the pipe, or something else.                    *)
LEMMA ReplyIsResponse ==
  ASSUME TypeOK, NEW m, m.kind = "response", tasks' = tasks, stdout' = Append(stdout, m)
  PROVE  Responses' = Responses \cup {m}
<1>1. PICK len \in Nat : len = Len(stdout) /\ stdout \in Seq(Message)
  BY DEF TypeOK
<1>2. /\ DOMAIN stdout = 1..len /\ DOMAIN stdout' = 1..(len + 1)
      /\ \A i \in 1..len : stdout'[i] = stdout[i]
      /\ stdout'[len + 1] = m
      /\ 1..(len + 1) = 1..len \cup {len + 1}
  BY <1>1
<1> QED BY <1>2 DEF Responses

LEMMA NoteIsNoResponse ==
  ASSUME TypeOK, NEW m, m.kind = "note", tasks' = tasks, stdout' = Append(stdout, m)
  PROVE  Responses' = Responses
<1>1. PICK len \in Nat : len = Len(stdout) /\ stdout \in Seq(Message)
  BY DEF TypeOK
<1>2. /\ DOMAIN stdout = 1..len /\ DOMAIN stdout' = 1..(len + 1)
      /\ \A i \in 1..len : stdout'[i] = stdout[i]
      /\ stdout'[len + 1] = m
      /\ 1..(len + 1) = 1..len \cup {len + 1}
  BY <1>1
<1> QED BY <1>2 DEF Responses

(* A step that adds no response, request or cancellation.                  *)
LEMMA NothingAnswered ==
  ASSUME AnswerInv, TypeOK, nextMsgid' \in Nat, nextMsgid <= nextMsgid',
         stdin' = stdin \/ stdin' = <<>> \/ (stdin # <<>> /\ stdin' = Tail(stdin)),
         Responses' \subseteq Responses,
         \A t \in tasks' \ tasks : t.kind # "cancel"
  PROVE  AnsweredOnce' /\ \A t \in tasks' : t.kind = "cancel" => t.id < nextMsgid' /\ t = Cancellation(t.id)
<1>1. \A n \in Nat : n < nextMsgid => n < nextMsgid'
  BY DEF TypeOK
<1>2. AnsweredOnce'
  <2>1. CASE stdin' = stdin \/ stdin' = <<>>
    BY <1>1, <2>1, TypesOfIds DEF AnswerInv, AnsweredOnce
  <2>2. CASE stdin # <<>> /\ stdin' = Tail(stdin)
    <3>1. /\ \A i \in DOMAIN stdin' : i + 1 \in DOMAIN stdin /\ stdin'[i] = stdin[i + 1]
          /\ \A i, j \in DOMAIN stdin' : i + 1 = j + 1 => i = j
      BY <2>2 DEF TypeOK
    <3> QED BY <1>1, <3>1, TypesOfIds DEF AnswerInv, AnsweredOnce
  <2> QED BY <2>1, <2>2
<1> QED BY <1>1, <1>2, TypesOfIds DEF AnswerInv

(* Every step keeps the account of the msgids.                             *)
LEMMA AnswerInvHolds == Spec => []AnswerInv
<1>1. Init => AnswerInv
  BY DEF Init, AnswerInv, AnsweredOnce, Responses
<1>2. ASSUME RpcInv, AnswerInv, [Next]_vars PROVE AnswerInv'
  <2> USE <1>2
  <2>1. /\ TypeOK /\ nextMsgid \in Nat /\ stdin \in Seq(Nat) /\ stdout \in Seq(Message)
        /\ tasks \subseteq Task /\ nextMsgid <= nextMsgid + 1 /\ nextMsgid <= nextMsgid
    BY DEF RpcInv, TypeOK
  <2>2. CASE AttachPipes \/ NotifyWriteFails \/ OnNotification \/ UNCHANGED vars
             \/ ReaderCheckStop \/ ReaderFails \/ ReaderSeesEOF \/ Shutdown
    <3>1. /\ nextMsgid' = nextMsgid /\ (stdin' = stdin \/ stdin' = <<>>) /\ tasks' = tasks /\ stdout' = stdout
          /\ reader' = "none" => ~stdinOpen'
      BY <2>2 DEF AttachPipes, NotifyWriteFails, OnNotification, vars, actorVars, callVars, readerVars,
                  nvimVars, histVars, ReaderCheckStop, ReaderFails, ReaderSeesEOF, Shutdown,
                  ShutdownReader, Teardown, ShutdownReturns, TeardownKills, TeardownCloses, AnswerInv
    <3>2. Responses' = Responses
      BY <3>1 DEF Responses
    <3> QED BY <2>1, <3>1, <3>2, NothingAnswered DEF AnswerInv
  <2>3. CASE RunTask
    <3>1. /\ nextMsgid' = nextMsgid /\ stdin' = stdin /\ tasks' \subseteq tasks /\ stdout' = stdout
          /\ reader' = reader /\ (stdinOpen' => stdinOpen)
      BY <2>3 DEF RunTask, DeliverResponse, DeliverNotification, CancelPendingRequest, ReaderDidObserveEOF,
                  readerVars, nvimVars, actorVars
    <3>2. Responses' \subseteq Responses
      BY <3>1 DEF Responses
    <3> QED BY <2>1, <3>1, <3>2, NothingAnswered DEF AnswerInv
  <2>4. CASE ReaderReadChunk
    <3>1. PICK n \in 1..Len(stdout) :
            /\ tasks' = tasks \cup {stdout[i] : i \in 1..n}
            /\ stdout' = SubSeq(stdout, n + 1, Len(stdout))
      BY <2>4 DEF ReaderReadChunk
    <3>2. /\ nextMsgid' = nextMsgid /\ stdin' = stdin /\ stdinOpen' = stdinOpen /\ reader' = "check"
      BY <2>4 DEF ReaderReadChunk, actorVars
    <3>3. \A i \in 1..n : stdout[i] \in Message
      BY <2>1
    <3>4. \A t \in tasks' \ tasks : t.kind # "cancel"
      BY <3>1, <3>3 DEF Message
    <3>5. Responses' \subseteq Responses
      BY <2>1, <3>1, ChunkKeepsResponses
    <3> QED BY <2>1, <3>2, <3>4, <3>5, NothingAnswered DEF AnswerInv
  <2>5. CASE ReaderLeaves
    <3>1. /\ nextMsgid' = nextMsgid /\ stdin' = stdin /\ tasks' = tasks \cup {Eof} /\ stdout' = stdout
          /\ reader' # "none"
      BY <2>5 DEF ReaderLeaves, actorVars, nvimVars
    <3>2. Responses' \subseteq Responses
      BY <3>1 DEF Responses, Eof
    <3> QED BY <2>1, <3>1, <3>2, NothingAnswered DEF AnswerInv, Eof
  <2>6. CASE NvimNotifies
    <3>1. /\ nextMsgid' = nextMsgid /\ stdin' = stdin /\ tasks' = tasks /\ reader' = reader
          /\ stdinOpen' = stdinOpen
      BY <2>6 DEF NvimNotifies, actorVars, readerVars
    <3>2. PICK note : stdout' = Append(stdout, note) /\ note.kind = "note"
      BY <2>6 DEF NvimNotifies
    <3>3. Responses' \subseteq Responses
      BY <2>1, <3>1, <3>2 DEF Responses
    <3> QED BY <2>1, <3>1, <3>3, NothingAnswered DEF AnswerInv
  <2>7. CASE NvimExits \/ NvimRepliesNothing
    <3>1. /\ nextMsgid' = nextMsgid /\ (stdin' = <<>> \/ (stdin # <<>> /\ stdin' = Tail(stdin)))
          /\ tasks' = tasks /\ stdout' = stdout
          /\ reader' = reader /\ stdinOpen' = stdinOpen
      BY <2>7 DEF NvimExits, NvimRepliesNothing, actorVars, readerVars
    <3>2. Responses' = Responses
      BY <3>1 DEF Responses
    <3> QED BY <2>1, <3>1, <3>2, NothingAnswered DEF AnswerInv
  <2>8. ASSUME NEW c \in Callers, RequestRefused(c) \/ RequestWriteFails(c) PROVE AnswerInv'
    <3>1. /\ nextMsgid' \in Nat /\ nextMsgid <= nextMsgid' /\ stdin' = stdin /\ tasks' = tasks
          /\ stdout' = stdout /\ reader' = reader /\ (stdinOpen' => stdinOpen)
      BY <2>1, <2>8 DEF RequestRefused, RequestWriteFails, actorVars, readerVars, nvimVars
    <3>2. Responses' = Responses
      BY <3>1 DEF Responses
    <3> QED BY <2>1, <3>1, <3>2, NothingAnswered DEF AnswerInv
  <2>9. ASSUME NEW c \in Callers, CancelCall(c) PROVE AnswerInv'
    <3>1. /\ nextMsgid' = nextMsgid /\ stdin' = stdin /\ tasks' = tasks \cup {Cancellation(msgidOf[c])}
          /\ stdout' = stdout /\ reader' = reader /\ stdinOpen' = stdinOpen
      BY <2>9 DEF CancelCall, actorVars, readerVars, nvimVars
    <3>2. msgidOf[c] < nextMsgid
      BY <2>9 DEF CancelCall, RpcInv, WaitingIsPending, PendingIsWaiting
    <3>3. Responses' = Responses
      BY <3>1 DEF Responses, Cancellation
    <3> QED BY <3>1, <3>2, <3>3 DEF AnswerInv, AnsweredOnce, Cancellation
  <2>10. ASSUME NEW c \in Callers, Request(c), ~NvimRunning PROVE AnswerInv'
    <3>1. /\ nextMsgid' \in Nat /\ nextMsgid <= nextMsgid' /\ stdin' = stdin /\ tasks' = tasks
          /\ stdout' = stdout /\ reader' = reader /\ stdinOpen' = stdinOpen
      BY <2>1, <2>10 DEF Request, readerVars
    <3>2. Responses' = Responses
      BY <3>1 DEF Responses
    <3> QED BY <2>1, <3>1, <3>2, NothingAnswered DEF AnswerInv
  <2>11. ASSUME NEW c \in Callers, Request(c), NvimRunning PROVE AnswerInv'
    <3>1. /\ nextMsgid' = nextMsgid + 1 /\ stdin' = Append(stdin, nextMsgid) /\ tasks' = tasks
          /\ stdout' = stdout /\ reader' = reader /\ stdinOpen' = stdinOpen
      BY <2>11 DEF Request, readerVars
    <3>2. Responses' = Responses
      BY <3>1 DEF Responses
    <3>3. /\ \A i \in DOMAIN stdin : stdin[i] \in Nat
          /\ \A m \in Responses : m.id \in Nat
          /\ \A t \in tasks : t.id \in Nat
      BY <2>1, TypesOfIds
    <3>4. /\ DOMAIN stdin' = DOMAIN stdin \cup {Len(stdin) + 1} /\ Len(stdin) + 1 \notin DOMAIN stdin
          /\ \A i \in DOMAIN stdin : stdin'[i] = stdin[i]
          /\ stdin'[Len(stdin) + 1] = nextMsgid
      BY <2>1, <3>1
    <3>5. AnsweredOnce'
      <4>1. \A n \in Nat : n < nextMsgid => n < nextMsgid + 1 /\ n # nextMsgid
        BY <2>1
      <4>2. nextMsgid < nextMsgid + 1
        BY <2>1
      <4>3. \A i \in DOMAIN stdin : stdin[i] < nextMsgid + 1 /\ stdin[i] # nextMsgid
        BY <3>3, <4>1 DEF AnswerInv, AnsweredOnce
      <4>4. \A m \in Responses : m.id < nextMsgid + 1 /\ m.id # nextMsgid
        BY <3>3, <4>1 DEF AnswerInv, AnsweredOnce
      <4>5. \A i \in DOMAIN stdin' : stdin'[i] < nextMsgid + 1
        BY <3>4, <4>2, <4>3
      <4>6. \A i, j \in DOMAIN stdin' : stdin'[j] = stdin'[i] => j = i
        BY <3>4, <4>3 DEF AnswerInv, AnsweredOnce
      <4>7. \A m \in Responses, i \in DOMAIN stdin' : stdin'[i] # m.id
        BY <3>4, <4>4 DEF AnswerInv, AnsweredOnce
      <4> QED BY <3>1, <3>2, <4>4, <4>5, <4>6, <4>7 DEF AnsweredOnce
    <3> QED BY <2>1, <3>1, <3>3, <3>5 DEF AnswerInv
  <2>12. CASE NvimReplies
    <3>1. PICK err \in BOOLEAN :
            stdout' = Append(stdout, [kind |-> "response", id |-> Head(stdin), err |-> err])
      BY <2>12 DEF NvimReplies
    <3>2. /\ stdin # <<>> /\ stdin' = Tail(stdin) /\ nextMsgid' = nextMsgid /\ tasks' = tasks
          /\ reader' = reader /\ stdinOpen' = stdinOpen
      BY <2>12 DEF NvimReplies, actorVars, readerVars
    <3>3. Responses' = Responses \cup {[kind |-> "response", id |-> Head(stdin), err |-> err]}
      BY <2>1, <3>1, <3>2, ReplyIsResponse
    <3>4. /\ Head(stdin) = stdin[1] /\ 1 \in DOMAIN stdin
          /\ \A i \in DOMAIN stdin' : i + 1 \in DOMAIN stdin /\ i + 1 # 1 /\ stdin'[i] = stdin[i + 1]
          /\ \A i, j \in DOMAIN stdin' : i + 1 = j + 1 => i = j
      BY <2>1, <3>2
    <3>5. AnsweredOnce'
      BY <3>2, <3>3, <3>4 DEF AnswerInv, AnsweredOnce
    <3> QED BY <3>2, <3>5 DEF AnswerInv
  <2> QED
    BY <2>2, <2>3, <2>4, <2>5, <2>6, <2>7, <2>8, <2>9, <2>10, <2>11, <2>12
       DEF Next, Client, ReaderThread, Nvim
<1> QED BY <1>1, <1>2, RpcInvariant, PTL DEF Spec

(* What is due to a suspended call is changed by what bears its msgid.     *)
LEMMA SameDue ==
  ASSUME NEW c \in Callers, msgidOf'[c] = msgidOf[c],
         \A m : m.id = msgidOf[c] => (m \in Responses' <=> m \in Responses),
         Cancellation(msgidOf[c]) \in tasks' <=> Cancellation(msgidOf[c]) \in tasks
  PROVE  AnswersTo(c)' = AnswersTo(c) /\ Cancelled(c)' = Cancelled(c)
<1>1. {n \in Responses' : n.id = msgidOf[c]} = {n \in Responses : n.id = msgidOf[c]}
  OBVIOUS
<1>2. AnswersTo(c)' = AnswersTo(c)
  BY <1>1 DEF AnswersTo
<1> QED BY <1>2 DEF Cancelled

(* A step that changes neither the calls nor what is due to them.          *)
LEMMA Unnoticed ==
  ASSUME UNCHANGED callVars, Connection' = Connection,
         \A c \in Callers : caller[c] = "waiting"
           => AnswersTo(c)' = AnswersTo(c) /\ Cancelled(c)' = Cancelled(c)
  PROVE  UNCHANGED Promise!vars
<1>1. caller' = caller /\ resumed' = resumed
  BY DEF callVars
<1>2. Calls' = Calls
  BY <1>1 DEF Calls
<1>3. Due' = Due
  BY <1>1 DEF Due
<1> QED BY <1>1, <1>2, <1>3 DEF Promise!vars

(* The same for a step that moves no response and no cancellation.         *)
LEMMA NoNews ==
  ASSUME UNCHANGED callVars, Connection' = Connection, Responses' = Responses,
         \A id : Cancellation(id) \in tasks' <=> Cancellation(id) \in tasks
  PROVE  UNCHANGED Promise!vars
<1>1. msgidOf' = msgidOf
  BY DEF callVars
<1>2. \A c \in Callers : AnswersTo(c)' = AnswersTo(c) /\ Cancelled(c)' = Cancelled(c)
  BY <1>1, SameDue
<1> QED BY <1>2, Unnoticed

(* No two suspended calls have the same msgid.                             *)
LEMMA OwnMsgid ==
  ASSUME RpcInv, NEW c \in Callers, NEW d \in Callers, caller[c] = "waiting", caller[d] = "waiting",
         msgidOf[c] = msgidOf[d]
  PROVE  c = d
BY DEF RpcInv, WaitingIsPending

(* A Task for a msgid that nobody waits for any more.                      *)
LEMMA OthersDue ==
  ASSUME RpcInv, NEW t \in tasks, t.id \notin DOMAIN pending, tasks' = tasks \ {t},
         UNCHANGED <<msgidOf, stdout>>, NEW c \in Callers, caller[c] = "waiting"
  PROVE  AnswersTo(c)' = AnswersTo(c) /\ Cancelled(c)' = Cancelled(c)
<1>1. msgidOf[c] # t.id
  BY DEF RpcInv, WaitingIsPending
<1>2. \A m : m.id = msgidOf[c] => (m \in Responses' <=> m \in Responses)
  BY <1>1 DEF Responses
<1>3. Cancellation(msgidOf[c]) # t
  BY <1>1 DEF Cancellation
<1> QED BY <1>2, <1>3, SameDue

(* A Task for a msgid that is waited for returns its call, and no other.   *)
LEMMA ReturnStep ==
  ASSUME RpcInv, NEW t \in tasks, t.id \in DOMAIN pending, NEW outcome \in Outcomes, Resume(t.id, outcome),
         \/ t.kind = "response" /\ outcome = (IF t.err THEN "remoteError" ELSE "result")
         \/ t = Cancellation(t.id) /\ outcome = "cancelled",
         tasks' = tasks \ {t}, UNCHANGED <<msgidOf, stdout, reader, stdinOpen>>
  PROVE  Promise!Return(pending[t.id])
<1> DEFINE c == pending[t.id]
<1>1. c \in Callers /\ caller[c] = "waiting" /\ msgidOf[c] = t.id
  BY DEF RpcInv, TypeOK, PendingIsWaiting
<1>2. outcome \in Due[c]
  <2>1. CASE t.kind = "response" /\ outcome = (IF t.err THEN "remoteError" ELSE "result")
    <3>1. t \in Responses
      BY <2>1 DEF Responses
    <3> QED BY <1>1, <2>1, <3>1 DEF Due, AnswersTo
  <2>2. CASE t = Cancellation(t.id) /\ outcome = "cancelled"
    BY <1>1, <2>2 DEF Due, Cancelled
  <2> QED BY <2>1, <2>2
<1>3. /\ caller \in [Callers -> {"idle", "waiting"} \cup Outcomes] /\ resumed \in [Callers -> Nat]
      /\ caller' = [caller EXCEPT ![c] = outcome] /\ resumed' = [resumed EXCEPT ![c] = @ + 1]
  BY DEF RpcInv, TypeOK, Resume
<1>4. outcome # "waiting"
  BY DEF Outcomes
<1>5. Calls[c] = "asked" /\ Calls' = [d \in Callers |-> IF d \in {c} THEN outcome ELSE Calls[d]]
  BY <1>1, <1>3, <1>4 DEF Calls
<1>6. resumed' = [d \in Callers |-> IF d \in {c} THEN resumed[d] + 1 ELSE resumed[d]]
  BY <1>1, <1>3
<1>7. Due' = [d \in Callers |-> IF d \in {c} THEN {} ELSE Due[d]]
  <2>1. ASSUME NEW d \in Callers, d # c, caller[d] = "waiting"
        PROVE  AnswersTo(d)' = AnswersTo(d) /\ Cancelled(d)' = Cancelled(d)
    <3>1. msgidOf[d] # t.id
      BY <1>1, <2>1, OwnMsgid
    <3>2. \A m : m.id = msgidOf[d] => (m \in Responses' <=> m \in Responses)
      BY <3>1 DEF Responses
    <3>3. Cancellation(msgidOf[d]).id = msgidOf[d]
      BY DEF Cancellation
    <3>4. Cancellation(msgidOf[d]) \in tasks' <=> Cancellation(msgidOf[d]) \in tasks
      BY <3>1, <3>3
    <3> QED BY <3>2, <3>4, SameDue
  <2>2. \A d \in Callers : caller'[d] = IF d = c THEN outcome ELSE caller[d]
    BY <1>1, <1>3
  <2> QED BY <1>4, <2>1, <2>2 DEF Due
<1>8. Connection' = Connection
  BY DEF Connection
<1> QED BY <1>2, <1>5, <1>6, <1>7, <1>8 DEF Promise!Return, Promise!Finish

(* RpcPromise, step by step: sending a request asks, nvim's reply answers  *)
(* the one call that has this msgid and still waits, a Task the actor runs *)
(* returns that answer or the cancellation to this call and no other, the  *)
(* end of the stream returns all calls or, after a failed write, none; the *)
(* reader, the join and the notifications are nothing a call could notice. *)
THEOREM CallsGetWhatIsTheirs == Spec => KeepsPromise
<1>1. Init => Promise!Init
  BY DEF Init, Promise!Init, Connection, Calls, Due
<1>2. RpcInv /\ AnswerInv /\ [Next]_vars => [Promise!Next]_(Promise!vars)
  <2> SUFFICES ASSUME RpcInv, AnswerInv, [Next]_vars PROVE [Promise!Next]_(Promise!vars)
    OBVIOUS
  <2>1. /\ TypeOK /\ stdin \in Seq(Nat) /\ stdout \in Seq(Message) /\ tasks \subseteq Task
        /\ caller \in [Callers -> {"idle", "waiting"} \cup Outcomes] /\ msgidOf \in [Callers -> Nat]
        /\ resumed \in [Callers -> Nat]
    BY DEF RpcInv, TypeOK
  <2>2. CASE AttachPipes
    <3>1. Connection = "new" /\ Connection' = "open"
      BY <2>2 DEF AttachPipes, Connection
    <3>2. Calls' = Calls /\ resumed' = resumed /\ Due' = Due
      BY <2>2 DEF AttachPipes, callVars, nvimVars, Calls, Due, AnswersTo, Cancelled, Responses
    <3> QED BY <3>1, <3>2 DEF Promise!Connect, Promise!Next
  <2>3. CASE OnNotification \/ UNCHANGED vars \/ ReaderCheckStop \/ ReaderFails \/ ReaderSeesEOF
             \/ Shutdown \/ NvimExits \/ NvimRepliesNothing
    <3>1. /\ UNCHANGED callVars /\ stdinOpen' = stdinOpen /\ tasks' = tasks /\ stdout' = stdout
          /\ reader' = "none" <=> reader = "none"
      BY <2>3 DEF OnNotification, vars, actorVars, callVars, readerVars, nvimVars, histVars,
                  ReaderCheckStop, ReaderFails, ReaderSeesEOF, Shutdown, ShutdownReader,
                  Teardown, ShutdownReturns, TeardownKills, TeardownCloses,
                  NvimExits, NvimRepliesNothing
    <3>2. Responses' = Responses /\ Connection' = Connection
      BY <3>1 DEF Responses, Connection
    <3> QED BY <3>1, <3>2, NoNews
  <2>4. CASE NotifyWriteFails
    <3>1. Connection = "open" /\ Connection' = "closed"
      BY <2>4 DEF NotifyWriteFails, Connection, readerVars, AnswerInv
    <3>2. Calls' = Calls /\ resumed' = resumed /\ Due' = Due
      BY <2>4 DEF NotifyWriteFails, callVars, nvimVars, Calls, Due, AnswersTo, Cancelled, Responses
    <3> QED BY <3>1, <3>2 DEF Promise!Disconnect, Promise!Next
  <2>5. ASSUME NEW c \in Callers, RequestRefused(c) \/ RequestWriteFails(c) PROVE Promise!Refuse(c)
    <3>1. /\ caller[c] = "idle" /\ caller' = [caller EXCEPT ![c] = "closed"]
          /\ UNCHANGED <<msgidOf, resumed, tasks, stdout, reader>>
          /\ IF stdinOpen THEN ~stdinOpen' ELSE ~stdinOpen'
      BY <2>5 DEF RequestRefused, RequestWriteFails, actorVars, nvimVars, readerVars
    <3>2. Connection' = IF Connection = "open" THEN "closed" ELSE Connection
      BY <3>1 DEF Connection, AnswerInv
    <3>3. Calls[c] = "idle" /\ Calls' = [Calls EXCEPT ![c] = "closed"]
      BY <2>1, <3>1 DEF Calls
    <3>4. Due' = Due
      <4>1. \A d \in Callers : caller'[d] = "waiting" <=> caller[d] = "waiting"
        BY <2>1, <3>1
      <4>2. \A d \in Callers : AnswersTo(d)' = AnswersTo(d) /\ Cancelled(d)' = Cancelled(d)
        BY <3>1 DEF AnswersTo, Cancelled, Responses
      <4> QED BY <4>1, <4>2 DEF Due
    <3> QED BY <3>1, <3>2, <3>3, <3>4 DEF Promise!Refuse
  <2>6. ASSUME NEW c \in Callers, Request(c) PROVE Promise!Ask(c)
    <3>1. /\ caller[c] = "idle" /\ caller' = [caller EXCEPT ![c] = "waiting"] /\ stdinOpen
          /\ msgidOf' = [msgidOf EXCEPT ![c] = nextMsgid]
          /\ UNCHANGED <<resumed, tasks, stdout, reader, stdinOpen>>
      BY <2>6 DEF Request, readerVars
    <3>2. Connection = "open" /\ Connection' = Connection
      BY <3>1 DEF Connection, AnswerInv
    <3>3. Calls[c] = "idle" /\ Calls' = [Calls EXCEPT ![c] = "asked"]
      BY <2>1, <3>1 DEF Calls
    <3>4. Responses' = Responses /\ ~(nextMsgid < nextMsgid)
      BY <2>1, <3>1, TypesOfIds DEF Responses
    <3>5. AnswersTo(c)' = {} /\ Cancelled(c)' = {}
      <4>1. msgidOf'[c] = nextMsgid
        BY <2>1, <3>1
      <4>2. \A m \in Responses : m.id # nextMsgid
        BY <3>4 DEF AnswerInv, AnsweredOnce
      <4>3. Cancellation(nextMsgid) \notin tasks
        BY <3>4 DEF AnswerInv, Cancellation
      <4> QED BY <3>1, <3>4, <4>1, <4>2, <4>3 DEF AnswersTo, Cancelled
    <3>6. ASSUME NEW d \in Callers, d # c
          PROVE  caller'[d] = caller[d] /\ AnswersTo(d)' = AnswersTo(d) /\ Cancelled(d)' = Cancelled(d)
      <4>1. caller'[d] = caller[d] /\ msgidOf'[d] = msgidOf[d]
        BY <2>1, <3>1, <3>6
      <4> QED BY <3>1, <3>4, <4>1, SameDue
    <3>7. Due' = Due
      BY <3>1, <3>5, <3>6 DEF Due
    <3> QED BY <3>1, <3>2, <3>3, <3>7 DEF Promise!Ask
  <2>7. ASSUME NEW c \in Callers, CancelCall(c) PROVE Promise!Cancel(c)
    <3>1. /\ caller[c] = "waiting" /\ tasks' = tasks \cup {Cancellation(msgidOf[c])}
          /\ UNCHANGED <<caller, msgidOf, resumed, stdout, reader, stdinOpen>>
      BY <2>7 DEF CancelCall, callVars, actorVars, readerVars, nvimVars
    <3>2. Responses' = Responses /\ Connection' = Connection /\ Calls' = Calls /\ Calls[c] = "asked"
      BY <3>1 DEF Responses, Connection, Calls, Cancellation
    <3>3. AnswersTo(c)' = AnswersTo(c) /\ Cancelled(c)' = Cancelled(c) \cup {"cancelled"}
      BY <3>1, <3>2 DEF AnswersTo, Cancelled
    <3>4. ASSUME NEW d \in Callers, d # c, caller[d] = "waiting"
          PROVE  AnswersTo(d)' = AnswersTo(d) /\ Cancelled(d)' = Cancelled(d)
      <4>1. msgidOf[d] # msgidOf[c]
        BY <3>1, <3>4, OwnMsgid
      <4>2. Cancellation(msgidOf[d]) # Cancellation(msgidOf[c])
        BY <4>1 DEF Cancellation
      <4> QED BY <3>1, <3>2, <4>2, SameDue
    <3>5. Due' = [Due EXCEPT ![c] = @ \cup {"cancelled"}]
      BY <3>1, <3>3, <3>4 DEF Due
    <3> QED BY <3>1, <3>2, <3>5 DEF Promise!Cancel
  <2>8. ASSUME NEW t \in tasks, DeliverResponse(t) PROVE [Promise!Next]_(Promise!vars)
    <3>1. t.kind = "response" /\ tasks' = tasks \ {t} /\ UNCHANGED <<msgidOf, stdout, reader, stdinOpen>>
      BY <2>8 DEF DeliverResponse, readerVars, nvimVars
    <3>2. CASE t.id \in DOMAIN pending
      <4>1. Promise!Return(pending[t.id])
        BY <2>8, <3>1, <3>2, ReturnStep DEF DeliverResponse, Outcomes
      <4> QED BY <3>2, <4>1 DEF Promise!Next, RpcInv, TypeOK
    <3>3. CASE t.id \notin DOMAIN pending
      <4>1. UNCHANGED callVars /\ Connection' = Connection
        BY <2>8, <3>1, <3>3 DEF DeliverResponse, callVars, Connection
      <4>2. ASSUME NEW c \in Callers, caller[c] = "waiting"
            PROVE  AnswersTo(c)' = AnswersTo(c) /\ Cancelled(c)' = Cancelled(c)
        BY <3>1, <3>3, <4>2, OthersDue
      <4> QED BY <4>1, <4>2, Unnoticed
    <3> QED BY <3>2, <3>3
  <2>9. ASSUME NEW t \in tasks, CancelPendingRequest(t) PROVE [Promise!Next]_(Promise!vars)
    <3>1. t.kind = "cancel" /\ tasks' = tasks \ {t} /\ UNCHANGED <<msgidOf, stdout, reader, stdinOpen>>
      BY <2>9 DEF CancelPendingRequest, readerVars, nvimVars
    <3>2. CASE t.id \in DOMAIN pending
      <4>1. t = Cancellation(t.id)
        BY <3>1 DEF AnswerInv
      <4>2. Promise!Return(pending[t.id])
        BY <2>9, <3>1, <3>2, <4>1, ReturnStep DEF CancelPendingRequest, Outcomes
      <4> QED BY <3>2, <4>2 DEF Promise!Next, RpcInv, TypeOK
    <3>3. CASE t.id \notin DOMAIN pending
      <4>1. UNCHANGED callVars /\ Connection' = Connection
        BY <2>9, <3>1, <3>3 DEF CancelPendingRequest, callVars, Connection
      <4>2. ASSUME NEW c \in Callers, caller[c] = "waiting"
            PROVE  AnswersTo(c)' = AnswersTo(c) /\ Cancelled(c)' = Cancelled(c)
        BY <3>1, <3>3, <4>2, OthersDue
      <4> QED BY <4>1, <4>2, Unnoticed
    <3> QED BY <3>2, <3>3
  <2>10. ASSUME NEW t \in tasks, DeliverNotification(t) PROVE UNCHANGED Promise!vars
    <3>1. /\ t.kind = "note" /\ tasks' = tasks \ {t} /\ UNCHANGED callVars
          /\ UNCHANGED <<stdout, reader, stdinOpen>>
      BY <2>10 DEF DeliverNotification, readerVars, nvimVars, actorVars
    <3>2. Responses' = Responses /\ Connection' = Connection
      BY <3>1 DEF Responses, Connection
    <3>3. \A id : Cancellation(id) # t
      BY <3>1 DEF Cancellation
    <3> QED BY <3>1, <3>2, <3>3, NoNews
  <2>11. CASE ReaderDidObserveEOF
    <3>1. Eof \in tasks /\ tasks' = tasks \ {Eof} /\ UNCHANGED <<msgidOf, stdout, reader>>
      BY <2>11 DEF ReaderDidObserveEOF, readerVars, nvimVars
    <3>2. Responses' = Responses /\ \A id : Cancellation(id) # Eof
      BY <3>1 DEF Responses, Eof, Cancellation
    <3>3. CASE ~stdinOpen
      <4>1. UNCHANGED callVars /\ Connection' = Connection
        BY <2>11, <3>1, <3>3 DEF ReaderDidObserveEOF, callVars, Connection
      <4> QED BY <3>1, <3>2, <4>1, NoNews
    <3>4. CASE stdinOpen
      <4>1. Connection = "open" /\ Connection' = "closed"
        BY <2>11, <3>1, <3>4 DEF ReaderDidObserveEOF, Connection, AnswerInv
      <4>2. FailAllPending
        BY <2>11, <3>4 DEF ReaderDidObserveEOF
      <4>3. \A c \in Callers : c \in {pending[id] : id \in DOMAIN pending} <=> caller[c] = "waiting"
        BY DEF RpcInv, PendingIsWaiting, WaitingIsPending
      <4>4. /\ caller' = [c \in Callers |-> IF caller[c] = "waiting" THEN "closed" ELSE caller[c]]
            /\ resumed' = [c \in Callers |-> IF caller[c] = "waiting" THEN resumed[c] + 1 ELSE resumed[c]]
        BY <4>2, <4>3 DEF FailAllPending
      <4> DEFINE asked == {c \in Callers : Calls[c] = "asked"}
      <4>5. \A c \in Callers : c \in asked <=> caller[c] = "waiting"
        BY <2>1 DEF Calls, Outcomes
      <4>6. Calls' = [c \in Callers |-> IF c \in asked THEN "closed" ELSE Calls[c]]
        BY <4>4, <4>5 DEF Calls
      <4>7. resumed' = [c \in Callers |-> IF c \in asked THEN resumed[c] + 1 ELSE resumed[c]]
        BY <4>4, <4>5
      <4>8. Due' = [c \in Callers |-> IF c \in asked THEN {} ELSE Due[c]]
        BY <4>4, <4>5 DEF Due
      <4> QED BY <4>1, <4>6, <4>7, <4>8 DEF Promise!Finish, Promise!Disconnect, Promise!Next
    <3> QED BY <3>3, <3>4
  <2>12. CASE ReaderReadChunk
    <3>1. PICK n \in 1..Len(stdout) :
            /\ tasks' = tasks \cup {stdout[i] : i \in 1..n}
            /\ stdout' = SubSeq(stdout, n + 1, Len(stdout))
      BY <2>12 DEF ReaderReadChunk
    <3>2. UNCHANGED callVars /\ Connection' = Connection
      BY <2>12 DEF ReaderReadChunk, actorVars, Connection
    <3>3. \A i \in 1..n : stdout[i].kind # "cancel"
      <4>1. \A i \in 1..n : stdout[i] \in Message
        BY <2>1
      <4> QED BY <4>1 DEF Message
    <3>4. \A id : Cancellation(id) \in tasks' <=> Cancellation(id) \in tasks
      BY <3>1, <3>3 DEF Cancellation
    <3> QED BY <2>1, <3>1, <3>2, <3>4, ChunkKeepsResponses, NoNews
  <2>13. CASE ReaderLeaves
    <3>1. /\ UNCHANGED callVars /\ tasks' = tasks \cup {Eof} /\ stdout' = stdout
          /\ Connection' = Connection
      BY <2>13 DEF ReaderLeaves, actorVars, nvimVars, Connection
    <3>2. Responses' = Responses /\ \A id : Cancellation(id) # Eof
      BY <3>1 DEF Responses, Eof, Cancellation
    <3> QED BY <3>1, <3>2, NoNews
  <2>14. CASE NvimNotifies
    <3>1. UNCHANGED callVars /\ tasks' = tasks /\ Connection' = Connection
      BY <2>14 DEF NvimNotifies, actorVars, readerVars, Connection
    <3>2. PICK note : stdout' = Append(stdout, note) /\ note.kind = "note"
      BY <2>14 DEF NvimNotifies
    <3>3. Responses' = Responses
      BY <2>1, <3>1, <3>2, NoteIsNoResponse
    <3> QED BY <3>1, <3>3, NoNews
  <2>15. CASE NvimReplies
    <3>1. PICK err \in BOOLEAN :
            stdout' = Append(stdout, [kind |-> "response", id |-> Head(stdin), err |-> err])
      BY <2>15 DEF NvimReplies
    <3> DEFINE reply == [kind |-> "response", id |-> Head(stdin), err |-> err]
               answer == IF err THEN "remoteError" ELSE "result"
    <3>2. /\ UNCHANGED callVars /\ tasks' = tasks /\ Connection' = Connection
          /\ 1 \in DOMAIN stdin /\ Head(stdin) = stdin[1]
      BY <2>1, <2>15 DEF NvimReplies, actorVars, readerVars, Connection
    <3>3. reply.kind = "response" /\ reply.id = stdin[1] /\ reply.err = err
      BY <3>2
    <3>4. Responses' = Responses \cup {reply}
      <4> HIDE DEF reply
      <4> QED BY <2>1, <3>1, <3>2, <3>3, ReplyIsResponse DEF reply
    <3>5. ASSUME NEW d \in Callers, msgidOf[d] # stdin[1]
          PROVE  AnswersTo(d)' = AnswersTo(d) /\ Cancelled(d)' = Cancelled(d)
      <4> HIDE DEF reply
      <4>1. \A m : m.id = msgidOf[d] => (m \in Responses' <=> m \in Responses)
        BY <3>3, <3>4, <3>5
      <4> QED BY <3>2, <4>1, SameDue DEF callVars
    <3>6. CASE \E c \in Callers : caller[c] = "waiting" /\ msgidOf[c] = stdin[1]
      <4>1. PICK c \in Callers : caller[c] = "waiting" /\ msgidOf[c] = stdin[1]
        BY <3>6
      <4>2. AnswersTo(c) = {}
        BY <3>2, <4>1 DEF AnswersTo, AnswerInv, AnsweredOnce
      <4>3. AnswersTo(c)' = {answer} /\ Cancelled(c)' = Cancelled(c)
        <5> HIDE DEF reply
        <5>1. \A m \in Responses : m.id # stdin[1]
          BY <3>2 DEF AnswerInv, AnsweredOnce
        <5>2. {m \in Responses' : m.id = msgidOf'[c]} = {reply}
          BY <3>2, <3>3, <3>4, <4>1, <5>1 DEF callVars
        <5> QED BY <3>2, <3>3, <5>2 DEF AnswersTo, Cancelled, callVars
      <4>4. Calls' = Calls /\ resumed' = resumed /\ Calls[c] = "asked"
        BY <3>2, <4>1 DEF Calls, callVars
      <4>5. /\ Due[c] = Cancelled(c) /\ "result" \notin Due[c] /\ "remoteError" \notin Due[c]
        BY <4>1, <4>2 DEF Due, Cancelled
      <4>6. Due' = [Due EXCEPT ![c] = @ \cup {answer}]
        <5>1. \A d \in Callers : d # c /\ caller[d] = "waiting" => msgidOf[d] # stdin[1]
          BY <4>1, OwnMsgid
        <5> HIDE DEF answer
        <5>2. caller' = caller
          BY <3>2 DEF callVars
        <5>3. \A d \in Callers : Due'[d] = IF d = c THEN Due[d] \cup {answer} ELSE Due[d]
          BY <3>5, <4>1, <4>2, <4>3, <5>1, <5>2 DEF Due
        <5> QED BY <5>3 DEF Due
      <4> QED BY <3>2, <4>4, <4>5, <4>6 DEF Promise!Answer, Promise!Answers, Promise!Next
    <3>7. CASE ~\E c \in Callers : caller[c] = "waiting" /\ msgidOf[c] = stdin[1]
      BY <3>2, <3>5, <3>7, Unnoticed
    <3> QED BY <3>6, <3>7
  <2> QED
    BY <2>2, <2>3, <2>4, <2>5, <2>6, <2>7, <2>8, <2>9, <2>10, <2>11, <2>12, <2>13, <2>14, <2>15
       DEF Next, Client, RunTask, ReaderThread, Nvim, Promise!Next
<1> QED BY <1>1, <1>2, RpcInvariant, AnswerInvHolds, PTL DEF Spec, KeepsPromise, Promise!Spec
====
