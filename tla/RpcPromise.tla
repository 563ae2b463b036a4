------------------------------ MODULE RpcPromise ------------------------------
(***************************************************************************)
(* What the msgpack-RPC client promises whoever calls request(): the call  *)
(* returns once at most, and what it returns is what became of this call:  *)
(* the one answer nvim has given to it, its own cancellation, or that the  *)
(* connection has ended, which ends all suspended calls or, when it is a   *)
(* write that has failed, none but the one that wrote.                     *)
(***************************************************************************)
EXTENDS Naturals

CONSTANT Callers

VARIABLES
  connection, \* "new", "open" or "closed"
  call,       \* each call: "idle", "asked", or what it has returned
  resumed,    \* how often its continuation was resumed
  due         \* what is on its way to it: nvim's answer, its cancellation

vars == <<connection, call, resumed, due>>

Answers == {"result", "remoteError"}

Init ==
  /\ connection = "new"
  /\ call = [c \in Callers |-> "idle"]
  /\ resumed = [c \in Callers |-> 0]
  /\ due = [c \in Callers |-> {}]

Connect ==
  /\ connection = "new" /\ connection' = "open"
  /\ UNCHANGED <<call, resumed, due>>

Ask(c) ==
  /\ call[c] = "idle" /\ connection = "open"
  /\ call' = [call EXCEPT ![c] = "asked"]
  /\ UNCHANGED <<connection, resumed, due>>

(* The call throws before it is suspended.                                 *)
Refuse(c) ==
  /\ call[c] = "idle"
  /\ connection' = IF connection = "open" THEN "closed" ELSE connection
  /\ call' = [call EXCEPT ![c] = "closed"]
  /\ UNCHANGED <<resumed, due>>

Answer(c) ==
  /\ call[c] = "asked" /\ due[c] \cap Answers = {}
  /\ \E answer \in Answers : due' = [due EXCEPT ![c] = @ \cup {answer}]
  /\ UNCHANGED <<connection, call, resumed>>

Cancel(c) ==
  /\ call[c] = "asked"
  /\ due' = [due EXCEPT ![c] = @ \cup {"cancelled"}]
  /\ UNCHANGED <<connection, call, resumed>>

Finish(calls, outcome) ==
  /\ call' = [c \in Callers |-> IF c \in calls THEN outcome ELSE call[c]]
  /\ resumed' = [c \in Callers |-> IF c \in calls THEN resumed[c] + 1 ELSE resumed[c]]
  /\ due' = [c \in Callers |-> IF c \in calls THEN {} ELSE due[c]]

Return(c) ==
  /\ call[c] = "asked"
  /\ \E outcome \in due[c] : Finish({c}, outcome)
  /\ UNCHANGED connection

Disconnect ==
  /\ connection = "open" /\ connection' = "closed"
  /\ \/ Finish({c \in Callers : call[c] = "asked"}, "closed")
     \/ UNCHANGED <<call, resumed, due>>

Next ==
  \/ Connect \/ Disconnect
  \/ \E c \in Callers : Ask(c) \/ Refuse(c) \/ Answer(c) \/ Cancel(c) \/ Return(c)

Spec == Init /\ [][Next]_vars
=============================================================================
