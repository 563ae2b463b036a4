------------------------- MODULE TerminalInput_proofs -------------------------
(***************************************************************************)
(* The event pump's thread.                                                *)
(*                                                                         *)
(* No event is lost, repeated or overtaken between the tty and the event   *)
(* pump, proved for any bytes, any size of the buffer and any number of    *)
(* bytes and changes of size: first what Visible and the parser compute,   *)
(* by induction over the sequence; then the invariant, that while poll     *)
(* looks for an event there is none in the queue, and the source asks the  *)
(* tty only when the parser has nothing left, so that what is found last   *)
(* is behind all the rest.                                                 *)
(*                                                                         *)
(* And the thread is out of the way while an editor has the terminal,      *)
(* proved for any number of editors, keys and spurious wake-ups.           *)
(***************************************************************************)
EXTENDS TerminalInput, EventPump, SequenceTheorems, WellFoundedInduction, TLAPS

(* Induction, for a set of numbers.                                        *)
LEMMA NatSetInduction ==
  ASSUME NEW S, 0 \in S, \A n \in Nat : n \in S => n + 1 \in S
  PROVE  Nat \subseteq S
<1> DEFINE T == Nat \ S  R == {ss \in Nat \X Nat : ss[1] < ss[2]}
<1>1. SUFFICES ASSUME T # {} PROVE FALSE
  OBVIOUS
<1>2. IsWellFoundedOn(R, Nat)
  BY NatLessThanWellFounded, SMT DEF OpToRel
<1>3. \A x, y \in Nat : <<y, x>> \in R <=> y < x
  OBVIOUS
<1> HIDE DEF R
<1>4. PICK x \in T : \A y \in T : ~(<<y, x>> \in R)
  BY <1>1, <1>2, WFMin
<1>5. x # 0 /\ x - 1 \in Nat /\ x - 1 < x /\ (x - 1) + 1 = x
  BY <1>4, SMT
<1>6. x - 1 \notin T
  BY <1>3, <1>4, <1>5
<1> QED
  BY <1>4, <1>5, <1>6

(* f goes through A from a0, by the n steps of G.                          *)
Follows(f, A, a0, n, G) ==
  f \in [0..n -> A] /\ f[0] = a0 /\ \A i \in 1..n : f[i] = G[i][f[i - 1]]

(* There is one for any steps.                                             *)
LEMMA StepByStep ==
  ASSUME NEW A, NEW a0 \in A, NEW n \in Nat, NEW G \in [1..n -> [A -> A]]
  PROVE  \E f : Follows(f, A, a0, n, G)
<1> DEFINE S == {m \in Nat : m <= n => \E f : Follows(f, A, a0, m, G)}
<1>1. 0 \in S
  <2> DEFINE f == [i \in 0..0 |-> a0]
  <2>1. Follows(f, A, a0, 0, G)
    BY DEF Follows
  <2> QED BY <2>1
<1>2. ASSUME NEW m \in Nat, m \in S, m + 1 <= n PROVE m + 1 \in S
  <2>1. PICK f : /\ f \in [0..m -> A] /\ f[0] = a0
                 /\ \A i \in 1..m : f[i] = G[i][f[i - 1]]
    BY <1>2 DEF Follows
  <2> DEFINE a == G[m + 1][f[m]]
             g == [i \in 0..(m + 1) |-> IF i = m + 1 THEN a ELSE f[i]]
  <2>2. a \in A
    <3>1. f[m] \in A /\ m + 1 \in 1..n
      BY <1>2, <2>1
    <3> QED BY <3>1
  <2> HIDE DEF a
  <2>3. g \in [0..(m + 1) -> A]
    BY <2>1, <2>2
  <2>4. g[0] = a0
    BY <2>1
  <2>5. ASSUME NEW i \in 1..(m + 1) PROVE g[i] = G[i][g[i - 1]]
    <3>1. i - 1 \in 0..(m + 1) /\ i - 1 # m + 1 /\ i \in 0..(m + 1)
      OBVIOUS
    <3>2. g[i - 1] = f[i - 1]
      BY <3>1
    <3>3. CASE i = m + 1
      <4>1. i - 1 = m /\ g[i] = a
        BY <3>1, <3>3
      <4> QED BY <3>2, <3>3, <4>1 DEF a
    <3>4. CASE i # m + 1
      <4>1. i \in 1..m /\ g[i] = f[i]
        BY <3>1, <3>4
      <4> QED BY <2>1, <3>2, <4>1
    <3> QED BY <3>3, <3>4
  <2> HIDE DEF g
  <2>6. Follows(g, A, a0, m + 1, G)
    BY <2>3, <2>4, <2>5 DEF Follows
  <2> QED BY <2>6
<1>3. n \in S
  <2>1. \A m \in Nat : ~(m + 1 <= n) => m + 1 \in S
    OBVIOUS
  <2> HIDE DEF S
  <2>2. \A m \in Nat : m \in S => m + 1 \in S
    BY <1>2, <2>1
  <2> QED BY <1>1, <2>2, NatSetInduction
<1> QED BY <1>3

-----------------------------------------------------------------------------
(* What Visible computes.                                                  *)

Queues == Seq(Kinds)

(* The first m elements of r have led to f[m].                             *)
Adds(v, x) == IF IsPosted(x) THEN Append(v, x) ELSE v
Seen(f, r, m) == f[0] = <<>> /\ \A i \in 1..m : f[i] = Adds(f[i - 1], r[i])

(* Visible, element by element.                                            *)
LEMMA VisibleByElement ==
  ASSUME NEW s \in Queues
  PROVE  /\ Visible(s) \in Queues
         /\ s = <<>> => Visible(s) = <<>>
         /\ \A x \in Kinds : Visible(Append(s, x)) = Adds(Visible(s), x)
(* There is one way to go through the same elements.                       *)
<1>1. ASSUME NEW r \in Queues, NEW q \in Queues, NEW m \in Nat, \A i \in 1..m : r[i] = q[i],
             NEW f, Seen(f, r, m), NEW h, Seen(h, q, m)
      PROVE  f[m] = h[m]
  <2> DEFINE S == {i \in Nat : i <= m => f[i] = h[i]}
  <2>1. 0 \in S
    BY <1>1 DEF Seen
  <2>2. ASSUME NEW i \in Nat, i \in S PROVE i + 1 \in S
    <3>1. SUFFICES ASSUME i + 1 <= m PROVE f[i + 1] = h[i + 1]
      OBVIOUS
    <3>2. i + 1 \in 1..m /\ (i + 1) - 1 = i /\ f[i] = h[i]
      BY <2>2, <3>1
    <3>3. f[i + 1] = Adds(f[i], r[i + 1]) /\ h[i + 1] = Adds(h[i], q[i + 1])
      BY <1>1, <3>2 DEF Seen
    <3> QED BY <1>1, <3>2, <3>3
  <2>3. m \in S
    <3> HIDE DEF S
    <3> QED BY <2>1, <2>2, NatSetInduction
  <2> QED BY <2>3
<1>2. ASSUME NEW r \in Queues
      PROVE  \E f \in [0..Len(r) -> Queues] : Seen(f, r, Len(r)) /\ Visible(r) = f[Len(r)]
  <2>0. PICK n : n = Len(r)
    OBVIOUS
  <2>1. /\ n \in Nat /\ <<>> \in Queues
        /\ \A i \in 1..n : r[i] \in Kinds /\ i \in 0..n /\ i - 1 \in 0..n /\ i # 0
        /\ \A i \in 0..n : i # 0 => i \in 1..n
    BY <2>0 DEF Queues
  <2>2. PICK G \in [1..n -> [Queues -> Queues]] :
          \A v \in Queues, i \in 1..n : G[i][v] = Adds(v, r[i])
    <3> DEFINE D == [i \in 1..n |-> [v \in Queues |-> Adds(v, r[i])]]
    <3>1. \A v \in Queues, i \in 1..n : Adds(v, r[i]) \in Queues
      BY <2>1 DEF Adds, Queues
    <3>2. /\ D \in [1..n -> [Queues -> Queues]]
          /\ \A v \in Queues, i \in 1..n : D[i][v] = Adds(v, r[i])
      BY <3>1
    <3> HIDE DEF D
    <3> QED BY <3>2
  <2>3. PICK f : Follows(f, Queues, <<>>, n, G)
    <3>1. <<>> \in Queues /\ n \in Nat
      BY <2>1
    <3> QED BY <3>1, StepByStep
  <2>4. f \in [0..n -> Queues] /\ f[0] = <<>> /\ \A i \in 1..n : f[i] = G[i][f[i - 1]]
    BY <2>3 DEF Follows
  <2>5. \A i \in 1..n : f[i] = Adds(f[i - 1], r[i])
    BY <2>1, <2>2, <2>4
  <2>6. Seen(f, r, n)
    BY <2>4, <2>5 DEF Seen
  <2> DEFINE F(g) == [i \in 0..Len(r) |->
                        IF i = 0 THEN <<>>
                        ELSE IF IsPosted(r[i]) THEN Append(g[i - 1], r[i]) ELSE g[i - 1]]
             upTo == CHOOSE g : g = F(g)
  <2>7. \A g : F(g) = [i \in 0..n |-> IF i = 0 THEN <<>> ELSE Adds(g[i - 1], r[i])]
    BY <2>0 DEF Adds
  <2>8. Visible(r) = upTo[n]
    BY <2>0 DEF Visible
  <2> HIDE DEF F
  <2>9. f = F(f)
    <3>1. \A i \in 0..n : f[i] = IF i = 0 THEN <<>> ELSE Adds(f[i - 1], r[i])
      BY <2>1, <2>4, <2>5
    <3> QED BY <2>4, <2>7, <3>1
  <2>10. upTo = F(upTo)
    BY <2>9
  <2>11. Seen(upTo, r, n)
    <3> HIDE DEF upTo
    <3>1. upTo[0] = <<>> /\ \A i \in 1..n : upTo[i] = Adds(upTo[i - 1], r[i])
      BY <2>1, <2>7, <2>10
    <3> QED BY <3>1 DEF Seen
  <2>12. PICK g : g = upTo
    OBVIOUS
  <2> HIDE DEF upTo
  <2>13. g[n] = f[n]
    <3>1. n \in Nat /\ Seen(g, r, n)
      BY <2>1, <2>11, <2>12
    <3> QED BY <1>1, <2>6, <3>1
  <2> QED BY <2>0, <2>4, <2>6, <2>8, <2>12, <2>13
<1>3. PICK f \in [0..Len(s) -> Queues] : Seen(f, s, Len(s)) /\ Visible(s) = f[Len(s)]
  BY <1>2
<1>4. Len(s) \in Nat /\ Visible(s) \in Queues
  <2>1. Len(s) \in Nat
    BY DEF Queues
  <2>2. Len(s) \in 0..Len(s)
    BY <2>1
  <2> QED BY <1>3, <2>1, <2>2
<1>5. s = <<>> => Visible(s) = <<>>
  BY <1>3 DEF Seen
<1>6. ASSUME NEW x \in Kinds PROVE Visible(Append(s, x)) = Adds(Visible(s), x)
  <2>0. PICK t : t = Append(s, x)
    OBVIOUS
  <2>1. /\ t \in Queues /\ Len(t) = Len(s) + 1 /\ t[Len(s) + 1] = x
        /\ \A i \in 1..Len(s) : t[i] = s[i]
    BY <2>0 DEF Queues
  <2>2. PICK g \in [0..Len(t) -> Queues] : Seen(g, t, Len(t)) /\ Visible(t) = g[Len(t)]
    BY <1>2, <2>1
  <2>3. Len(t) \in 1..Len(t) /\ Len(t) - 1 = Len(s) /\ \A i \in 1..Len(s) : i \in 1..Len(t)
    BY <1>4, <2>1
  <2>4. Seen(g, t, Len(s))
    BY <2>2, <2>3 DEF Seen
  <2>5. g[Len(t)] = Adds(g[Len(s)], x)
    BY <2>1, <2>2, <2>3 DEF Seen
  <2>6. g[Len(s)] = f[Len(s)]
    <3>1. \A i \in 1..Len(s) : t[i] = s[i]
      BY <2>1
    <3>2. Seen(f, s, Len(s))
      BY <1>3
    <3>3. Len(s) \in Nat /\ t \in Queues
      BY <1>4, <2>1
    <3> QED BY <1>1, <2>4, <3>1, <3>2, <3>3
  <2> QED BY <1>3, <2>0, <2>2, <2>5, <2>6
<1> QED BY <1>4, <1>5, <1>6

(* Visible goes part by part; it drops what is no event.                   *)
LEMMA VisibleOfParts ==
  /\ \A s, t \in Queues : Visible(s \o t) = Visible(s) \o Visible(t)
  /\ \A s \in Queues : (\A i \in 1..Len(s) : ~IsEvent(s[i])) => Visible(s) = <<>>
  /\ \A x \in Kinds : Visible(<<x>>) = IF IsPosted(x) THEN <<x>> ELSE <<>>
<1>0. <<>> \in Queues /\ Visible(<<>>) = <<>>
  <2>1. <<>> \in Queues
    BY DEF Queues
  <2> QED BY <2>1, VisibleByElement
<1>1. ASSUME NEW n \in Nat, NEW t \in Queues, Len(t) = n + 1
      PROVE  \E u \in Queues, x \in Kinds :
               /\ t = Append(u, x) /\ Len(u) = n
               /\ x = t[n + 1] /\ \A i \in 1..n : u[i] = t[i]
  <2> DEFINE u == [i \in 1..n |-> t[i]]
  <2>1. t \in Seq(Kinds)
    BY DEF Queues
  <2>2. u \in Seq(Kinds) /\ Len(u) = n /\ t[n + 1] \in Kinds
    BY <1>1, <2>1
  <2>3. \A i \in 1..n : u[i] = t[i]
    OBVIOUS
  <2> HIDE DEF u
  <2>4. t = Append(u, t[n + 1])
    BY <1>1, <2>1, <2>2, <2>3
  <2> QED BY <2>2, <2>3, <2>4 DEF Queues
<1>2. ASSUME NEW s \in Queues, NEW t \in Queues
      PROVE  Visible(s \o t) = Visible(s) \o Visible(t)
  <2> DEFINE S == {n \in Nat : \A q \in Queues :
                     Len(q) = n => Visible(s \o q) = Visible(s) \o Visible(q)}
  <2>1. 0 \in S
    <3> SUFFICES ASSUME NEW q \in Queues, Len(q) = 0
                 PROVE  Visible(s \o q) = Visible(s) \o Visible(q)
      OBVIOUS
    <3>1. q = <<>> /\ s \o q = s
      BY DEF Queues
    <3>2. Visible(s) \o <<>> = Visible(s)
      BY VisibleByElement DEF Queues
    <3> QED BY <1>0, <3>1, <3>2
  <2>2. ASSUME NEW n \in Nat, n \in S PROVE n + 1 \in S
    <3> SUFFICES ASSUME NEW q \in Queues, Len(q) = n + 1
                 PROVE  Visible(s \o q) = Visible(s) \o Visible(q)
      OBVIOUS
    <3>1. PICK u \in Queues, x \in Kinds : q = Append(u, x) /\ Len(u) = n
      BY <1>1
    <3>2. PICK su : su = s \o u
      OBVIOUS
    <3>3. su \in Queues /\ s \o q = Append(su, x)
      BY <3>1, <3>2 DEF Queues
    <3>4. Visible(su) = Visible(s) \o Visible(u)
      BY <2>2, <3>1, <3>2
    <3>5. Visible(s \o q) = Adds(Visible(su), x) /\ Visible(q) = Adds(Visible(u), x)
      BY <3>1, <3>3, VisibleByElement
    <3>6. Visible(s) \in Queues /\ Visible(u) \in Queues
      BY VisibleByElement
    <3>7. ASSUME NEW v \in Queues, NEW w \in Queues PROVE Adds(v \o w, x) = v \o Adds(w, x)
      <4>1. v \in Seq(Kinds) /\ w \in Seq(Kinds) /\ <<x>> \in Seq(Kinds) /\ v \o w \in Seq(Kinds)
        BY DEF Queues
      <4>2. Append(w, x) = w \o <<x>> /\ Append(v \o w, x) = (v \o w) \o <<x>>
        BY <4>1
      <4>3. (v \o w) \o <<x>> = v \o (w \o <<x>>)
        BY <4>1, ConcatAssociative
      <4> QED BY <4>2, <4>3 DEF Adds
    <3>8. Adds(Visible(s) \o Visible(u), x) = Visible(s) \o Adds(Visible(u), x)
      BY <3>6, <3>7, Zenon
    <3> QED BY <3>4, <3>5, <3>8, Zenon
  <2>3. Len(t) \in Nat
    BY DEF Queues
  <2>4. Len(t) \in S
    <3> HIDE DEF S
    <3> QED BY <2>1, <2>2, <2>3, NatSetInduction
  <2> QED BY <2>4
<1>3. ASSUME NEW s \in Queues, \A i \in 1..Len(s) : ~IsEvent(s[i])
      PROVE  Visible(s) = <<>>
  <2> DEFINE S == {n \in Nat : \A q \in Queues :
                     Len(q) = n /\ (\A i \in 1..n : ~IsEvent(q[i])) => Visible(q) = <<>>}
  <2>1. 0 \in S
    <3>1. \A q \in Queues : Len(q) = 0 => q = <<>>
      BY DEF Queues
    <3> QED BY <1>0, <3>1
  <2>2. ASSUME NEW n \in Nat, n \in S PROVE n + 1 \in S
    <3> SUFFICES ASSUME NEW q \in Queues, Len(q) = n + 1,
                        \A i \in 1..(n + 1) : ~IsEvent(q[i])
                 PROVE  Visible(q) = <<>>
      OBVIOUS
    <3>1. PICK u \in Queues, x \in Kinds : /\ q = Append(u, x) /\ Len(u) = n
                                           /\ x = q[n + 1] /\ \A i \in 1..n : u[i] = q[i]
      BY <1>1
    <3>2. n + 1 \in 1..(n + 1) /\ \A i \in 1..n : i \in 1..(n + 1)
      OBVIOUS
    <3>3. ~IsEvent(x) /\ \A i \in 1..n : ~IsEvent(u[i])
      BY <3>1, <3>2
    <3>4. Visible(u) = <<>>
      BY <2>2, <3>1, <3>3
    <3> QED BY <3>1, <3>3, <3>4, VisibleByElement DEF Adds, IsPosted
  <2>3. Len(s) \in Nat
    BY DEF Queues
  <2>4. Len(s) \in S
    <3> HIDE DEF S
    <3> QED BY <2>1, <2>2, <2>3, NatSetInduction
  <2> QED BY <1>3, <2>4
<1>4. ASSUME NEW x \in Kinds PROVE Visible(<<x>>) = IF IsPosted(x) THEN <<x>> ELSE <<>>
  <2>1. Append(<<>>, x) = <<x>>
    OBVIOUS
  <2> QED BY <1>0, <2>1, VisibleByElement DEF Adds
<1> QED BY <1>2, <1>3, <1>4

(* What Advance returns are bytes and events.                              *)
LEMMA AdvanceTypes ==
  ASSUME buffer \in Seq(Bytes), NEW bytes \in Seq(Bytes), NEW full \in BOOLEAN
  PROVE  /\ Advance(bytes, full).buffer \in Seq(Bytes)
         /\ Advance(bytes, full).out \in Queues
<1> DEFINE A == [buffer : Seq(Bytes), out : Queues]
           Step(a, i) ==
             LET b == Append(a.buffer, bytes[i])
                 p == Parse(b, i < Len(bytes) \/ full)
             IN CASE p = "wait"  -> [buffer |-> b, out |-> a.out]
                  [] p = "error" -> [buffer |-> <<>>, out |-> a.out]
                  [] OTHER -> [buffer |-> <<>>, out |-> Append(a.out, p)]
           a0 == [buffer |-> buffer, out |-> <<>>]
           F(g) == [i \in 0..Len(bytes) |-> IF i = 0 THEN a0 ELSE Step(g[i - 1], i)]
           at == CHOOSE g : g = F(g)
<1>1. Advance(bytes, full) = at[Len(bytes)]
  BY DEF Advance
<1>2. PICK n : n = Len(bytes)
  OBVIOUS
<1>3. /\ n \in Nat /\ a0 \in A /\ n \in 0..n
      /\ \A i \in 1..n : bytes[i] \in Bytes /\ i \in 0..n /\ i - 1 \in 0..n /\ i # 0
      /\ \A i \in 0..n : i # 0 => i \in 1..n
  BY <1>2 DEF Queues
<1>4. ASSUME NEW a \in A, NEW i \in 1..n PROVE Step(a, i) \in A
  <2> DEFINE b == Append(a.buffer, bytes[i])
             p == Parse(b, i < Len(bytes) \/ full)
  <2>1. b \in Seq(Bytes) /\ a.out \in Queues /\ <<>> \in Seq(Bytes)
    BY <1>3
  <2>2. p \in Kinds \cup {"wait", "error"}
    BY DEF Parse, ParseCsi, Kinds, Keys, Internal
  <2>3. p \in Kinds => Append(a.out, p) \in Queues
    BY <2>1 DEF Queues
  <2> HIDE DEF p, b
  <2>4. Step(a, i) = CASE p = "wait"  -> [buffer |-> b, out |-> a.out]
                       [] p = "error" -> [buffer |-> <<>>, out |-> a.out]
                       [] OTHER -> [buffer |-> <<>>, out |-> Append(a.out, p)]
    BY DEF p, b
  <2> HIDE DEF Step
  <2> QED BY <2>1, <2>2, <2>3, <2>4
<1>5. PICK G \in [1..n -> [A -> A]] : \A a \in A, i \in 1..n : G[i][a] = Step(a, i)
  <2> DEFINE D == [i \in 1..n |-> [a \in A |-> Step(a, i)]]
  <2> HIDE DEF A, Step
  <2>1. D \in [1..n -> [A -> A]] /\ \A a \in A, i \in 1..n : D[i][a] = Step(a, i)
    BY <1>4
  <2> HIDE DEF D
  <2> QED BY <2>1
<1> HIDE DEF Step
<1>6. PICK f : Follows(f, A, a0, n, G)
  BY <1>3, StepByStep
<1>7. f \in [0..n -> A] /\ f[0] = a0 /\ \A i \in 1..n : f[i] = G[i][f[i - 1]]
  BY <1>6 DEF Follows
<1> HIDE DEF A, a0
<1>8. \A i \in 1..n : f[i] = Step(f[i - 1], i)
  BY <1>3, <1>5, <1>7
<1>9. \A g : F(g) = [i \in 0..n |-> IF i = 0 THEN a0 ELSE Step(g[i - 1], i)]
  BY <1>2
<1> HIDE DEF F
<1>10. f = F(f)
  <2>1. \A i \in 0..n : f[i] = IF i = 0 THEN a0 ELSE Step(f[i - 1], i)
    BY <1>3, <1>7, <1>8
  <2> QED BY <1>7, <1>9, <2>1
<1>11. at = F(at)
  BY <1>10
<1> HIDE DEF at
<1>12. at[n] \in A
  <2> DEFINE S == {i \in Nat : i <= n => at[i] \in A}
  <2>1. at[0] = a0 /\ \A i \in 1..n : at[i] = Step(at[i - 1], i)
    BY <1>3, <1>9, <1>11
  <2>2. 0 \in S
    BY <1>3, <2>1
  <2>3. ASSUME NEW i \in Nat, i \in S PROVE i + 1 \in S
    <3> SUFFICES ASSUME i + 1 <= n PROVE at[i + 1] \in A
      OBVIOUS
    <3>1. i + 1 \in 1..n /\ (i + 1) - 1 = i /\ at[i] \in A
      BY <1>3, <2>3
    <3> QED BY <1>4, <2>1, <3>1
  <2>4. n \in S
    <3> HIDE DEF S
    <3> QED BY <1>3, <2>2, <2>3, NatSetInduction
  <2> QED BY <2>4
<1> QED BY <1>1, <1>2, <1>12 DEF A

-----------------------------------------------------------------------------
(* The order of the events.                                                *)

(* poll is looking for an event: none of those put aside is one.  The      *)
(* parser is asked first, so at the tty it has nothing left.               *)
Quiet(s) == \A i \in 1..Len(s) : ~IsEvent(s[i])

InputInv ==
  /\ TypeOK /\ InOrder /\ TrueMeansReadable
  /\ pc \notin {"idle", "take"} => Quiet(events)
  /\ pc \in {"mio", "token", "read"} => parsed = <<>>
  /\ pc # "got" => got = "none"

(* What rffi_poll_event has yet to return, from its three places.          *)
Result(g) == IF g = "none" THEN <<>> ELSE <<g>>
Pending(g, e, p) == Visible(Result(g)) \o (Visible(e) \o Visible(p))

(* The invariant, which says where each event is that was read.            *)
THEOREM InputInvariant == Spec => []InputInv
<1>0. \A u, v, w \in Queues : (u \o v) \o w = u \o (v \o w)
  <2> SUFFICES ASSUME NEW u \in Queues, NEW v \in Queues, NEW w \in Queues
               PROVE  (u \o v) \o w = u \o (v \o w)
    OBVIOUS
  <2>1. u \in Seq(Kinds) /\ v \in Seq(Kinds) /\ w \in Seq(Kinds)
    BY DEF Queues
  <2> QED BY <2>1, ConcatAssociative
<1>1. <<>> \in Queues /\ Visible(<<>>) = <<>>
  <2>1. <<>> \in Queues
    BY DEF Queues
  <2> QED BY <2>1, VisibleByElement
<1>2. ASSUME NEW g \in Kinds \cup {"none"}, NEW e \in Queues, NEW p \in Queues
      PROVE  /\ Visible(Result(g) \o e \o p) = Pending(g, e, p)
             /\ Result(g) \in Queues /\ Visible(Result(g)) \in Queues
             /\ Visible(e) \in Queues /\ Visible(p) \in Queues
  <2>1. Result(g) \in Queues
    BY DEF Result, Queues
  <2>2. Result(g) \o e \in Queues
    BY <2>1 DEF Queues
  <2>3. Visible(Result(g) \o e \o p) = (Visible(Result(g)) \o Visible(e)) \o Visible(p)
    <3>1. Visible(Result(g) \o e) = Visible(Result(g)) \o Visible(e)
      BY <2>1, VisibleOfParts, Zenon
    <3>2. Visible(Result(g) \o e \o p) = Visible(Result(g) \o e) \o Visible(p)
      BY <2>2, VisibleOfParts, Zenon
    <3> QED BY <3>1, <3>2, Zenon
  <2>4. /\ Visible(Result(g)) \in Queues /\ Visible(e) \in Queues /\ Visible(p) \in Queues
    BY <2>1, VisibleByElement
  <2>5. Visible(Result(g) \o e \o p) = Pending(g, e, p)
    <3>1. (Visible(Result(g)) \o Visible(e)) \o Visible(p)
            = Visible(Result(g)) \o (Visible(e) \o Visible(p))
      <4>1. PICK a, b, c \in Queues :
              a = Visible(Result(g)) /\ b = Visible(e) /\ c = Visible(p)
        BY <2>4, Zenon
      <4>2. a \in Seq(Kinds) /\ b \in Seq(Kinds) /\ c \in Seq(Kinds)
        BY DEF Queues
      <4>3. (a \o b) \o c = a \o (b \o c)
        BY <4>2, ConcatAssociative
      <4> QED BY <4>1, <4>3, Zenon
    <3> QED BY <2>3, <3>1, Zenon DEF Pending
  <2> QED BY <2>1, <2>4, <2>5
<1>3. \A q \in Queues : <<>> \o q = q /\ q \o <<>> = q
  BY DEF Queues
<1>4. Init => InputInv
  <2> SUFFICES ASSUME Init PROVE InputInv
    OBVIOUS
  <2>1. TypeOK
    <3>1. <<>> \in Seq(Bytes) /\ <<>> \in Seq(Kinds) /\ <<>> \in Seq({"tty", "signal"})
          /\ <<>> \in Seq(Internal) /\ 0 \in 0..MaxBytes /\ 0 \in 0..MaxWinch
      BY InputAssumption DEF InputAssumption
    <3> QED BY <3>1 DEF Init, TypeOK
  <2>2. InOrder
    BY <1>1, <1>3 DEF Init, InOrder
  <2> QED BY <2>1, <2>2 DEF Init, InputInv, TrueMeansReadable
<1>5. ASSUME InputInv, [Next]_vars PROVE InputInv'
  <2> USE <1>5
  <2>1. TypeOK /\ InOrder /\ TrueMeansReadable
    BY DEF InputInv
  <2>2. /\ events \in Queues /\ parsed \in Queues /\ got \in Kinds \cup {"none"}
        /\ skipped \in Queues /\ Quiet(skipped) /\ due \in Queues
        /\ due = Pending(got, events, parsed)
    <3>1. /\ events \in Queues /\ parsed \in Queues /\ got \in Kinds \cup {"none"} /\ due \in Queues
          /\ skipped \in Seq(Internal)
      BY <2>1 DEF TypeOK, Queues
    <3>2. skipped \in Queues /\ Quiet(skipped)
      BY <3>1 DEF Queues, Quiet, IsEvent, Kinds
    <3>3. due = Visible(Result(got) \o events \o parsed)
      BY <2>1 DEF InOrder, Result
    <3> QED BY <1>2, <3>1, <3>2, <3>3
  <2>3. \A q \in Queues : Quiet(q) => Visible(q) = <<>>
    BY VisibleOfParts DEF Quiet
  <2>31. \A q, r \in Queues : q \o r \in Queues /\ Visible(q \o r) = Visible(q) \o Visible(r)
    BY VisibleOfParts DEF Queues
  <2>32. \A q \in Queues : Visible(q) \in Queues
    BY VisibleByElement
  <2>33. \A e, p \in Queues : Pending("none", e, p) = Visible(e) \o Visible(p)
    BY <1>1, <1>3, <2>31, <2>32 DEF Pending, Result
  <2>34. \A g \in Kinds \cup {"none"}, e, p \in Queues :
           Quiet(e) => Pending(g, e, p) = Visible(Result(g)) \o Visible(p)
    BY <1>1, <1>3, <2>3, <2>32 DEF Pending
  <2>35. Quiet(events) /\ got = "none" => due = Visible(parsed)
    <3>1. Visible(events) = <<>> \/ ~Quiet(events)
      BY <2>2, <2>3
    <3>2. Pending("none", events, parsed) = Visible(events) \o Visible(parsed)
      BY <2>2, <2>33
    <3>3. <<>> \o Visible(parsed) = Visible(parsed)
      BY <1>3, <2>2, <2>32
    <3> QED BY <2>2, <3>1, <3>2, <3>3
(* Take gets the first event of the queue, and with it what is due first.  *)
  <2>30. ASSUME Take
         PROVE  events' \in Queues /\ due' \in Queues /\ due' = Pending(got', events', parsed')
    <3>1. PICK i \in DOMAIN events :
            /\ \A j \in 1..(i - 1) : ~IsEvent(events[j])
            /\ events' = SubSeq(events, i + 1, Len(events)) \o SubSeq(events, 1, i - 1)
            /\ due' = IF IsPosted(events[i]) THEN Tail(due) ELSE due
      BY <2>30 DEF Take
    <3>2. PICK pre, post, e : /\ pre = SubSeq(events, 1, i - 1) /\ e = events[i]
                              /\ post = SubSeq(events, i + 1, Len(events))
      OBVIOUS
    <3>3. pre \in Queues /\ post \in Queues /\ e \in Kinds /\ <<e>> \in Queues
      <4>0. events \in Seq(Kinds) /\ i \in 1..Len(events)
        BY <2>2, <3>1 DEF Queues
      <4>1. /\ events \in Seq(Kinds) /\ i \in 1..Len(events) /\ Len(events) \in Nat
            /\ 1 \in Nat /\ i - 1 <= Len(events) /\ i + 1 \in Nat
        BY <4>0
      <4>2. e \in Kinds
        BY <3>2, <4>1
      <4>3. pre \in Seq(Kinds)
        BY <3>2, <4>1
      <4>4. post \in Seq(Kinds)
        BY <3>2, <4>1
      <4>5. <<e>> \in Seq(Kinds)
        BY <4>2
      <4> QED BY <4>2, <4>3, <4>4, <4>5 DEF Queues
    <3>4. Quiet(pre)
      <4>1. events \in Seq(Kinds) /\ i \in 1..Len(events) /\ Len(events) \in Nat
        BY <2>2, <3>1 DEF Queues
      <4>2. Len(pre) = i - 1 /\ \A j \in 1..(i - 1) : pre[j] = events[j]
        BY <3>2, <4>1
      <4> QED BY <3>1, <4>2 DEF Quiet
    <3>5. events = pre \o (<<e>> \o post)
      <4>1. /\ events \in Seq(Kinds) /\ i \in 1..Len(events) /\ Len(events) \in Nat
            /\ i - 1 \in (1 - 1)..Len(events) /\ Len(events) \in (i - 1)..Len(events)
            /\ 1 \in 1..(Len(events) + 1) /\ (i - 1) + 1 = i /\ Len(events) \in i..Len(events)
        BY <2>2, <3>1 DEF Queues
      <4>2. pre \o SubSeq(events, i, Len(events)) = SubSeq(events, 1, Len(events))
        BY <3>2, <4>1, ConcatAdjacentSubSeq
      <4>3. SubSeq(events, i, Len(events)) = <<e>> \o post
        BY <3>2, <4>1, SubSeqRecursiveFirst
      <4>4. SubSeq(events, 1, Len(events)) = events
        BY <4>1, SubSeqFull
      <4> QED BY <4>2, <4>3, <4>4
    <3>6. Visible(events) = Visible(<<e>>) \o Visible(post)
      <4>1. <<e>> \o post \in Queues /\ Visible(<<e>> \o post) = Visible(<<e>>) \o Visible(post)
        BY <2>31, <3>3
      <4>2. Visible(events) = Visible(pre) \o Visible(<<e>> \o post)
        BY <2>31, <3>3, <3>5, <4>1
      <4>3. Visible(pre) = <<>> /\ Visible(<<e>> \o post) \in Queues
        BY <2>3, <2>32, <3>3, <3>4, <4>1
      <4> QED BY <1>3, <4>1, <4>2, <4>3
    <3>7. Visible(events') = Visible(post) /\ events' \in Queues
      <4>1. events' \in Queues /\ Visible(events') = Visible(post) \o Visible(pre)
        BY <2>31, <3>1, <3>2, <3>3
      <4>2. Visible(pre) = <<>> /\ Visible(post) \in Queues
        BY <2>3, <2>32, <3>3, <3>4
      <4> QED BY <1>3, <4>1, <4>2
    <3>8. got = "none" /\ UNCHANGED <<got, parsed>>
      BY <2>30 DEF Take, InputInv, parser
    <3>9. PICK rest : rest = Visible(post) \o Visible(parsed)
      OBVIOUS
    <3>10. rest \in Queues /\ rest = Pending(got', events', parsed')
      BY <1>1, <1>3, <2>2, <2>31, <2>32, <3>3, <3>7, <3>8, <3>9 DEF Pending, Result
    <3>11. due = Visible(<<e>>) \o rest
      <4>1. due = Visible(events) \o Visible(parsed)
        BY <1>1, <1>3, <2>2, <2>31, <2>32, <3>8 DEF Pending, Result
      <4>2. Visible(<<e>>) \in Queues /\ Visible(post) \in Queues /\ Visible(parsed) \in Queues
        BY <2>2, <2>32, <3>3
      <4>3. (Visible(<<e>>) \o Visible(post)) \o Visible(parsed) = Visible(<<e>>) \o rest
        BY <1>0, <3>9, <4>2, Zenon
      <4> QED BY <3>6, <4>1, <4>3, Zenon
    <3>12. Visible(<<e>>) = IF IsPosted(e) THEN <<e>> ELSE <<>>
      BY <3>3, VisibleOfParts
    <3>13. IsPosted(e) => Tail(<<e>> \o rest) = rest
      BY <3>3, <3>10 DEF Queues
    <3>14. due' = rest
      BY <1>3, <3>1, <3>2, <3>10, <3>11, <3>12, <3>13
    <3> QED BY <3>7, <3>10, <3>14
(* One read, and what the parser makes of it.                              *)
  <2>9. ASSUME Read
        PROVE  \E r : /\ r.buffer \in Seq(Bytes) /\ r.out \in Queues
                      /\ tty' \in Seq(Bytes) /\ buffer' = r.buffer
                      /\ due' = due \o Visible(r.out)
                      /\ \/ /\ r.out # <<>> /\ got' = Head(r.out) /\ parsed' = Tail(r.out)
                            /\ batch' = <<>> /\ pc' = "got"
                         \/ r.out = <<>> /\ UNCHANGED <<got, parsed, batch, pc>>
    <3>1. PICK n, r : /\ n = (IF Len(tty) < BufferSize THEN Len(tty) ELSE BufferSize)
                      /\ r = Advance(SubSeq(tty, 1, n), n = BufferSize)
      OBVIOUS
    <3>2. tty \in Seq(Bytes) /\ buffer \in Seq(Bytes) /\ BufferSize \in Nat
      BY <2>1, InputAssumption DEF TypeOK, InputAssumption
    <3>3. n \in 0..Len(tty) /\ SubSeq(tty, 1, n) \in Seq(Bytes)
          /\ SubSeq(tty, n + 1, Len(tty)) \in Seq(Bytes)
      BY <3>1, <3>2
    <3>4. r.buffer \in Seq(Bytes) /\ r.out \in Queues
      BY <3>1, <3>2, <3>3, AdvanceTypes
    <3>5. /\ tty' = SubSeq(tty, n + 1, Len(tty)) /\ buffer' = r.buffer
          /\ due' = due \o Visible(r.out)
          /\ \/ /\ r.out # <<>> /\ got' = Head(r.out) /\ parsed' = Tail(r.out)
                /\ batch' = <<>> /\ pc' = "got"
             \/ r.out = <<>> /\ UNCHANGED <<got, parsed, batch, pc>>
      BY <2>9, <3>1 DEF Read
    <3> QED BY <3>3, <3>4, <3>5
(* The types.                                                              *)
  <2>4. TypeOK'
    <3>0. /\ tty \in Seq(Bytes) /\ buffer \in Seq(Bytes) /\ batch \in Seq({"tty", "signal"})
          /\ typed \in 0..MaxBytes /\ winches \in 0..MaxWinch
          /\ MaxBytes \in Nat /\ MaxWinch \in Nat /\ BufferSize \in Nat
      BY <2>1, InputAssumption DEF TypeOK, InputAssumption
    <3>1. CASE Type
      <4>1. tty' \in Seq(Bytes) /\ typed' \in 0..MaxBytes
        BY <3>0, <3>1 DEF Type
      <4> QED BY <2>1, <3>1, <4>1 DEF Type, TypeOK, parser, reader
    <3>20. CASE ChangeSize
      <4>1. winches' \in 0..MaxWinch
        BY <3>0, <3>20 DEF ChangeSize
      <4> QED BY <2>1, <3>20, <4>1 DEF ChangeSize, TypeOK, parser, reader
    <3>2. CASE Close
      <4>1. tty' \in Seq(Bytes)
        BY <3>2 DEF Close
      <4> QED BY <2>1, <3>2, <4>1 DEF Close, TypeOK, parser, reader
    <3>3. CASE Elapse \/ TryPoll \/ MioTimeout \/ StartPoll
      BY <2>1, <3>3 DEF Elapse, TryPoll, MioTimeout, StartPoll, TypeOK, world, parser, reader
    <3>4. CASE TryParsed
      <4>1. got' \in Kinds /\ parsed' \in Seq(Kinds)
        BY <2>2, <3>4 DEF TryParsed, Queues
      <4> QED BY <2>1, <3>4, <4>1 DEF TryParsed, TypeOK, world, reader
    <3>5. CASE MioReady
      <4>1. batch' \in Seq({"tty", "signal"})
        <5>1. ASSUME NEW b \in Batches PROVE b \in Seq({"tty", "signal"})
          <6>1. \A x, y \in {"tty", "signal"} :
                  <<x>> \in Seq({"tty", "signal"}) /\ <<x, y>> \in Seq({"tty", "signal"})
            OBVIOUS
          <6> QED BY <6>1 DEF Batches
        <5> QED BY <3>5, <5>1 DEF MioReady
      <4> QED BY <2>1, <3>5, <4>1 DEF MioReady, TypeOK, parser, reader
    <3>6. CASE TokenTty
      <4>1. batch' \in Seq({"tty", "signal"})
        BY <3>0, <3>6 DEF TokenTty
      <4> QED BY <2>1, <3>6, <4>1 DEF TokenTty, TypeOK, world, parser, reader
    <3>7. CASE TokenSignal
      <4>1. batch' \in Seq({"tty", "signal"}) /\ got' \in Kinds /\ due' \in Seq(Kinds)
        BY <2>2, <3>7 DEF TokenSignal, Queues, Kinds
      <4> QED BY <2>1, <3>7, <4>1 DEF TokenSignal, TypeOK, parser, reader
    <3>8. CASE Read
      <4>1. PICK r : /\ r.buffer \in Seq(Bytes) /\ r.out \in Queues
                     /\ tty' \in Seq(Bytes) /\ buffer' = r.buffer
                     /\ due' = due \o Visible(r.out)
                     /\ \/ /\ r.out # <<>> /\ got' = Head(r.out) /\ parsed' = Tail(r.out)
                           /\ batch' = <<>> /\ pc' = "got"
                        \/ r.out = <<>> /\ UNCHANGED <<got, parsed, batch, pc>>
        BY <2>9, <3>8
      <4>5. got' \in Kinds \cup {"none"} /\ parsed' \in Seq(Kinds)
        <5>1. r.out # <<>> => Head(r.out) \in Kinds /\ Tail(r.out) \in Seq(Kinds)
          BY <4>1 DEF Queues
        <5>2. got \in Kinds \cup {"none"} /\ parsed \in Seq(Kinds)
          BY <2>2 DEF Queues
        <5> QED BY <4>1, <5>1, <5>2
      <4>6. batch' \in Seq({"tty", "signal"})
        <5>1. batch' = batch \/ batch' = <<>>
          BY <4>1
        <5>2. <<>> \in Seq({"tty", "signal"})
          OBVIOUS
        <5> QED BY <3>0, <5>1, <5>2
      <4>7. due' \in Seq(Kinds)
        BY <2>2, <2>32, <4>1 DEF Queues
      <4> QED BY <2>1, <3>8, <4>1, <4>5, <4>6, <4>7 DEF Read, TypeOK, reader
    <3>9. CASE PollFound
      <4>1. events' \in Seq(Kinds) /\ skipped' \in Seq(Internal)
        BY <2>2, <3>9 DEF PollFound, Queues
      <4> QED BY <2>1, <3>9, <4>1 DEF PollFound, TypeOK, world, parser
    <3>10. CASE PollSkips
      <4>1. PICK aside : aside = (IF got = "none" THEN skipped ELSE Append(skipped, got))
        OBVIOUS
      <4>2. aside \in Seq(Internal) /\ aside \in Seq(Kinds)
        BY <2>1, <3>10, <4>1 DEF PollSkips, TypeOK, IsEvent, Kinds
      <4>3. events \o aside \in Seq(Kinds) /\ <<>> \in Seq(Internal)
        BY <2>2, <4>2 DEF Queues
      <4>4. \/ events' = events \o aside /\ skipped' = <<>> /\ pc' = "idle"
            \/ skipped' = aside /\ pc' = "try" /\ events' = events
        BY <3>10, <4>1 DEF PollSkips
      <4> QED BY <2>1, <3>10, <4>2, <4>3, <4>4 DEF PollSkips, TypeOK, world, parser
    <3>11. CASE Take
      BY <2>1, <2>30, <3>11 DEF Take, TypeOK, Queues, world, parser
    <3>12. CASE UNCHANGED vars
      BY <2>1, <3>12 DEF vars, world, parser, reader, TypeOK
    <3> QED BY <3>1, <3>2, <3>3, <3>4, <3>5, <3>6, <3>7, <3>8, <3>9, <3>10, <3>11, <3>12,
               <3>20
            DEF Next, Thread
  <2>5. /\ pc' \notin {"idle", "take"} => Quiet(events')
        /\ pc' \in {"mio", "token", "read"} => parsed' = <<>>
        /\ pc' # "got" => got' = "none"
    <3>1. CASE StartPoll
      <4>1. DOMAIN events = 1..Len(events)
        BY <2>2 DEF Queues
      <4> QED BY <3>1, <4>1 DEF StartPoll, InputInv, Quiet, parser, reader
    <3>2. CASE Read
      BY <3>2 DEF Read, InputInv, reader
    <3>3. CASE PollFound \/ PollSkips \/ Take \/ TryParsed \/ TokenSignal
      BY <3>3 DEF PollFound, PollSkips, Take, TryParsed, TokenSignal, InputInv, parser, reader
    <3>4. CASE TryPoll \/ MioReady \/ MioTimeout \/ TokenTty
      BY <3>4 DEF TryPoll, MioReady, MioTimeout, TokenTty, InputInv, parser, reader
    <3>5. CASE Type \/ ChangeSize \/ Close \/ Elapse \/ UNCHANGED vars
      BY <3>5 DEF Type, ChangeSize, Close, Elapse, vars, InputInv, parser, reader
    <3> QED BY <3>1, <3>2, <3>3, <3>4, <3>5 DEF Next, Thread
  <2>6. TrueMeansReadable'
    <3>1. CASE PollFound
      <4>1. events' = <<got>> \o (events \o skipped) /\ got \in Kinds /\ IsEvent(got)
        BY <2>2, <3>1 DEF PollFound, Queues
      <4>2. events \o skipped \in Seq(Kinds)
        BY <2>2 DEF Queues
      <4>3. 1 \in DOMAIN events' /\ events'[1] = got
        BY <4>1, <4>2
      <4> QED BY <4>1, <4>3 DEF TrueMeansReadable
    <3>2. CASE StartPoll
      BY <3>2 DEF StartPoll, TrueMeansReadable, reader
    <3>3. CASE pc' = pc /\ events' = events
      BY <2>1, <3>3 DEF TrueMeansReadable
    <3>4. CASE pc' # "take"
      BY <3>4 DEF TrueMeansReadable
    <3> QED BY <3>1, <3>2, <3>3, <3>4
            DEF Next, Thread, TryParsed, TryPoll, MioReady, MioTimeout, TokenTty, TokenSignal,
                Read, PollSkips, Take, Type, ChangeSize, Close, Elapse, vars, reader
  <2>7. due' = Pending(got', events', parsed')
    <3>1. CASE Take
      BY <2>30, <3>1
    <3>2. CASE TryParsed
      <4>1. /\ got = "none" /\ Quiet(events) /\ parsed # <<>> /\ events' = events
            /\ got' = Head(parsed) /\ parsed' = Tail(parsed) /\ due' = due
        BY <3>2 DEF TryParsed, InputInv, reader
      <4>2. /\ parsed = <<got'>> \o parsed' /\ <<got'>> \in Queues /\ parsed' \in Queues
            /\ Result(got') = <<got'>>
        BY <2>2, <4>1 DEF Queues, Result, Kinds, Keys, Internal
      <4>3. Visible(parsed) = Visible(<<got'>>) \o Visible(parsed')
        BY <2>31, <4>2
      <4>4. due = Visible(parsed)
        BY <2>35, <4>1
      <4>5. Pending(got', events, parsed') = Visible(Result(got')) \o Visible(parsed')
        <5>1. got' \in Kinds
          BY <2>2, <4>1 DEF Queues
        <5>2. got' \in Kinds \cup {"none"}
          BY <5>1
        <5>3. events \in Queues /\ Quiet(events) /\ parsed' \in Queues
          BY <2>2, <4>1, <4>2
        <5> QED BY <2>34, <5>2, <5>3, Zenon
      <4> QED BY <4>1, <4>2, <4>3, <4>4, <4>5
    <3>3. CASE TokenSignal
      <4>1. /\ got = "none" /\ Quiet(events) /\ parsed = <<>> /\ events' = events
            /\ got' = "resize" /\ parsed' = parsed /\ due' = Append(due, "resize")
        BY <3>3 DEF TokenSignal, InputInv, reader, parser
      <4>2. due = <<>>
        BY <1>1, <2>35, <4>1
      <4>3. Result("resize") = <<"resize">> /\ "resize" \in Kinds /\ IsPosted("resize")
        BY DEF Result, Kinds, IsPosted, IsEvent, Internal
      <4>4. Visible(<<"resize">>) = <<"resize">> /\ <<"resize">> \in Queues
        BY <4>3, VisibleOfParts DEF Queues
      <4>5. Pending("resize", events, parsed) = <<"resize">>
        <5>1. Pending("resize", events, parsed) = Visible(Result("resize")) \o Visible(parsed)
          BY <2>2, <2>34, <4>1, <4>3
        <5>2. Visible(parsed) = <<>>
          BY <1>1, <4>1
        <5> QED BY <1>3, <4>3, <4>4, <5>1, <5>2
      <4> QED BY <4>1, <4>2, <4>5
    <3>4. CASE Read
      <4>1. got = "none" /\ Quiet(events) /\ parsed = <<>> /\ events' = events
        BY <3>4 DEF Read, InputInv, reader
      <4>2. PICK r : /\ r.out \in Queues /\ due' = due \o Visible(r.out)
                     /\ \/ r.out # <<>> /\ got' = Head(r.out) /\ parsed' = Tail(r.out)
                        \/ r.out = <<>> /\ UNCHANGED <<got, parsed>>
        BY <2>9, <3>4
      <4>3. due = <<>>
        BY <1>1, <2>35, <4>1
      <4>4. due' = Visible(r.out)
        BY <1>3, <2>32, <4>2, <4>3
      <4>5. CASE r.out # <<>>
        <5>1. /\ r.out = <<got'>> \o parsed' /\ <<got'>> \in Queues /\ parsed' \in Queues
              /\ got' \in Kinds /\ Result(got') = <<got'>>
          <6>1. /\ r.out = <<Head(r.out)>> \o Tail(r.out) /\ Head(r.out) \in Kinds
                /\ Tail(r.out) \in Queues
            BY <4>2, <4>5 DEF Queues
          <6>2. got' = Head(r.out) /\ parsed' = Tail(r.out)
            BY <4>2, <4>5
          <6>3. \A k \in Kinds : <<k>> \in Queues /\ Result(k) = <<k>>
            BY DEF Queues, Result, Kinds, Keys, Internal
          <6> QED BY <6>1, <6>2, <6>3
        <5>2. Visible(r.out) = Visible(<<got'>>) \o Visible(parsed')
          BY <2>31, <5>1
        <5>3. Pending(got', events, parsed') = Visible(Result(got')) \o Visible(parsed')
          <6>1. got' \in Kinds \cup {"none"}
            BY <5>1
          <6> QED BY <2>2, <2>34, <4>1, <5>1, <6>1, Zenon
        <5> QED BY <4>1, <4>4, <5>1, <5>2, <5>3
      <4>6. CASE r.out = <<>>
        BY <1>1, <2>2, <4>1, <4>2, <4>3, <4>4, <4>6
      <4> QED BY <4>5, <4>6
    <3>5. CASE PollFound
      <4>1. /\ got # "none" /\ Quiet(events) /\ got' = "none" /\ due' = due /\ parsed' = parsed
            /\ events' = <<got>> \o events \o skipped
        BY <3>5 DEF PollFound, InputInv, parser
      <4>2. /\ Result(got) = <<got>> /\ <<got>> \in Queues /\ <<got>> \o events \in Queues
            /\ events' \in Queues
        BY <2>2, <4>1 DEF Result, Queues
      <4>3. Visible(<<got>> \o events) = Visible(<<got>>)
        <5>1. Visible(<<got>> \o events) = Visible(<<got>>) \o Visible(events)
          BY <2>2, <2>31, <4>2
        <5>2. Visible(events) = <<>> /\ Visible(<<got>>) \in Queues
          BY <2>2, <2>3, <2>32, <4>1, <4>2
        <5> QED BY <1>3, <5>1, <5>2
      <4>4. Visible(events') = Visible(<<got>>)
        <5>1. Visible(events') = Visible(<<got>> \o events) \o Visible(skipped)
          BY <2>2, <2>31, <4>1, <4>2
        <5>2. Visible(skipped) = <<>> /\ Visible(<<got>>) \in Queues
          BY <2>2, <2>3, <2>32, <4>2
        <5> QED BY <1>3, <4>3, <5>1, <5>2
      <4>5. Pending(got, events, parsed) = Visible(<<got>>) \o Visible(parsed)
        BY <2>2, <2>34, <4>1, <4>2
      <4>6. Pending("none", events', parsed) = Visible(events') \o Visible(parsed)
        BY <2>2, <2>33, <4>2
      <4> QED BY <2>2, <4>1, <4>4, <4>5, <4>6
    <3>6. CASE PollSkips
      <4>1. PICK aside : aside = (IF got = "none" THEN skipped ELSE Append(skipped, got))
        OBVIOUS
      <4>2. /\ events' = events \/ events' = events \o aside
            /\ got = "none" \/ ~IsEvent(got)
            /\ Quiet(events) /\ got' = "none" /\ due' = due /\ parsed' = parsed
        BY <3>6, <4>1 DEF PollSkips, InputInv, parser
      <4>3. aside \in Queues /\ Quiet(aside) /\ Result(got) \in Queues /\ Quiet(Result(got))
        BY <2>2, <4>1, <4>2 DEF Queues, Quiet, Result
      <4>4. Visible(events) = <<>> /\ Visible(aside) = <<>> /\ Visible(Result(got)) = <<>>
        BY <2>2, <2>3, <4>2, <4>3
      <4>5. events' \in Queues /\ Visible(events') = <<>>
        <5>1. /\ events \o aside \in Queues
              /\ Visible(events \o aside) = Visible(events) \o Visible(aside)
          BY <2>2, <2>31, <4>3
        <5>2. Visible(events \o aside) = <<>>
          BY <1>1, <1>3, <4>4, <5>1
        <5> QED BY <2>2, <4>2, <4>4, <5>1, <5>2
      <4>6. Pending(got, events, parsed) = Visible(Result(got)) \o Visible(parsed)
        BY <2>2, <2>34, <4>2
      <4>7. Pending("none", events', parsed) = Visible(events') \o Visible(parsed)
        BY <2>2, <2>33, <4>5
      <4> QED BY <2>2, <4>2, <4>4, <4>5, <4>6, <4>7
    <3>7. CASE UNCHANGED <<due, got, events, parsed>>
      BY <2>2, <3>7
    <3>8. \/ Take \/ TryParsed \/ TokenSignal \/ Read \/ PollFound \/ PollSkips
          \/ UNCHANGED <<due, got, events, parsed>>
      BY DEF Next, Thread, TryPoll, MioReady, MioTimeout, TokenTty, StartPoll, Type,
             ChangeSize, Close, Elapse, vars, parser, reader, InputInv
    <3> QED BY <3>1, <3>2, <3>3, <3>4, <3>5, <3>6, <3>7, <3>8
  <2>8. InOrder'
    <3>1. events' \in Queues /\ parsed' \in Queues /\ got' \in Kinds \cup {"none"}
      BY <2>4 DEF TypeOK, Queues
    <3>2. due' = Visible(Result(got') \o events' \o parsed')
      BY <1>2, <2>7, <3>1
    <3> QED BY <3>2 DEF InOrder, Result
  <2> QED BY <2>4, <2>5, <2>6, <2>8 DEF InputInv, Quiet
<1> QED BY <1>4, <1>5, PTL DEF Spec

(* Each event the source read, of bytes or of a change of size, is         *)
(* returned once and in order, wherever a sequence is split, whatever is   *)
(* put aside and whenever the time of a poll is over.                      *)
THEOREM EventsStayInOrder == Spec => []InOrder
<1>1. InputInv => InOrder BY DEF InputInv
<1> QED BY <1>1, InputInvariant, PTL

(* When poll has answered true the read behind it finds an event.          *)
THEOREM ReadFollowsPoll == Spec => []TrueMeansReadable
<1>1. InputInv => TrueMeansReadable BY DEF InputInv
<1> QED BY <1>1, InputInvariant, PTL

-----------------------------------------------------------------------------
(* The hand-over of the terminal.  parkAndWait returns when it sees        *)
(* `parked`; what makes that sound is that nobody but the UI thread takes  *)
(* `parked` back, so a pump that said so is in its wait loop (or has left) *)
(* until then.                                                             *)

(* The terminal belongs to the editor, or is about to change hands.        *)
HandedOver == {"suspend", "editing", "resume", "unpark"}

PumpInv ==
  /\ PumpTypeOK
  /\ parked => parkRequested /\ pump \in {"parked", "gone"}
  /\ ui \in HandedOver => parked
  /\ ui = "spawn" => edits < MaxEdits

LEMMA PumpInvariant == PumpSpec => []PumpInv
<1>0. PumpInit => PumpInv
  <2> SUFFICES ASSUME PumpInit PROVE PumpInv
    OBVIOUS
  <2>1. keys \in 0..MaxKeys /\ edits \in 0..MaxEdits
    BY EventPumpAssumption, SMT DEF PumpInit, EventPumpAssumption
  <2> QED BY <2>1 DEF PumpInit, PumpInv, PumpTypeOK, HandedOver
<1>1. PumpInv /\ UNCHANGED pumpVars => PumpInv'
  BY DEF PumpInv, PumpTypeOK, HandedOver, pumpVars, flags
<1>2. PumpInv /\ (PumpStep \/ SourceBlocks \/ SourceThrows \/ SpuriousWakeup) => PumpInv'
  <2> SUFFICES ASSUME PumpInv, PumpStep \/ SourceBlocks \/ SourceThrows \/ SpuriousWakeup PROVE PumpInv'
    OBVIOUS
  <2> USE EventPumpAssumption DEF PumpInv, PumpTypeOK, HandedOver, EventPumpAssumption,
          flags, PumpKeeps
  <2>1. CASE Stop           BY <2>1 DEF Stop
  <2>2. CASE Park           BY <2>2 DEF Park, SignalAndWait
  <2>3. CASE AskSource      BY <2>3 DEF AskSource
  <2>4. CASE Wake           BY <2>4 DEF Wake
  <2>5. CASE SourceReturns    BY <2>5 DEF SourceReturns, InSource
  <2>6. CASE SourceThrows     BY <2>6 DEF SourceThrows, InSource
  <2>7. CASE SpuriousWakeup BY <2>7 DEF SpuriousWakeup
  <2>8. CASE SourceBlocks   BY <2>8 DEF SourceBlocks
  <2> QED BY <2>1, <2>2, <2>3, <2>4, <2>5, <2>6, <2>7, <2>8 DEF PumpStep
<1>3. PumpInv /\ (UiStep \/ HandleUnavailable) => PumpInv'
  <2> SUFFICES ASSUME PumpInv, UiStep \/ HandleUnavailable PROVE PumpInv'
    OBVIOUS
  <2> USE EventPumpAssumption DEF PumpInv, PumpTypeOK, HandedOver, EventPumpAssumption,
          flags, UiKeeps
  <2>1. CASE HandleKey
    <3>1. keys' \in 0..MaxKeys /\ edits' = edits
      BY <2>1, SMT DEF HandleKey, Ends
    <3>2. waiting' \subseteq {"pump", "ui"}
      BY <2>1 DEF HandleKey, Ends, Signal
    <3>3. /\ parkRequested' = parkRequested /\ parked' = parked
          /\ stopped' \in BOOLEAN /\ loop' \in BOOLEAN
          /\ text' = text /\ pump' = pump /\ sentinel' = sentinel
      BY <2>1, Zenon DEF HandleKey, Ends
    <3>4. ui' \in {"idle", "spawn", "ended"} /\ (ui' = "spawn" => edits < MaxEdits)
      BY <2>1, Zenon DEF HandleKey, Ends
    <3> QED BY <3>1, <3>2, <3>3, <3>4, Zenon
  <2>2. CASE HandleUnavailable BY <2>2 DEF HandleUnavailable
  <2>3. CASE HandleSentinel    BY <2>3 DEF HandleSentinel, Ends, Signal
  <2>4. CASE SpawnEditor
    <3>1. CASE EditorIsSet
      <4>1. edits' \in 0..MaxEdits BY <2>4, <3>1, SMT DEF SpawnEditor
      <4> QED BY <2>4, <3>1, <4>1, Zenon DEF SpawnEditor
    <3>2. CASE ~EditorIsSet BY <2>4, <3>2 DEF SpawnEditor
    <3> QED BY <3>1, <3>2
  <2>5. CASE ParkAndWait       BY <2>5 DEF ParkAndWait, UiAtEditor, Signal, SignalAndWait
  <2>6. CASE Acknowledged      BY <2>6 DEF Acknowledged, UiAtEditor
  <2>7. CASE Suspend           BY <2>7 DEF Suspend, UiAtEditor
  <2>8. CASE EditorExits       BY <2>8 DEF EditorExits, UiAtEditor
  <2>9. CASE Resume            BY <2>9 DEF Resume, UiAtEditor
  <2>10. CASE UnparkAfterResume BY <2>10 DEF UnparkAfterResume, UiAtEditor, Signal
  <2>11. CASE ReadBack         BY <2>11 DEF ReadBack, UiAtEditor
  <2> QED BY <2>1, <2>2, <2>3, <2>4, <2>5, <2>6, <2>7, <2>8, <2>9, <2>10, <2>11 DEF UiStep
<1>4. PumpInv /\ [PumpNext]_pumpVars => PumpInv'
  BY <1>1, <1>2, <1>3 DEF PumpNext
<1> QED BY <1>0, <1>4, PTL DEF PumpSpec

(* Every reachable state of the pump and the UI thread is well typed.      *)
THEOREM PumpTypeCorrect == PumpSpec => []PumpTypeOK
<1>1. PumpInv => PumpTypeOK BY DEF PumpInv
<1> QED BY <1>1, PumpInvariant, PTL

(* ARCHITECTURE 5.2: from parkAndWait's return until unparkAfterResume no  *)
(* input-class call is in flight on the pump's thread.                     *)
THEOREM NoInputDuringHandoff == PumpSpec => []NoPollDuringHandoff
<1>1. PumpInv => NoPollDuringHandoff
  BY DEF PumpInv, HandedOver, NoPollDuringHandoff, InSource
<1> QED BY <1>1, PumpInvariant, PTL

(* The UI thread never gives the terminal away, nor takes it back, without *)
(* an acknowledgement that is still in force: `parked` and `parkRequested` *)
(* hold together until the UI thread resets both.                          *)
THEOREM AcknowledgementHolds ==
  PumpSpec => [](ui \in HandedOver => parked /\ parkRequested)
<1>1. PumpInv => (ui \in HandedOver => parked /\ parkRequested) BY DEF PumpInv
<1> QED BY <1>1, PumpInvariant, PTL
=============================================================================
