--------------------------- MODULE NvimScreen_proofs ---------------------------
(***************************************************************************)
(* AppState shows what nvim showed at a flush, for any highlights, runs,   *)
(* sizes and regions, and however the stream is cut.                       *)
(*                                                                         *)
(* First one drawing operation at a time: the loops of the redraw handler  *)
(* turn a grid that looks like nvim's into one that looks like nvim's      *)
(* after the operation (DrawnLine, DrawnClear, DrawnResize, DrawnScroll).  *)
(*                                                                         *)
(* Then the way of the operations.  The invariant, Pipeline, is about one  *)
(* sequence, of all that nvim has told since it was attached.  What is in  *)
(* an unfinished message, on the wire, in the framer's buffer, in the      *)
(* inbox, pending or in the channel is a slice of it, and each slice       *)
(* begins where the next one on its way ends, until a message overtakes    *)
(* another: from then on the invariant is about nvim and the reader alone. *)
(*                                                                         *)
(* Last the types, which hold whatever overtakes what (DeliveryInv).       *)
(***************************************************************************)
EXTENDS NvimScreen, SequenceTheorems, WellFoundedInduction, TLAPS

(* Induction, for a set of numbers.                                        *)
LEMMA NatSetInduction ==
  ASSUME NEW S, 0 \in S, \A n \in Nat : n \in S => n + 1 \in S
  PROVE  Nat \subseteq S
<1> DEFINE T == Nat \ S  R == {ss \in Nat \X Nat : ss[1] < ss[2]}
<1>1. SUFFICES ASSUME T # {} PROVE FALSE
  OBVIOUS
<1>2. IsWellFoundedOn(R, Nat)
  BY NatLessThanWellFounded, SMT DEF OpToRel
<1>3. \A x, y \in Nat : <<y, x>> \in R <=> y < x
  OBVIOUS
<1> HIDE DEF R
<1>4. PICK x \in T : \A y \in T : ~(<<y, x>> \in R)
  BY <1>1, <1>2, WFMin
<1>5. x # 0 /\ x - 1 \in Nat /\ x - 1 < x /\ (x - 1) + 1 = x
  BY <1>4, SMT
<1>6. x - 1 \notin T
  BY <1>3, <1>4, <1>5
<1> QED
  BY <1>4, <1>5, <1>6

(* What starts alike and goes on alike stays alike.                        *)
InStep(n, one, other) ==
  one[0] = other[0] /\ \A i \in 1..n : one[i - 1] = other[i - 1] => one[i] = other[i]

LEMMA SameSteps ==
  ASSUME NEW n \in Nat, NEW one, NEW other, InStep(n, one, other)
  PROVE  \A i \in 0..n : one[i] = other[i]
<1> DEFINE S == {m \in Nat : m <= n => one[m] = other[m]}
<1>1. 0 \in S
  BY DEF InStep
<1>2. ASSUME NEW m \in Nat, m \in S PROVE m + 1 \in S
  <2>1. SUFFICES ASSUME m + 1 <= n PROVE one[m + 1] = other[m + 1]
    OBVIOUS
  <2>2. m + 1 \in 1..n /\ (m + 1) - 1 = m /\ m <= n
    BY <2>1
  <2>3. one[m] = other[m]
    BY <1>2, <2>2
  <2> QED BY <2>2, <2>3 DEF InStep
<1>3. Nat \subseteq S
  <2> HIDE DEF S
  <2> QED BY <1>1, <1>2, NatSetInduction
<1> QED BY <1>3

-----------------------------------------------------------------------------
(* Slices                                                                  *)

(* What comes after a, up to b.                                            *)
Slice(s, a, b) == [i \in 1..(b - a) |-> s[a + i]]

LEMMA SliceType ==
  ASSUME NEW X, NEW s \in Seq(X), NEW a \in Nat, NEW b \in Nat, a <= b, b <= Len(s)
  PROVE  /\ Slice(s, a, b) \in Seq(X) /\ Len(Slice(s, a, b)) = b - a
         /\ \A i \in 1..(b - a) : Slice(s, a, b)[i] = s[a + i]
BY DEF Slice

(* Whatever s is: a slice is a sequence.                                   *)
Values(s) == {s[i] : i \in Nat}

LEMMA SliceValues ==
  ASSUME NEW s, NEW a \in Nat, NEW b \in Nat, a <= b
  PROVE  /\ Slice(s, a, b) \in Seq(Values(s)) /\ Len(Slice(s, a, b)) = b - a
         /\ \A i \in 1..(b - a) : Slice(s, a, b)[i] = s[a + i]
<1>1. ASSUME NEW i \in 1..(b - a) PROVE s[a + i] \in Values(s)
  <2>1. a + i \in Nat
    OBVIOUS
  <2> QED BY <2>1, Zenon DEF Values
<1>2. b - a \in Nat
  OBVIOUS
<1> QED BY <1>1, <1>2 DEF Slice

(* s and t agree up to n.                                                  *)
Agree(s, t, n) == \A i \in 1..n : t[i] = s[i]

LEMMA SliceAgree ==
  ASSUME NEW s, NEW t, NEW a \in Nat, NEW b \in Nat, NEW n \in Nat, b <= n, Agree(s, t, n)
  PROVE  Slice(t, a, b) = Slice(s, a, b)
<1>1. \A i \in 1..(b - a) : a + i \in 1..n
  OBVIOUS
<1>2. \A i \in 1..(b - a) : t[a + i] = s[a + i]
  BY <1>1, Zenon DEF Agree
<1> QED BY <1>2, Zenon DEF Slice

CanSlice(a, b, n) == a \in Nat /\ b \in Nat /\ a <= b /\ b <= n
CanJoin(a, b, c)  == a \in Nat /\ b \in Nat /\ c \in Nat /\ a <= b /\ b <= c

LEMMA SliceConcat ==
  ASSUME NEW s, NEW a, NEW b, NEW c, CanJoin(a, b, c)
  PROVE  Slice(s, a, b) \o Slice(s, b, c) = Slice(s, a, c)
<1> DEFINE l == Slice(s, a, b)  r == Slice(s, b, c)  w == Slice(s, a, c)
<1>x. PICK X : X = Values(s)
  OBVIOUS
<1>a. a \in Nat /\ b \in Nat /\ c \in Nat /\ a <= b /\ b <= c /\ a <= c
  BY DEF CanJoin
<1>1. /\ l \in Seq(X) /\ Len(l) = b - a /\ \A i \in 1..(b - a) : l[i] = s[a + i]
  <2> HIDE DEF l
  <2>1. /\ Slice(s, a, b) \in Seq(X) /\ Len(Slice(s, a, b)) = b - a
        /\ \A i \in 1..(b - a) : Slice(s, a, b)[i] = s[a + i]
    BY <1>a, <1>x, SliceValues, Zenon
  <2> QED BY <2>1, Zenon DEF l
<1>2. /\ r \in Seq(X) /\ Len(r) = c - b /\ \A i \in 1..(c - b) : r[i] = s[b + i]
  BY <1>a, <1>x, SliceValues, Zenon
<1>b. /\ w \in Seq(X) /\ Len(w) = c - a /\ \A i \in 1..(c - a) : w[i] = s[a + i]
  BY <1>a, <1>x, SliceValues, Zenon
<1> HIDE DEF l, r, w
<1>3. l \o r \in Seq(X) /\ Len(l \o r) = c - a
  <2>1. l \o r \in Seq(X) /\ Len(l \o r) = Len(l) + Len(r)
    BY <1>1, <1>2, ConcatProperties, Zenon
  <2> QED BY <1>a, <1>1, <1>2, <2>1
<1>4. ASSUME NEW i \in 1..(c - a) PROVE (l \o r)[i] = w[i]
  <2>1. CASE i <= b - a
    <3>1. (l \o r)[i] = l[i] /\ i \in 1..(b - a)  BY <1>a, <1>1, <1>2, <2>1
    <3> QED BY <1>a, <1>1, <1>b, <3>1
  <2>2. CASE i > b - a
    <3>1. (l \o r)[i] = r[i - (b - a)]
      <4>1. i \in (Len(l) + 1)..(Len(l) + Len(r)) /\ Len(l) = b - a
        BY <1>a, <1>1, <1>2, <2>2
      <4> QED BY <1>1, <1>2, <4>1, ConcatProperties
    <3>2. i - (b - a) \in 1..(c - b) /\ b + (i - (b - a)) = a + i  BY <1>a, <2>2
    <3> QED BY <1>2, <1>b, <3>1, <3>2
  <2>3. i <= b - a \/ i > b - a
    BY <1>a
  <2> QED BY <2>1, <2>2, <2>3, Zenon
<1>5. l \o r = w
  BY <1>a, <1>b, <1>3, <1>4, SeqEqual
<1> QED BY <1>5 DEF l, r, w

IsSub(s, a, b, i, j) == SubSeq(Slice(s, a, b), i + 1, j) = Slice(s, a + i, a + j)

LEMMA SliceSub ==
  ASSUME NEW X, NEW s \in Seq(X), NEW a, NEW b, NEW i, NEW j,
         CanSlice(a, b, Len(s)), CanSlice(i, j, b - a)
  PROVE  IsSub(s, a, b, i, j)
<1>0. /\ a \in Nat /\ b \in Nat /\ a <= b /\ b <= Len(s)
      /\ i \in Nat /\ j \in Nat /\ i <= j /\ j <= b - a
  BY Zenon DEF CanSlice
<1> DEFINE l == Slice(s, a, b)  r == SubSeq(l, i + 1, j)  w == Slice(s, a + i, a + j)
<1>1. l \in Seq(X) /\ Len(l) = b - a /\ \A k \in 1..(b - a) : l[k] = s[a + k]
  BY <1>0, SliceType, Zenon
<1>2. /\ w \in Seq(X) /\ Len(w) = j - i
      /\ \A k \in 1..(j - i) : w[k] = s[(a + i) + k]
  <2>1. PICK p \in Nat, q \in Nat : p = a + i /\ q = a + j
    BY <1>0
  <2>2. p <= q /\ q <= Len(s) /\ q - p = j - i
    BY <1>0, <2>1
  <2>3. /\ Slice(s, p, q) \in Seq(X) /\ Len(Slice(s, p, q)) = q - p
        /\ \A k \in 1..(q - p) : Slice(s, p, q)[k] = s[p + k]
    BY <2>2, SliceType, Zenon
  <2> QED BY <2>1, <2>2, <2>3, Zenon
<1> HIDE DEF l, w
<1>3. r \in Seq(X) /\ Len(r) = j - i /\ \A k \in 1..(j - i) : r[k] = l[i + k]
  BY <1>0, <1>1
<1> HIDE DEF r
<1>4. ASSUME NEW k \in 1..(j - i) PROVE r[k] = w[k]
  <2>1. i + k \in 1..(b - a) /\ a + (i + k) = (a + i) + k
    BY <1>0
  <2>2. r[k] = s[a + (i + k)]
    BY <1>1, <1>3, <2>1
  <2> QED BY <1>2, <2>1, <2>2
<1>5. r = w
  BY <1>0, <1>2, <1>3, <1>4, SeqEqual
<1> QED BY <1>5 DEF l, r, w, IsSub

LEMMA SliceAppend ==
  ASSUME NEW s, NEW a, NEW b, CanSlice(a, b, b)
  PROVE  Append(Slice(s, a, b), s[b + 1]) = Slice(s, a, b + 1)
<1> DEFINE l == Slice(s, a, b)  r == Append(l, s[b + 1])  w == Slice(s, a, b + 1)
<1>a. a \in Nat /\ b \in Nat /\ a <= b
  BY DEF CanSlice
<1>x. PICK X : X = Values(s)
  OBVIOUS
<1>1. l \in Seq(X) /\ Len(l) = b - a /\ \A k \in 1..(b - a) : l[k] = s[a + k]
  BY <1>a, <1>x, SliceValues, Zenon
<1>2. /\ w \in Seq(X) /\ Len(w) = b + 1 - a
      /\ \A k \in 1..(b + 1 - a) : w[k] = s[a + k]
  <2>1. PICK q \in Nat : q = b + 1
    BY <1>a
  <2>2. a <= q
    BY <1>a, <2>1
  <2>3. /\ Slice(s, a, q) \in Seq(X) /\ Len(Slice(s, a, q)) = q - a
        /\ \A k \in 1..(q - a) : Slice(s, a, q)[k] = s[a + k]
    <3>1. a \in Nat
      BY <1>a
    <3> QED BY <1>x, <2>2, <3>1, SliceValues, Zenon
  <2>4. q - a = b + 1 - a
    BY <1>a, <2>1
  <2> QED BY <2>1, <2>3, <2>4, Zenon
<1> HIDE DEF l, w
<1>3. s[b + 1] \in X
  <2>1. b + 1 \in Nat
    BY <1>a
  <2> QED BY <1>x, <2>1, Zenon DEF Values
<1>4. /\ r \in Seq(X) /\ Len(r) = b + 1 - a /\ \A k \in 1..(b - a) : r[k] = l[k]
      /\ r[b + 1 - a] = s[b + 1]
  BY <1>a, <1>1, <1>3
<1> HIDE DEF r
<1>5. ASSUME NEW k \in 1..(b + 1 - a) PROVE r[k] = w[k]
  <2>1. CASE k = b + 1 - a
    <3>1. a + k = b + 1 BY <1>a, <2>1
    <3> QED BY <1>a, <1>2, <1>4, <2>1, <3>1
  <2>2. CASE k # b + 1 - a
    BY <1>a, <1>1, <1>2, <1>4, <2>2
  <2> QED BY <2>1, <2>2
<1>6. r = w
  BY <1>a, <1>2, <1>4, <1>5, SeqEqual
<1> QED BY <1>6 DEF l, r, w

-----------------------------------------------------------------------------
(* What a run writes                                                       *)

LEMMA LargestMember ==
  ASSUME NEW n \in Nat, NEW S \in SUBSET (1..n), S # {}
  PROVE  Max(S) \in S /\ \A y \in S : y <= Max(S)
<1> DEFINE P == {m \in Nat : \A T \in SUBSET (1..m) : T # {} => \E x \in T : \A y \in T : x >= y}
<1>1. 0 \in P
  <2>1. ASSUME NEW T \in SUBSET (1..0) PROVE T = {}
    OBVIOUS
  <2> QED BY <2>1
<1>2. ASSUME NEW m \in Nat, m \in P PROVE m + 1 \in P
  <2>1. SUFFICES ASSUME NEW T \in SUBSET (1..(m + 1)), T # {}
                 PROVE  \E x \in T : \A y \in T : x >= y
    OBVIOUS
  <2>2. CASE m + 1 \in T
    <3>1. \A y \in T : m + 1 >= y
      OBVIOUS
    <3> QED BY <2>2, <3>1, Zenon
  <2>3. CASE m + 1 \notin T
    <3>1. \A y \in T : y \in 1..m
      BY <2>3
    <3>2. T \in SUBSET (1..m)
      BY <3>1
    <3> QED BY <1>2, <2>1, <3>2
  <2> QED BY <2>2, <2>3, Zenon
<1>3. Nat \subseteq P
  <2> HIDE DEF P
  <2> QED BY <1>1, <1>2, NatSetInduction
<1>4. \E x \in S : \A y \in S : x >= y
  BY <1>3
<1>5. Max(S) \in S /\ \A y \in S : Max(S) >= y
  BY <1>4, Zenon DEF Max
<1> QED BY <1>5, SMT

Cell == [text : Glyphs, hl : Highlights]

LikeCell(shown, meant) == shown.text = meant.text /\ (shown.hl = meant.hl \/ meant.hl = 0)

(* What is shown for a highlight is what is meant, or that is 0.           *)
LEMMA HighlightLike ==
  ASSUME NEW run \in Seq(RunCell), NEW i \in DOMAIN run
  PROVE  /\ Effective(run, i) \in Highlights
         /\ run[1].hl # Same => /\ Meant(run, i) \in Highlights
                                /\ Effective(run, i) = Meant(run, i) \/ Meant(run, i) = 0
<1> USE NvimScreenAssumption DEF NvimScreenAssumption
<1>1. Len(run) \in Nat /\ i \in 1..Len(run)
  OBVIOUS
<1>2. ASSUME NEW j \in 1..i PROVE run[j].hl \in Highlights \cup {Same}
  <2>1. run[j] \in RunCell
    BY <1>1
  <2> QED BY <2>1, Zenon DEF RunCell
<1>3. 0 \in Highlights
  BY Zenon
<1>4. ASSUME NEW k \in 1..i, {j \in 1..k : run[j].hl # Same} # {}
      PROVE  run[Max({j \in 1..k : run[j].hl # Same})].hl \in Highlights
  <2> DEFINE G == {j \in 1..k : run[j].hl # Same}
  <2>1. k \in Nat /\ G \in SUBSET (1..k)
    BY <1>1
  <2>2. Max(G) \in G
    BY <1>4, <2>1, LargestMember, Zenon
  <2>3. Max(G) \in 1..i
    BY <2>1, <2>2, <1>1
  <2> QED BY <1>2, <2>2, <2>3, Zenon
<1>5. ASSUME NEW k \in 1..i PROVE Decoded(run, k) \in Highlights
  BY <1>3, <1>4, <1>5, Zenon DEF Decoded
<1>6. Effective(run, i) \in Highlights
  <2> DEFINE C == {j \in 1..i : Decoded(run, j) # 0}
  <2>1. CASE C = {}
    BY <1>3, <2>1, Zenon DEF Effective
  <2>2. CASE C # {}
    <3>1. i \in Nat /\ C \in SUBSET (1..i)
      BY <1>1
    <3>2. Max(C) \in C
      BY <2>2, <3>1, LargestMember, Zenon
    <3> QED BY <1>5, <2>2, <3>2, Zenon DEF Effective
  <2> QED BY <2>1, <2>2, Zenon
<1>7. ASSUME run[1].hl # Same
      PROVE  /\ Meant(run, i) \in Highlights
             /\ Effective(run, i) = Meant(run, i) \/ Meant(run, i) = 0
  <2>1. 1 \in {j \in 1..i : run[j].hl # Same} /\ i \in 1..i
    BY <1>1, <1>7
  <2>2. Decoded(run, i) = Meant(run, i)
    BY <2>1, Zenon DEF Decoded, Meant
  <2>3. ASSUME Decoded(run, i) # 0 PROVE Effective(run, i) = Decoded(run, i)
    <3> DEFINE C == {j \in 1..i : Decoded(run, j) # 0}
    <3>1. i \in Nat /\ C \in SUBSET (1..i) /\ i \in C
      BY <1>1, <2>1, <2>3
    <3>2. Max(C) \in C /\ \A y \in C : y <= Max(C)
      BY <3>1, LargestMember, Zenon
    <3>3. Max(C) = i
      <4>1. PICK x : x = Max(C)
        OBVIOUS
      <4>2. x \in 1..i /\ i <= x
        BY <3>1, <3>2, <4>1, Zenon
      <4>3. x = i
        BY <4>2, <1>1
      <4> QED BY <4>1, <4>3
    <3> QED BY <3>1, <3>3, Zenon DEF Effective
  <2> QED BY <1>5, <2>1, <2>2, <2>3, Zenon
<1> QED BY <1>6, <1>7, Zenon

(* One run with two choices of highlights: as many cells, and each like    *)
(* the other.                                                              *)
LEMMA SpreadDefined ==
  ASSUME NEW run \in Seq(RunCell), NEW hls
  PROVE  \E upTo : /\ upTo = [i \in 0..Len(run) |-> IF i = 0 THEN <<>>
                        ELSE upTo[i - 1] \o [k \in 1..run[i].times |-> [text |-> run[i].text, hl |-> hls[i]]]]
                   /\ Spread(run, hls) = upTo[Len(run)]
<1> DEFINE n == Len(run)
           Block(i) == [k \in 1..run[i].times |-> [text |-> run[i].text, hl |-> hls[i]]]
           Is(f, m) == f = [i \in 0..m |-> IF i = 0 THEN <<>> ELSE f[i - 1] \o Block(i)]
           S == {m \in Nat : \E f : Is(f, m)}
<1> HIDE DEF Block
<1>1. 0 \in S
  <2>1. Is([i \in 0..0 |-> <<>>], 0)
    OBVIOUS
  <2> QED BY <2>1
<1>2. ASSUME NEW m \in Nat, m \in S PROVE m + 1 \in S
  <2>1. PICK f : Is(f, m)
    BY <1>2
  <2> DEFINE a == f[m] \o Block(m + 1)
             g == [i \in 0..(m + 1) |-> IF i = m + 1 THEN a ELSE f[i]]
  <2> HIDE DEF a
  <2>2. ASSUME NEW i \in 0..(m + 1) PROVE g[i] = IF i = 0 THEN <<>> ELSE g[i - 1] \o Block(i)
    <3>1. CASE i = 0
      BY <2>1, <3>1
    <3>2. CASE i \in 1..m
      <4>1. g[i] = f[i] /\ g[i - 1] = f[i - 1] /\ i # 0 /\ i \in 0..m
        BY <3>2
      <4>2. f[i] = f[i - 1] \o Block(i)
        BY <2>1, <4>1
      <4> QED BY <4>1, <4>2
    <3>3. CASE i = m + 1
      <4>1. g[i] = a /\ g[i - 1] = f[m] /\ i # 0
        BY <3>3
      <4> QED BY <3>3, <4>1 DEF a
    <3> QED BY <3>1, <3>2, <3>3
  <2> HIDE DEF g
  <2>3. g = [i \in 0..(m + 1) |-> g[i]]
    BY DEF g
  <2>4. Is(g, m + 1) /\ m + 1 \in Nat
    BY <2>2, <2>3
  <2> QED BY <2>4, Zenon
<1>3. Nat \subseteq S
  <2> HIDE DEF S
  <2> QED BY <1>1, <1>2, NatSetInduction
<1>4. n \in S
  <2>1. n \in Nat
    OBVIOUS
  <2> HIDE DEF n, S
  <2> QED BY <1>3, <2>1
<1>5. PICK f : Is(f, n)
  BY <1>4
<1> DEFINE u == CHOOSE upTo : Is(upTo, n)
<1>6. Is(u, n)
  BY <1>5, Zenon
<1>7. Spread(run, hls) = u[n]
  BY Zenon DEF Spread, Block
<1> HIDE DEF u
<1> QED BY <1>6, <1>7, Zenon DEF Block

LEMMA SpreadLike ==
  ASSUME NEW run \in Seq(RunCell), NEW hls, NEW meants,
         \A i \in DOMAIN run : /\ hls[i] \in Highlights /\ meants[i] \in Highlights
                               /\ hls[i] = meants[i] \/ meants[i] = 0,
         \A i \in DOMAIN run : run[i].text \in Glyphs
  PROVE  /\ Spread(run, hls) \in Seq(Cell) /\ Spread(run, meants) \in Seq(Cell)
         /\ Len(Spread(run, hls)) = Len(Spread(run, meants))
         /\ \A k \in 1..Len(Spread(run, hls)) : LikeCell(Spread(run, hls)[k], Spread(run, meants)[k])
<1> DEFINE n == Len(run)
           Block(x, i) == [k \in 1..run[i].times |-> [text |-> run[i].text, hl |-> x[i]]]
           Alike(s, t) == /\ s \in Seq(Cell) /\ t \in Seq(Cell) /\ Len(s) = Len(t)
                          /\ \A k \in 1..Len(s) : LikeCell(s[k], t[k])
<1>1. PICK u : /\ u = [i \in 0..n |-> IF i = 0 THEN <<>> ELSE u[i - 1] \o Block(hls, i)]
               /\ Spread(run, hls) = u[n]
  BY SpreadDefined
<1>2. PICK v : /\ v = [i \in 0..n |-> IF i = 0 THEN <<>> ELSE v[i - 1] \o Block(meants, i)]
               /\ Spread(run, meants) = v[n]
  BY SpreadDefined
<1>3. ASSUME NEW i \in 1..n PROVE Alike(Block(hls, i), Block(meants, i))
  <2>1. i \in DOMAIN run /\ run[i] \in RunCell
    BY <1>3
  <2>2. run[i].times \in Nat
    BY <2>1, Zenon DEF RunCell
  <2>3. PICK times \in Nat : times = run[i].times
    BY <2>2
  <2>4. PICK a \in Cell, b \in Cell : /\ a = [text |-> run[i].text, hl |-> hls[i]]
                                      /\ b = [text |-> run[i].text, hl |-> meants[i]]
    BY <2>1, Zenon DEF Cell
  <2>5. LikeCell(a, b)
    BY <2>1, <2>4 DEF LikeCell
  <2>6. Alike([k \in 1..times |-> a], [k \in 1..times |-> b])
    BY <2>5
  <2> QED BY <2>3, <2>4, <2>6, Zenon
<1> HIDE DEF Block
<1>4. ASSUME NEW s1, NEW t1, NEW s2, NEW t2, Alike(s1, t1), Alike(s2, t2)
      PROVE  Alike(s1 \o s2, t1 \o t2)
  <2>1. PICK l \in Nat, m \in Nat : Len(s1) = l /\ Len(t1) = l /\ Len(s2) = m /\ Len(t2) = m
    BY <1>4
  <2>a. s1 \in Seq(Cell) /\ s2 \in Seq(Cell) /\ t1 \in Seq(Cell) /\ t2 \in Seq(Cell)
    BY <1>4, Zenon
  <2>b. /\ s1 \o s2 \in Seq(Cell) /\ Len(s1 \o s2) = Len(s1) + Len(s2)
        /\ \A k \in 1..Len(s1) + Len(s2) :
             (s1 \o s2)[k] = IF k <= Len(s1) THEN s1[k] ELSE s2[k - Len(s1)]
    BY <2>a, ConcatProperties, Zenon
  <2>c. /\ t1 \o t2 \in Seq(Cell) /\ Len(t1 \o t2) = Len(t1) + Len(t2)
        /\ \A k \in 1..Len(t1) + Len(t2) :
             (t1 \o t2)[k] = IF k <= Len(t1) THEN t1[k] ELSE t2[k - Len(t1)]
    BY <2>a, ConcatProperties, Zenon
  <2>2. /\ s1 \o s2 \in Seq(Cell) /\ t1 \o t2 \in Seq(Cell)
        /\ Len(s1 \o s2) = l + m /\ Len(t1 \o t2) = l + m
    BY <2>1, <2>b, <2>c, Zenon
  <2>3. ASSUME NEW k \in 1..(l + m) PROVE LikeCell((s1 \o s2)[k], (t1 \o t2)[k])
    <3>1. /\ (s1 \o s2)[k] = IF k <= l THEN s1[k] ELSE s2[k - l]
          /\ (t1 \o t2)[k] = IF k <= l THEN t1[k] ELSE t2[k - l]
      BY <2>1, <2>b, <2>c, Zenon
    <3>2. CASE k <= l
      <4>1. k \in 1..l
        BY <3>2
      <4> QED BY <1>4, <2>1, <3>1, <3>2, <4>1, Zenon
    <3>3. CASE ~(k <= l)
      <4>1. k - l \in 1..m
        BY <3>3
      <4> QED BY <1>4, <2>1, <3>1, <3>3, <4>1, Zenon
    <3> QED BY <3>2, <3>3, Zenon
  <2> QED BY <2>2, <2>3, Zenon
<1>5. Alike(<<>>, <<>>)
  OBVIOUS
<1> HIDE DEF Alike
<1> DEFINE S == {i \in Nat : i <= n => Alike(u[i], v[i])}
<1>6. n \in Nat
  OBVIOUS
<1> HIDE DEF n
<1>7. 0 \in S
  BY <1>1, <1>2, <1>5, <1>6
<1>8. ASSUME NEW i \in Nat, i \in S PROVE i + 1 \in S
  <2>1. SUFFICES ASSUME i + 1 <= n PROVE Alike(u[i + 1], v[i + 1])
    OBVIOUS
  <2>2. i + 1 \in 1..n /\ i + 1 \in 0..n /\ i + 1 # 0 /\ (i + 1) - 1 = i /\ i <= n
    BY <1>6, <2>1
  <2>3. u[i + 1] = u[i] \o Block(hls, i + 1) /\ v[i + 1] = v[i] \o Block(meants, i + 1)
    BY <1>1, <1>2, <2>2
  <2>4. Alike(u[i], v[i])
    BY <1>8, <2>2
  <2> QED BY <1>3, <1>4, <2>2, <2>3, <2>4, Zenon
<1>9. Nat \subseteq S
  <2> HIDE DEF S
  <2> QED BY <1>7, <1>8, NatSetInduction
<1>10. Alike(u[n], v[n])
  BY <1>6, <1>9
<1> QED BY <1>1, <1>2, <1>10, Zenon DEF Alike

(* What nvim fills with, written as a run.                                 *)
LEMMA SpreadFill ==
  ASSUME NEW width \in Nat
  PROVE  LET run == <<[text |-> Fill, hl |-> 0, times |-> width]>> IN
           /\ run \in Seq(RunCell)
           /\ Spread(run, [i \in DOMAIN run |-> Effective(run, i)]) = [k \in 1..width |-> FillCell]
<1> DEFINE run == <<[text |-> Fill, hl |-> 0, times |-> width]>>
           hls == [i \in DOMAIN run |-> Effective(run, i)]
           blk == [k \in 1..run[1].times |-> [text |-> run[1].text, hl |-> hls[1]]]
<1>1. run \in Seq(RunCell)
  BY NvimScreenAssumption DEF NvimScreenAssumption, RunCell
<1>2. Effective(run, 1) = 0
  <2>1. \A j \in 1..1 : run[j].hl = 0
    OBVIOUS
  <2>2. PICK G \in SUBSET (1..1) : G = {j \in 1..1 : run[j].hl # Same}
    OBVIOUS
  <2>3. ASSUME G # {} PROVE Max(G) \in G
    BY <2>3, LargestMember, Zenon
  <2>4. Decoded(run, 1) = 0
    BY <2>1, <2>2, <2>3, Zenon DEF Decoded
  <2>5. \A j \in 1..1 : Decoded(run, j) = 0
    BY <2>4
  <2> QED BY <2>5, Zenon DEF Effective
<1>3. hls[1] = 0 /\ run[1].times = width /\ run[1].text = Fill /\ Len(run) = 1
  BY <1>2
<1>4. blk = [k \in 1..width |-> FillCell]
  BY <1>3, Zenon DEF FillCell
<1>5. PICK u : /\ u = [i \in 0..Len(run) |-> IF i = 0 THEN <<>>
                     ELSE u[i - 1] \o [k \in 1..run[i].times |-> [text |-> run[i].text, hl |-> hls[i]]]]
               /\ Spread(run, hls) = u[Len(run)]
  <2> HIDE DEF run, hls
  <2> QED BY <1>1, SpreadDefined
<1>6. u[0] = <<>> /\ u[1] = u[0] \o blk
  <2> HIDE DEF run, hls
  <2> QED BY <1>3, <1>5
<1>7. blk \in Seq({FillCell})
  BY <1>4
<1>8. Spread(run, hls) = blk
  <2> HIDE DEF run, hls, blk
  <2> QED BY <1>3, <1>5, <1>6, <1>7, ConcatEmptySeq
<1> QED BY <1>1, <1>4, <1>8, Zenon

-----------------------------------------------------------------------------
(* Grids                                                                   *)

Grids(w, h) == [1..h -> [1..w -> Cell]]
AnyGrid == Seq(Seq(Cell))

LEMMA GridShape ==
  ASSUME NEW w \in Nat \ {0}, NEW h \in Nat \ {0}, NEW g \in Grids(w, h)
  PROVE  /\ Height(g) = h /\ Width(g) = w /\ g \in AnyGrid /\ DOMAIN g = 1..h
         /\ \A r \in 1..h : /\ g[r] \in [1..w -> Cell] /\ DOMAIN g[r] = 1..w
                            /\ g[r] \in Seq(Cell) /\ Len(g[r]) = w
<1>1. ASSUME NEW r \in 1..h
      PROVE  /\ g[r] \in [1..w -> Cell] /\ DOMAIN g[r] = 1..w
             /\ g[r] \in Seq(Cell) /\ Len(g[r]) = w
  <2>1. PICK row : row = g[r] /\ row \in [1..w -> Cell]
    BY DEF Grids
  <2>2. row \in Seq(Cell) /\ Len(row) = w /\ DOMAIN row = 1..w
    BY <2>1
  <2> QED BY <2>1, <2>2, Zenon
<1>2. g \in [1..h -> Seq(Cell)]
  BY <1>1 DEF Grids
<1>3. g \in AnyGrid /\ Len(g) = h /\ g # <<>> /\ DOMAIN g = 1..h
  BY <1>2 DEF AnyGrid
<1>4. 1 \in 1..h
  OBVIOUS
<1> QED BY <1>1, <1>3, <1>4, Zenon DEF Height, Width

IsPut(put, w, h, g, row, col, cells) ==
  /\ put \in Grids(w, h)
  /\ \A r \in 1..h, c \in 1..w :
       put[r][c] = IF r = row + 1 /\ c \in (col + 1)..(col + Len(cells))
                   THEN cells[c - col] ELSE g[r][c]

LEMMA GridPut ==
  ASSUME NEW w \in Nat \ {0}, NEW h \in Nat \ {0}, NEW g \in Grids(w, h),
         NEW row \in Nat, row + 1 \in 1..h, NEW col \in Nat, NEW cells \in Seq(Cell)
  PROVE  IsPut([g EXCEPT ![row + 1] = Overwrite(@, col, cells)], w, h, g, row, col, cells)
<1> DEFINE new == Overwrite(g[row + 1], col, cells)
           put == [g EXCEPT ![row + 1] = new]
<1>1. g[row + 1] \in [1..w -> Cell] /\ DOMAIN g[row + 1] = 1..w
  BY DEF Grids
<1>2. new = [c \in 1..w |-> IF c \in (col + 1)..(col + Len(cells)) THEN cells[c - col] ELSE g[row + 1][c]]
  BY <1>1, Zenon DEF Overwrite
<1>3. ASSUME NEW c \in 1..w, c \in (col + 1)..(col + Len(cells)) PROVE cells[c - col] \in Cell
  <2>1. c - col \in 1..Len(cells)
    BY <1>3
  <2> QED BY <2>1
<1>4. new \in [1..w -> Cell]
  BY <1>1, <1>2, <1>3
<1> HIDE DEF new
<1>5. put \in Grids(w, h)
  BY <1>4 DEF Grids
<1>6. \A r \in 1..h : put[r] = IF r = row + 1 THEN new ELSE g[r]
  BY DEF Grids
<1>7. ASSUME NEW r \in 1..h, NEW c \in 1..w
      PROVE put[r][c] = IF r = row + 1 /\ c \in (col + 1)..(col + Len(cells))
                        THEN cells[c - col] ELSE g[r][c]
  <2> HIDE DEF put
  <2>1. CASE r = row + 1
    BY <1>2, <1>6, <2>1, Zenon
  <2>2. CASE r # row + 1
    BY <1>6, <2>2, Zenon
  <2> QED BY <2>1, <2>2, Zenon
<1> QED BY <1>5, <1>7, Zenon DEF new, IsPut

(* The same grid but for the highlights nvim meant as 0.                   *)
Like(shown, meant) ==
  \E w, h \in Nat \ {0} :
    /\ shown \in Grids(w, h) /\ meant \in Grids(w, h)
    /\ \A r \in 1..h, c \in 1..w : LikeCell(shown[r][c], meant[r][c])

LEMMA BlankType == BlankCell \in Cell /\ FillCell \in Cell
BY NvimScreenAssumption DEF NvimScreenAssumption, BlankCell, FillCell, Cell

LEMMA UniformGrid ==
  ASSUME NEW w \in Nat \ {0}, NEW h \in Nat \ {0}, NEW cell \in Cell
  PROVE  /\ Grid(w, h, cell) \in Grids(w, h)
         /\ \A r \in 1..h, c \in 1..w : Grid(w, h, cell)[r][c] = cell
BY Zenon DEF Grid, Grids

(* Row by row, a row that is copied has not been written yet.              *)
CanMove(h, e, n, order) ==
  /\ n \in Nat /\ order \in [1..n -> 0..(h - 1)]
  /\ e.rows \in Int /\ e.left \in Nat /\ e.right \in Nat
  /\ \A i \in 1..n : order[i] + e.rows \in 0..(h - 1)
  /\ \A i, j \in 1..n : j < i => order[j] # order[i] + e.rows

IsMoved(m, w, h, g, e, n, order) ==
  /\ m \in Grids(w, h)
  /\ \A r \in 1..h, c \in 1..w :
       m[r][c] = IF (\E j \in 1..n : order[j] = r - 1) /\ c \in (e.left + 1)..e.right
                 THEN g[r + e.rows][c] ELSE g[r][c]

LEMMA MovedGrid ==
  ASSUME NEW w \in Nat \ {0}, NEW h \in Nat \ {0}, NEW g \in Grids(w, h),
         NEW e, NEW n, NEW order, CanMove(h, e, n, order)
  PROVE  IsMoved(Moved(g, e, order), w, h, g, e, n, order)
<1> USE DEF CanMove
<1> DEFINE Copied(i, r) == \E j \in 1..i : order[j] = r - 1
           At(i) == [r \in 1..h |-> [c \in 1..w |->
                       IF Copied(i, r) /\ c \in (e.left + 1)..e.right THEN g[r + e.rows][c] ELSE g[r][c]]]
           Copy(x, i) == CopyRow(x, order[i], order[i] + e.rows, e.left, e.right)
<1>1. Len(order) = n
  BY LenProperties
<1>2. ASSUME NEW i \in 0..n, NEW r \in 1..h, Copied(i, r) PROVE r + e.rows \in 1..h
  <2>1. PICK j \in 1..i : order[j] = r - 1
    BY <1>2
  <2>2. j \in 1..n
    OBVIOUS
  <2>3. order[j] + e.rows \in 0..(h - 1)
    BY <2>2
  <2>4. PICK v \in Int, d \in Int : v = order[j] /\ d = e.rows
    BY <2>2
  <2>5. v = r - 1 /\ v + d \in 0..(h - 1)
    BY <2>1, <2>3, <2>4, Zenon
  <2>6. r + d \in 1..h
    BY <2>5
  <2> QED BY <2>4, <2>6, Zenon
<1>3. ASSUME NEW i \in 0..n PROVE At(i) \in Grids(w, h)
  <2> SUFFICES ASSUME NEW r \in 1..h, NEW c \in 1..w
               PROVE  (IF Copied(i, r) /\ c \in (e.left + 1)..e.right
                       THEN g[r + e.rows][c] ELSE g[r][c]) \in Cell
    BY Zenon DEF Grids
  <2>1. \A q \in 1..h : g[q][c] \in Cell
    BY DEF Grids
  <2> QED BY <1>2, <2>1, Zenon
<1>4. At(0) = g
  <2>1. \A r \in 1..h : ~Copied(0, r)
    OBVIOUS
  <2>2. \A r \in 1..h : [c \in 1..w |-> g[r][c]] = g[r]
    BY DEF Grids
  <2>3. At(0) = [r \in 1..h |-> g[r]]
    BY <2>1, <2>2, Zenon
  <2> QED BY <2>3 DEF Grids
<1>5. ASSUME NEW i \in 1..n PROVE At(i) = Copy(At(i - 1), i)
  <2> DEFINE x == At(i - 1)
  <2>1. PICK to \in 1..h, from \in 1..h : to = order[i] + 1 /\ from = (order[i] + e.rows) + 1
    <3>1. PICK p \in 0..(h - 1), q \in 0..(h - 1) : p = order[i] /\ q = order[i] + e.rows
      OBVIOUS
    <3>2. p + 1 \in 1..h /\ q + 1 \in 1..h
      OBVIOUS
    <3> QED BY <3>1, <3>2, Zenon
  <2>2. i - 1 \in 0..n /\ i \in 0..n
    OBVIOUS
  <2>3. x \in Grids(w, h)
    BY <1>3, <2>2
  <2>4. /\ DOMAIN x = 1..h
        /\ \A r \in 1..h : DOMAIN x[r] = 1..w /\ x[r] = [c \in 1..w |-> x[r][c]]
    <3> HIDE DEF x
    <3> QED BY <2>3 DEF Grids
  <2>5. \A r \in 1..h, c \in 1..w :
          x[r][c] = IF Copied(i - 1, r) /\ c \in (e.left + 1)..e.right THEN g[r + e.rows][c] ELSE g[r][c]
    BY Zenon
  <2> HIDE DEF x
  <2> DEFINE row == [c \in 1..w |-> IF c \in (e.left + 1)..e.right THEN x[from][c] ELSE x[to][c]]
  <2>6. Copy(x, i) = [x EXCEPT ![to] = row]
    <3>1. Copy(x, i) = [x EXCEPT ![to] = [c \in DOMAIN x[to] |->
             IF c \in (e.left + 1)..e.right /\ c \in DOMAIN x[from] THEN x[from][c] ELSE x[to][c]]]
      BY <2>1, <2>4, Zenon DEF CopyRow
    <3>2. [c \in DOMAIN x[to] |-> IF c \in (e.left + 1)..e.right /\ c \in DOMAIN x[from] THEN x[from][c] ELSE x[to][c]]
          = row
      BY <2>4, Zenon
    <3> QED BY <3>1, <3>2, Zenon
  <2>7. ~Copied(i - 1, from)
    <3>1. SUFFICES ASSUME NEW j \in 1..(i - 1), order[j] = from - 1 PROVE FALSE
      OBVIOUS
    <3>2. j \in 1..n /\ j < i
      OBVIOUS
    <3>3. order[i] + e.rows = from - 1
      <4>1. PICK v \in Int : v = order[i] + e.rows
        OBVIOUS
      <4>2. from = v + 1
        BY <2>1, <4>1, Zenon
      <4>3. v = from - 1
        BY <4>2
      <4> QED BY <4>1, <4>3, Zenon
    <3> QED BY <3>1, <3>2, <3>3
  <2>8. Copied(i, to)
    BY <2>1
  <2>9. ASSUME NEW r \in 1..h, r # to PROVE Copied(i, r) <=> Copied(i - 1, r)
    <3>1. order[i] # r - 1
      BY <2>1, <2>9
    <3>2. \A j : j \in 1..i <=> j \in 1..(i - 1) \/ j = i
      OBVIOUS
    <3> QED BY <3>1, <3>2, Zenon
  <2>10. to + e.rows = from
    <3>1. PICK p \in Int, d \in Int : p = order[i] /\ d = e.rows
      OBVIOUS
    <3>2. (p + 1) + d = (p + d) + 1
      OBVIOUS
    <3> QED BY <2>1, <3>1, <3>2, Zenon
  <2>11. row = At(i)[to]
    <3>1. At(i)[to] = [c \in 1..w |-> IF c \in (e.left + 1)..e.right THEN g[from][c] ELSE g[to][c]]
      BY <2>8, <2>10, Zenon
    <3>2. ASSUME NEW c \in 1..w
          PROVE (IF c \in (e.left + 1)..e.right THEN x[from][c] ELSE x[to][c])
                = IF c \in (e.left + 1)..e.right THEN g[from][c] ELSE g[to][c]
      BY <2>5, <2>7, Zenon
    <3> QED BY <3>1, <3>2, Zenon
  <2>12. ASSUME NEW r \in 1..h, r # to PROVE x[r] = At(i)[r]
    <3>1. At(i)[r] = [c \in 1..w |-> x[r][c]]
      BY <2>5, <2>9, <2>12, Zenon
    <3> QED BY <2>4, <3>1, Zenon
  <2>13. [x EXCEPT ![to] = row] = [r \in 1..h |-> At(i)[r]]
    <3> HIDE DEF row, At
    <3>1. [x EXCEPT ![to] = row] = [r \in 1..h |-> IF r = to THEN row ELSE x[r]]
      BY <2>4, Zenon
    <3> QED BY <2>11, <2>12, <3>1, Zenon
  <2>14. [r \in 1..h |-> At(i)[r]] = At(i)
    BY Zenon
  <2> QED BY <2>6, <2>13, <2>14, Zenon DEF x
<1> HIDE DEF Copied, At, Copy
<1> DEFINE f == [i \in 0..n |-> At(i)]
           Is(a) == a = [i \in 0..n |-> IF i = 0 THEN g ELSE Copy(a[i - 1], i)]
           after == CHOOSE a : Is(a)
<1>6. Is(f)
  <2>1. ASSUME NEW i \in 0..n PROVE f[i] = IF i = 0 THEN g ELSE Copy(f[i - 1], i)
    <3>1. CASE i = 0
      BY <1>4, <3>1
    <3>2. CASE i # 0
      <4>1. i \in 1..n /\ i - 1 \in 0..n
        BY <3>2
      <4> QED BY <1>5, <3>2, <4>1
    <3> QED BY <3>1, <3>2
  <2>2. f = [i \in 0..n |-> f[i]]
    OBVIOUS
  <2> HIDE DEF f
  <2> QED BY <2>1, <2>2, Zenon
<1>7. Is(after)
  <2> HIDE DEF Is, f
  <2> QED BY <1>6, Zenon
<1>8. Moved(g, e, order) = after[n]
  BY <1>1, Zenon DEF Moved, Copy
<1> HIDE DEF after
<1>9. after[n] = f[n]
  <2>1. \A i \in 0..n : /\ after[i] = IF i = 0 THEN g ELSE Copy(after[i - 1], i)
                        /\ f[i] = IF i = 0 THEN g ELSE Copy(f[i - 1], i)
    <3> HIDE DEF f
    <3> QED BY <1>6, <1>7, Zenon
  <2> HIDE DEF f
  <2>3. after[0] = f[0]
    BY <2>1
  <2>4. ASSUME NEW i \in 1..n, after[i - 1] = f[i - 1] PROVE after[i] = f[i]
    <3>1. i \in 0..n /\ i # 0
      OBVIOUS
    <3> QED BY <2>1, <2>4, <3>1, Zenon
  <2>5. \A i \in 1..n : after[i - 1] = f[i - 1] => after[i] = f[i]
    BY <2>4, Zenon
  <2>6. InStep(n, after, f)
    BY <2>3, <2>5, Zenon DEF InStep
  <2>7. \A i \in 0..n : after[i] = f[i]
    BY <2>6, SameSteps, SMT
  <2> QED BY <2>7
<1>10. Moved(g, e, order) = At(n) /\ n \in 0..n
  BY <1>8, <1>9
<1>11. At(n) \in Grids(w, h)
  BY <1>3, <1>10, Zenon
<1>12. \A r \in 1..h, c \in 1..w :
         At(n)[r][c] = IF (\E j \in 1..n : order[j] = r - 1) /\ c \in (e.left + 1)..e.right
                       THEN g[r + e.rows][c] ELSE g[r][c]
  BY Zenon DEF At, Copied
<1> HIDE DEF CanMove
<1> QED BY <1>10, <1>11, <1>12, Zenon DEF IsMoved

IsBlanked(b, w, h, g, e, rows) ==
  /\ b \in Grids(w, h)
  /\ \A r \in 1..h, c \in 1..w :
       b[r][c] = IF r - 1 \in rows /\ c \in (e.left + 1)..e.right THEN BlankCell ELSE g[r][c]

LEMMA BlankedGrid ==
  ASSUME NEW w \in Nat \ {0}, NEW h \in Nat \ {0}, NEW g \in Grids(w, h), NEW e, NEW rows
  PROVE  IsBlanked(Blanked(g, e, rows), w, h, g, e, rows)
<1>1. DOMAIN g = 1..h /\ \A r \in 1..h : g[r] \in [1..w -> Cell] /\ DOMAIN g[r] = 1..w
  BY DEF Grids
<1>2. Blanked(g, e, rows) = [r \in 1..h |-> IF r - 1 \notin rows THEN g[r]
        ELSE [c \in 1..w |-> IF c \in (e.left + 1)..e.right THEN BlankCell ELSE g[r][c]]]
  BY <1>1, Zenon DEF Blanked
<1>3. ASSUME NEW r \in 1..h
      PROVE  /\ Blanked(g, e, rows)[r] \in [1..w -> Cell]
             /\ \A c \in 1..w : Blanked(g, e, rows)[r][c] =
                  IF r - 1 \in rows /\ c \in (e.left + 1)..e.right THEN BlankCell ELSE g[r][c]
  <2>1. CASE r - 1 \notin rows
    BY <1>1, <1>2, <2>1, Zenon
  <2>2. CASE r - 1 \in rows
    <3>1. Blanked(g, e, rows)[r] =
            [c \in 1..w |-> IF c \in (e.left + 1)..e.right THEN BlankCell ELSE g[r][c]]
      BY <1>2, <2>2, Zenon
    <3>2. \A c \in 1..w : g[r][c] \in Cell
      BY <1>1
    <3> QED BY <2>2, <3>1, <3>2, BlankType, Zenon
  <2> QED BY <2>1, <2>2, Zenon
<1>4. Blanked(g, e, rows) \in Grids(w, h)
  <2>1. Blanked(g, e, rows) = [r \in 1..h |-> Blanked(g, e, rows)[r]]
    BY <1>2, Zenon
  <2> QED BY <1>3, <2>1, Zenon DEF Grids
<1> QED BY <1>3, <1>4, Zenon DEF IsBlanked

(* A scroll moves the rows of its region and blanks those it leaves.       *)
CanScroll(h, e) ==
  /\ e.top \in Nat /\ e.bot \in Nat /\ e.left \in Nat /\ e.right \in Nat /\ e.rows \in Int
  /\ e.top < e.bot /\ e.bot <= h
  /\ e.rows # 0 /\ e.rows < e.bot - e.top /\ -e.rows < e.bot - e.top

IsScrolled(s, w, h, g, e) ==
  /\ s \in Grids(w, h)
  /\ \A r \in 1..h, c \in 1..w :
       s[r][c] = IF r \notin (e.top + 1)..e.bot \/ c \notin (e.left + 1)..e.right THEN g[r][c]
                 ELSE IF r + e.rows \in (e.top + 1)..e.bot THEN g[r + e.rows][c] ELSE BlankCell

LEMMA ScrolledGrid ==
  ASSUME NEW w \in Nat \ {0}, NEW h \in Nat \ {0}, NEW g \in Grids(w, h), NEW e, CanScroll(h, e)
  PROVE  IsScrolled(Scrolled(g, e), w, h, g, e)
<1>0. /\ e.top \in Nat /\ e.bot \in Nat /\ e.left \in Nat /\ e.right \in Nat /\ e.rows \in Int
      /\ e.top < e.bot /\ e.bot <= h
      /\ e.rows # 0 /\ e.rows < e.bot - e.top /\ -e.rows < e.bot - e.top
  BY Zenon DEF CanScroll
<1>1. PICK top \in Nat, bot \in Nat, rows \in Int : top = e.top /\ bot = e.bot /\ rows = e.rows
  BY <1>0
<1>2. top < bot /\ bot <= h /\ rows # 0 /\ rows < bot - top /\ -rows < bot - top
  BY <1>0, <1>1
<1> DEFINE Columns == (e.left + 1)..e.right
           Result(s) == /\ s \in Grids(w, h)
                        /\ \A r \in 1..h, c \in 1..w :
                             s[r][c] = IF r \notin (top + 1)..bot \/ c \notin Columns THEN g[r][c]
                                       ELSE IF r + rows \in (top + 1)..bot THEN g[r + rows][c] ELSE BlankCell
<1>3. ASSUME NEW n \in Nat, NEW order \in [1..n -> 0..(h - 1)], NEW left,
             \A i \in 1..n : order[i] + rows \in 0..(h - 1),
             \A i, j \in 1..n : j < i => order[j] # order[i] + rows,
             \A r \in 1..h : (\E j \in 1..n : order[j] = r - 1)
                               <=> r \in (top + 1)..bot /\ r + rows \in (top + 1)..bot,
             \A r \in 1..h : r - 1 \in left <=> r \in (top + 1)..bot /\ r + rows \notin (top + 1)..bot
      PROVE  Result(Blanked(Moved(g, e, order), e, left))
  <2> DEFINE m == Moved(g, e, order)  s == Blanked(m, e, left)
  <2>1. IsMoved(m, w, h, g, e, n, order)
    <3>1. CanMove(h, e, n, order)
      BY <1>0, <1>1, <1>3, Zenon DEF CanMove
    <3> QED BY <3>1, MovedGrid, Zenon
  <2>a. m \in Grids(w, h)
    BY <2>1, Zenon DEF IsMoved
  <2> HIDE DEF m
  <2>2. IsBlanked(s, w, h, m, e, left)
    BY <2>a, BlankedGrid, Zenon
  <2> HIDE DEF s
  <2>3. ASSUME NEW r \in 1..h, NEW c \in 1..w
        PROVE  s[r][c] = IF r \notin (top + 1)..bot \/ c \notin Columns THEN g[r][c]
                         ELSE IF r + rows \in (top + 1)..bot THEN g[r + rows][c] ELSE BlankCell
    <3>1. s[r][c] = IF r - 1 \in left /\ c \in Columns THEN BlankCell
                    ELSE IF (\E j \in 1..n : order[j] = r - 1) /\ c \in Columns
                         THEN g[r + rows][c] ELSE g[r][c]
      <4>1. s[r][c] = IF r - 1 \in left /\ c \in Columns THEN BlankCell ELSE m[r][c]
        BY <1>1, <2>2, Zenon DEF IsBlanked
      <4>2. m[r][c] = IF (\E j \in 1..n : order[j] = r - 1) /\ c \in Columns
                      THEN g[r + rows][c] ELSE g[r][c]
        BY <1>1, <2>1, Zenon DEF IsMoved
      <4> QED BY <4>1, <4>2, Zenon
    <3> HIDE DEF Columns
    <3> QED BY <1>3, <3>1, Zenon
  <2>4. s \in Grids(w, h)
    BY <2>2, Zenon DEF IsBlanked
  <2> QED BY <2>3, <2>4, Zenon DEF s, m
<1> HIDE DEF Result
<1>4. CASE rows > 0
  <2> DEFINE n == bot - top - rows
             order == [i \in 1..n |-> top + i - 1]
             left == (bot - rows)..(bot - 1)
  <2>1. n \in Nat /\ order \in [1..n -> 0..(h - 1)] /\ \A i \in 1..n : order[i] + rows \in 0..(h - 1)
    BY <1>2, <1>4
  <2>2. \A i, j \in 1..n : j < i => order[j] # order[i] + rows
    BY <1>2, <1>4
  <2>3. ASSUME NEW r \in 1..h
        PROVE  (\E j \in 1..n : order[j] = r - 1) <=> r \in (top + 1)..bot /\ r + rows \in (top + 1)..bot
    <3>1. ASSUME NEW j \in 1..n, order[j] = r - 1 PROVE r \in (top + 1)..bot /\ r + rows \in (top + 1)..bot
      BY <1>2, <1>4, <3>1
    <3>2. ASSUME r \in (top + 1)..bot, r + rows \in (top + 1)..bot PROVE \E j \in 1..n : order[j] = r - 1
      <4>1. r - top \in 1..n /\ order[r - top] = r - 1
        BY <1>2, <1>4, <3>2
      <4> QED BY <4>1, Zenon
    <3> QED BY <3>1, <3>2, Zenon
  <2>4. \A r \in 1..h : r - 1 \in left <=> r \in (top + 1)..bot /\ r + rows \notin (top + 1)..bot
    BY <1>2, <1>4
  <2>5. Scrolled(g, e) = Blanked(Moved(g, e, order), e, left)
    <3>1. e.rows > 0 BY <1>1, <1>4
    <3> QED BY <1>1, <3>1, Zenon DEF Scrolled
  <2> HIDE DEF n, order, left
  <2>6. Result(Blanked(Moved(g, e, order), e, left))
    BY <1>3, <2>1, <2>2, <2>3, <2>4, Zenon
  <2> QED BY <1>1, <2>5, <2>6, Zenon DEF Result, IsScrolled
<1>5. CASE ~(rows > 0)
  <2> DEFINE n == bot - top + rows
             order == [i \in 1..n |-> bot - i]
             left == top..(top - rows - 1)
  <2>1. n \in Nat /\ order \in [1..n -> 0..(h - 1)] /\ \A i \in 1..n : order[i] + rows \in 0..(h - 1)
    BY <1>2, <1>5
  <2>2. \A i, j \in 1..n : j < i => order[j] # order[i] + rows
    BY <1>2, <1>5
  <2>3. ASSUME NEW r \in 1..h
        PROVE  (\E j \in 1..n : order[j] = r - 1) <=> r \in (top + 1)..bot /\ r + rows \in (top + 1)..bot
    <3>1. ASSUME NEW j \in 1..n, order[j] = r - 1 PROVE r \in (top + 1)..bot /\ r + rows \in (top + 1)..bot
      BY <1>2, <1>5, <3>1
    <3>2. ASSUME r \in (top + 1)..bot, r + rows \in (top + 1)..bot PROVE \E j \in 1..n : order[j] = r - 1
      <4>1. bot - r + 1 \in 1..n /\ order[bot - r + 1] = r - 1
        BY <1>2, <1>5, <3>2
      <4> QED BY <4>1, Zenon
    <3> QED BY <3>1, <3>2, Zenon
  <2>4. \A r \in 1..h : r - 1 \in left <=> r \in (top + 1)..bot /\ r + rows \notin (top + 1)..bot
    BY <1>2, <1>5
  <2>5. Scrolled(g, e) = Blanked(Moved(g, e, order), e, left)
    <3>1. ~(e.rows > 0) BY <1>1, <1>5
    <3> QED BY <1>1, <3>1, Zenon DEF Scrolled
  <2> HIDE DEF n, order, left
  <2>6. Result(Blanked(Moved(g, e, order), e, left))
    BY <1>3, <2>1, <2>2, <2>3, <2>4, Zenon
  <2> QED BY <1>1, <2>5, <2>6, Zenon DEF Result, IsScrolled
<1> QED BY <1>4, <1>5, Zenon

(* Events that take one grid to another.                                   *)
Replays(at, g, events) == at[0] = g /\ \A i \in 1..Len(events) : at[i] = Apply(at[i - 1], events[i])
Redraws(g, events, result) == \E at : Replays(at, g, events) /\ at[Len(events)] = result

LEMMA RedrawOne ==
  ASSUME NEW g, NEW e
  PROVE  Redraws(g, <<e>>, Apply(g, e))
<1> DEFINE at == [i \in 0..1 |-> IF i = 0 THEN g ELSE Apply(g, e)]
<1>1. Len(<<e>>) = 1 /\ <<e>>[1] = e
  OBVIOUS
<1>2. at[0] = g /\ at[1] = Apply(g, e)
  OBVIOUS
<1> HIDE DEF at
<1>3. ASSUME NEW i \in 1..1 PROVE at[i] = Apply(at[i - 1], <<e>>[i])
  <2>1. i = 1 /\ i - 1 = 0
    OBVIOUS
  <2> QED BY <1>1, <1>2, <2>1
<1> QED BY <1>1, <1>2, <1>3, Zenon DEF Redraws, Replays

LEMMA RedrawMore ==
  ASSUME NEW g, NEW e, NEW X, e \in X, NEW events \in Seq(X), NEW result,
         Redraws(Apply(g, e), events, result)
  PROVE  Redraws(g, <<e>> \o events, result)
<1>1. PICK at : Replays(at, Apply(g, e), events) /\ at[Len(events)] = result
  BY DEF Redraws
<1> DEFINE n == Len(events)
           all == <<e>> \o events
           more == [i \in 0..(n + 1) |-> IF i = 0 THEN g ELSE at[i - 1]]
<1>2. /\ n \in Nat /\ Len(all) = n + 1 /\ all[1] = e
      /\ \A i \in 1..(n + 1) : i # 1 => all[i] = events[i - 1]
  OBVIOUS
<1> HIDE DEF n, all
<1>3. more[0] = g /\ \A i \in 1..(n + 1) : more[i] = at[i - 1]
  BY <1>2
<1> HIDE DEF more
<1>4. ASSUME NEW i \in 1..(n + 1) PROVE more[i] = Apply(more[i - 1], all[i])
  <2>1. CASE i = 1
    <3>1. i - 1 = 0
      BY <2>1
    <3>2. more[i] = at[0]
      BY <1>3, <3>1
    <3> QED BY <1>1, <1>2, <1>3, <2>1, <3>1, <3>2, Zenon DEF Replays
  <2>2. CASE i # 1
    <3>1. PICK j \in 1..n : j = i - 1
      BY <1>2, <2>2
    <3>2. more[i] = at[j] /\ more[j] = at[j - 1] /\ all[i] = events[j]
      <4>1. j \in 1..(n + 1)
        BY <1>2, <3>1
      <4> QED BY <1>2, <1>3, <2>2, <3>1, <4>1, Zenon
    <3>3. at[j] = Apply(at[j - 1], events[j])
      BY <1>1, Zenon DEF Replays, n
    <3> QED BY <3>1, <3>2, <3>3, Zenon
  <2> QED BY <2>1, <2>2, Zenon
<1>5. more[n + 1] = at[n]
  <2>1. n + 1 \in 1..(n + 1) /\ (n + 1) - 1 = n
    BY <1>2
  <2> QED BY <1>3, <2>1
<1> QED BY <1>1, <1>2, <1>3, <1>4, <1>5, Zenon DEF Redraws, Replays, n, all

IsFilled(b, w, h, g, first, count, col, width) ==
  /\ b \in Grids(w, h)
  /\ \A r \in 1..h, c \in 1..w :
       b[r][c] = IF r \in (first + 1)..(first + count) /\ c \in (col + 1)..(col + width)
                 THEN FillCell ELSE g[r][c]

(* One line of fill.                                                       *)
LEMMA FilledLine ==
  ASSUME NEW w \in Nat \ {0}, NEW h \in Nat \ {0}, NEW g \in Grids(w, h),
         NEW row \in Nat, row + 1 \in 1..h, NEW col \in Nat, NEW width \in Nat
  PROVE  IsFilled(Lined(g, row, col, <<[text |-> Fill, hl |-> 0, times |-> width]>>), w, h, g, row, 1, col, width)
<1> DEFINE run == <<[text |-> Fill, hl |-> 0, times |-> width]>>
           cells == [k \in 1..width |-> FillCell]
           put == [g EXCEPT ![row + 1] = Overwrite(@, col, cells)]
<1>1. Spread(run, [i \in DOMAIN run |-> Effective(run, i)]) = cells
  BY SpreadFill, Zenon
<1>2. cells \in Seq(Cell) /\ Len(cells) = width
  BY BlankType
<1>3. DOMAIN g = 1..h
  BY DEF Grids
<1> HIDE DEF run
<1>4. Lined(g, row, col, run) = put
  BY <1>1, <1>3, Zenon DEF Lined
<1>5. \A c \in (col + 1)..(col + width) : cells[c - col] = FillCell
  OBVIOUS
<1> HIDE DEF cells
<1>6. IsPut(put, w, h, g, row, col, cells)
  BY <1>2, GridPut, Zenon
<1> HIDE DEF put
<1>7. \A r \in 1..h : r = row + 1 <=> r \in (row + 1)..(row + 1)
  OBVIOUS
<1>8. IsFilled(put, w, h, g, row, 1, col, width)
  BY <1>2, <1>5, <1>6, <1>7, Zenon DEF IsFilled, IsPut
<1> QED BY <1>4, <1>8, Zenon DEF run

LEMMA ApplyLine ==
  ASSUME NEW g, NEW row, NEW col, NEW run
  PROVE  Apply(g, Line(row, col, run)) = Lined(g, row, col, run)
BY DEF Apply, Line

(* All of them.                                                            *)
LEMMA FilledGrid ==
  ASSUME NEW w \in Nat \ {0}, NEW h \in Nat \ {0}, NEW g \in Grids(w, h),
         NEW first \in Nat, NEW count \in Nat, first + count <= h,
         NEW col \in Nat, NEW width \in Nat
  PROVE  \E result : /\ Redraws(g, Filled(first, count, col, width), result)
                     /\ IsFilled(result, w, h, g, first, count, col, width)
<1> DEFINE events == Filled(first, count, col, width)
           At(i) == [r \in 1..h |-> [c \in 1..w |->
                       IF r \in (first + 1)..(first + i) /\ c \in (col + 1)..(col + width)
                       THEN FillCell ELSE g[r][c]]]
           run == <<[text |-> Fill, hl |-> 0, times |-> width]>>
           at == [i \in 0..count |-> At(i)]
<1> HIDE DEF run
<1>1. Len(events) = count /\ \A i \in 1..count : events[i] = Line(first + i - 1, col, run)
  BY DEF Filled, run
<1> HIDE DEF events
<1>2. ASSUME NEW i \in 0..count PROVE IsFilled(At(i), w, h, g, first, i, col, width)
  <2>1. \A r \in 1..h, c \in 1..w : g[r][c] \in Cell
    BY DEF Grids
  <2>2. At(i) \in Grids(w, h)
    BY <2>1, BlankType, Zenon DEF Grids
  <2>3. \A r \in 1..h, c \in 1..w :
          At(i)[r][c] = IF r \in (first + 1)..(first + i) /\ c \in (col + 1)..(col + width)
                        THEN FillCell ELSE g[r][c]
    BY Zenon
  <2> HIDE DEF At
  <2> QED BY <2>2, <2>3, Zenon DEF IsFilled
<1>3. At(0) = g
  <2>1. \A r : r \notin (first + 1)..(first + 0)
    OBVIOUS
  <2>2. \A r \in 1..h : [c \in 1..w |-> g[r][c]] = g[r]
    BY DEF Grids
  <2>3. At(0) = [r \in 1..h |-> g[r]]
    BY <2>1, <2>2, Zenon
  <2> QED BY <2>3 DEF Grids
<1>4. \A i \in 0..count : At(i) = [r \in 1..h |-> [c \in 1..w |-> At(i)[r][c]]]
  BY Zenon
<1> HIDE DEF At
<1>5. ASSUME NEW i \in 1..count PROVE At(i) = Apply(At(i - 1), events[i])
  <2>1. PICK row \in Nat : row = first + i - 1
    OBVIOUS
  <2>2. i - 1 \in 0..count /\ i \in 0..count /\ row + 1 \in 1..h
    BY <2>1
  <2> DEFINE x == At(i - 1)  y == Lined(x, row, col, run)
  <2>3. IsFilled(x, w, h, g, first, i - 1, col, width)
    BY <1>2, <2>2, Zenon
  <2>4. x \in Grids(w, h)
    BY <2>3, Zenon DEF IsFilled
  <2> HIDE DEF x
  <2>5. IsFilled(y, w, h, x, row, 1, col, width)
    BY <2>2, <2>4, FilledLine, Zenon DEF run
  <2>6. y = Apply(x, events[i])
    BY <1>1, <2>1, ApplyLine, Zenon
  <2> HIDE DEF y
  <2>7. ASSUME NEW r \in 1..h, NEW c \in 1..w PROVE y[r][c] = At(i)[r][c]
    <3>1. r \in (first + 1)..(first + i) <=> r \in (first + 1)..(first + (i - 1)) \/ r \in (row + 1)..(row + 1)
      BY <2>1
    <3>2. x[r][c] = IF r \in (first + 1)..(first + (i - 1)) /\ c \in (col + 1)..(col + width)
                    THEN FillCell ELSE g[r][c]
      BY <2>3, Zenon DEF IsFilled
    <3>3. y[r][c] = IF r \in (row + 1)..(row + 1) /\ c \in (col + 1)..(col + width)
                    THEN FillCell ELSE x[r][c]
      BY <2>5, Zenon DEF IsFilled
    <3>4. At(i)[r][c] = IF r \in (first + 1)..(first + i) /\ c \in (col + 1)..(col + width)
                        THEN FillCell ELSE g[r][c]
      BY <1>2, <2>2, Zenon DEF IsFilled
    <3> QED BY <3>1, <3>2, <3>3, <3>4, Zenon
  <2>8. y = [r \in 1..h |-> [c \in 1..w |-> y[r][c]]]
    <3>1. y \in Grids(w, h)
      BY <2>5, Zenon DEF IsFilled
    <3> QED BY <3>1 DEF Grids
  <2>9. [r \in 1..h |-> [c \in 1..w |-> y[r][c]]] = [r \in 1..h |-> [c \in 1..w |-> At(i)[r][c]]]
    BY <2>7, Zenon
  <2>10. At(i) = [r \in 1..h |-> [c \in 1..w |-> At(i)[r][c]]]
    BY <1>4, <2>2, Zenon
  <2>11. y = At(i)
    BY <2>8, <2>9, <2>10, Zenon
  <2> QED BY <2>6, <2>11, Zenon DEF x
<1>6. ASSUME NEW i \in 1..count PROVE at[i] = Apply(at[i - 1], events[i])
  <2>1. i \in 0..count /\ i - 1 \in 0..count
    OBVIOUS
  <2> QED BY <1>5, <2>1, Zenon
<1>7. at[0] = g /\ at[count] = At(count) /\ count \in 0..count
  BY <1>3
<1> HIDE DEF at
<1>8. Redraws(g, events, At(count))
  BY <1>1, <1>6, <1>7, Zenon DEF Redraws, Replays
<1> QED BY <1>2, <1>7, <1>8, Zenon DEF events

LEMMA ApplyOthers ==
  ASSUME NEW g
  PROVE  /\ \A size : Apply(g, [type |-> "resize", size |-> size]) = Resized(g, size)
         /\ Apply(g, [type |-> "clear"]) = Grid(Width(g), Height(g), BlankCell)
         /\ \A e : e.type = "scroll" => Apply(g, e) = Scrolled(g, e)
         /\ \A e : e.type = "flush" => Apply(g, e) = g
BY DEF Apply

-----------------------------------------------------------------------------
(* What nvim draws, the program draws likewise                             *)

DrawEvent == {e \in Event : e.type # "flush"}
Drawn(g, events, s) == events \in Seq(DrawEvent) /\ \E g2 : Redraws(g, events, g2) /\ Like(g2, s)

LEMMA LineType ==
  ASSUME NEW row \in Nat, NEW col \in Nat, NEW run \in Seq(RunCell)
  PROVE  Line(row, col, run) \in DrawEvent
BY Zenon DEF Line, DrawEvent, Event

LEMMA FilledType ==
  ASSUME NEW first \in Nat, NEW count \in Nat, NEW col \in Nat, NEW width \in Nat
  PROVE  Filled(first, count, col, width) \in Seq(DrawEvent)
<1> DEFINE run == <<[text |-> Fill, hl |-> 0, times |-> width]>>
<1>1. run \in Seq(RunCell)
  BY SpreadFill
<1> HIDE DEF run
<1>2. ASSUME NEW i \in 1..count PROVE Line(first + i - 1, col, run) \in DrawEvent
  <2>1. PICK row \in Nat : row = first + i - 1
    OBVIOUS
  <2> QED BY <1>1, <2>1, LineType, Zenon
<1>3. Filled(first, count, col, width) = [i \in 1..count |-> Line(first + i - 1, col, run)]
  BY Zenon DEF Filled, run
<1> QED BY <1>2, <1>3

LEMMA DrawnLine ==
  ASSUME NEW g, NEW s, Like(g, s), NEW row \in Nat, NEW col \in Nat, row + 1 \in DOMAIN s,
         NEW run \in Runs
  PROVE  Drawn(g, <<Line(row, col, run)>>, [s EXCEPT ![row + 1] = Overwrite(@, col, Written(run))])
<1>1. PICK w \in Nat \ {0}, h \in Nat \ {0} :
        /\ g \in Grids(w, h) /\ s \in Grids(w, h)
        /\ \A r \in 1..h, c \in 1..w : LikeCell(g[r][c], s[r][c])
  BY Zenon DEF Like
<1> DEFINE hls == [i \in DOMAIN run |-> Effective(run, i)]
           meants == [i \in DOMAIN run |-> Meant(run, i)]
           shown == Spread(run, hls)
           meant == Spread(run, meants)
           g2 == [g EXCEPT ![row + 1] = Overwrite(@, col, shown)]
           s2 == [s EXCEPT ![row + 1] = Overwrite(@, col, meant)]
<1>2. run \in Seq(RunCell) /\ run[1].hl # Same
  BY NvimScreenAssumption, Zenon DEF NvimScreenAssumption
<1>3. \A i \in DOMAIN run : run[i].text \in Glyphs
  <2>1. \A i \in DOMAIN run : run[i] \in RunCell
    BY <1>2
  <2> QED BY <2>1, Zenon DEF RunCell
<1>4. \A i \in DOMAIN run : /\ hls[i] \in Highlights /\ meants[i] \in Highlights
                            /\ hls[i] = meants[i] \/ meants[i] = 0
  BY <1>2, HighlightLike, Zenon
<1> HIDE DEF hls, meants
<1>5. /\ shown \in Seq(Cell) /\ meant \in Seq(Cell) /\ Len(shown) = Len(meant)
      /\ \A k \in 1..Len(shown) : LikeCell(shown[k], meant[k])
  BY <1>2, <1>3, <1>4, SpreadLike, Zenon
<1>6. Written(run) = meant
  BY Zenon DEF Written, meants
<1>7. row + 1 \in 1..h /\ DOMAIN g = 1..h
  BY <1>1 DEF Grids
<1>8. Lined(g, row, col, run) = g2
  BY <1>7, Zenon DEF Lined, hls
<1> HIDE DEF shown, meant
<1>9. IsPut(g2, w, h, g, row, col, shown) /\ IsPut(s2, w, h, s, row, col, meant)
  BY <1>1, <1>5, <1>7, GridPut, Zenon
<1> HIDE DEF g2, s2
<1>10. ASSUME NEW r \in 1..h, NEW c \in 1..w PROVE LikeCell(g2[r][c], s2[r][c])
  <2>1. PICK n \in Nat : n = Len(shown) /\ n = Len(meant)
    BY <1>5
  <2>2. CASE r = row + 1 /\ c \in (col + 1)..(col + n)
    <3>1. c - col \in 1..n
      BY <2>2
    <3>2. g2[r][c] = shown[c - col] /\ s2[r][c] = meant[c - col]
      BY <1>9, <2>1, <2>2, Zenon DEF IsPut
    <3> QED BY <1>5, <2>1, <3>1, <3>2, Zenon
  <2>3. CASE ~(r = row + 1 /\ c \in (col + 1)..(col + n))
    <3>2. g2[r][c] = g[r][c] /\ s2[r][c] = s[r][c]
      BY <1>9, <2>1, <2>3, Zenon DEF IsPut
    <3> QED BY <1>1, <3>2, Zenon
  <2> QED BY <2>2, <2>3, Zenon
<1>11. Like(g2, s2)
  <2>1. g2 \in Grids(w, h) /\ s2 \in Grids(w, h)
    BY <1>9, Zenon DEF IsPut
  <2> QED BY <1>10, <2>1, Zenon DEF Like
<1>12. Redraws(g, <<Line(row, col, run)>>, g2)
  BY <1>8, RedrawOne, ApplyLine, Zenon
<1>13. <<Line(row, col, run)>> \in Seq(DrawEvent)
  BY <1>2, LineType
<1> QED BY <1>6, <1>11, <1>12, <1>13, Zenon DEF Drawn, s2

LEMMA DrawnClear ==
  ASSUME NEW g, NEW s, Like(g, s)
  PROVE  Drawn(g, <<[type |-> "clear"]>>, Grid(Width(s), Height(s), BlankCell))
<1>1. PICK w \in Nat \ {0}, h \in Nat \ {0} : g \in Grids(w, h) /\ s \in Grids(w, h)
  BY Zenon DEF Like
<1> DEFINE new == Grid(w, h, BlankCell)
<1>2. Height(g) = h /\ Width(g) = w /\ Height(s) = h /\ Width(s) = w
  BY <1>1, GridShape, Zenon
<1>3. new \in Grids(w, h)
  BY UniformGrid, BlankType, Zenon
<1>4. Redraws(g, <<[type |-> "clear"]>>, new)
  <2>1. Apply(g, [type |-> "clear"]) = new
    BY <1>2, ApplyOthers, Zenon
  <2> HIDE DEF new
  <2> QED BY <2>1, RedrawOne, Zenon
<1>5. Like(new, new)
  BY <1>1, <1>3, Zenon DEF Like, LikeCell
<1>6. <<[type |-> "clear"]>> \in Seq(DrawEvent)
  BY DEF DrawEvent, Event
<1> QED BY <1>2, <1>4, <1>5, <1>6, Zenon DEF Drawn

LEMMA ResizedGrid ==
  ASSUME NEW g \in AnyGrid, NEW size \in Sizes
  PROVE  /\ size[1] \in Nat \ {0} /\ size[2] \in Nat \ {0}
         /\ Resized(g, size) \in Grids(size[1], size[2])
<1>1. PICK w \in Nat \ {0}, h \in Nat \ {0} : w = size[1] /\ h = size[2]
  BY NvimScreenAssumption DEF NvimScreenAssumption
<1> DEFINE row == [c \in 1..w |-> BlankCell]
<1>2. Resized(g, size) = [r \in 1..h |-> IF r > Height(g) THEN row ELSE Overwrite(row, 0, g[r])]
  BY <1>1, Zenon DEF Resized
<1>3. row \in [1..w -> Cell]
  BY BlankType
<1> HIDE DEF row
<1>4. ASSUME NEW cells \in Seq(Cell) PROVE Overwrite(row, 0, cells) \in [1..w -> Cell]
  <2>1. \A c \in (0 + 1)..(0 + Len(cells)) : cells[c - 0] \in Cell
    OBVIOUS
  <2>2. DOMAIN row = 1..w /\ \A c \in 1..w : row[c] \in Cell
    BY <1>3
  <2> QED BY <2>1, <2>2, Zenon DEF Overwrite
<1>5. ASSUME NEW r \in 1..h, ~(r > Height(g)) PROVE g[r] \in Seq(Cell)
  BY <1>5 DEF AnyGrid, Height
<1>6. ASSUME NEW r \in 1..h
      PROVE (IF r > Height(g) THEN row ELSE Overwrite(row, 0, g[r])) \in [1..w -> Cell]
  BY <1>3, <1>4, <1>5, Zenon
<1>7. Resized(g, size) \in Grids(w, h)
  BY <1>2, <1>6, Zenon DEF Grids
<1> QED BY <1>1, <1>7, Zenon

LEMMA DrawnResize ==
  ASSUME NEW g \in AnyGrid, NEW size \in Sizes
  PROVE  Drawn(g, <<[type |-> "resize", size |-> size]>> \o Filled(0, size[2], 0, size[1]),
               Grid(size[1], size[2], FillCell))
<1>1. PICK w \in Nat \ {0}, h \in Nat \ {0} : w = size[1] /\ h = size[2]
  BY ResizedGrid, Zenon
<1> DEFINE e == [type |-> "resize", size |-> size]
           events == Filled(0, h, 0, w)
           new == Grid(w, h, FillCell)
<1>2. Resized(g, size) \in Grids(w, h) /\ 0 \in Nat /\ 0 + h <= h /\ w \in Nat /\ h \in Nat
  BY <1>1, ResizedGrid
<1>3. PICK g2 : /\ Redraws(Resized(g, size), events, g2)
                /\ IsFilled(g2, w, h, Resized(g, size), 0, h, 0, w)
  BY <1>2, FilledGrid, Zenon
<1>4. events \in Seq(DrawEvent)
  BY <1>2, FilledType, Zenon
<1>5. e \in DrawEvent /\ Apply(g, e) = Resized(g, size)
  BY ApplyOthers DEF DrawEvent, Event
<1> HIDE DEF e, events
<1>6. Redraws(g, <<e>> \o events, g2)
  BY <1>3, <1>4, <1>5, RedrawMore
<1>7. ASSUME NEW r \in 1..h, NEW c \in 1..w PROVE g2[r][c] = FillCell
  <2>1. r \in (0 + 1)..(0 + h) /\ c \in (0 + 1)..(0 + w)
    OBVIOUS
  <2> QED BY <1>3, <2>1, Zenon DEF IsFilled
<1>8. g2 \in Grids(w, h)
  BY <1>3, Zenon DEF IsFilled
<1>9. new \in Grids(w, h) /\ \A r \in 1..h, c \in 1..w : new[r][c] = FillCell
  <2>1. FillCell \in Cell
    BY BlankType
  <2> QED BY <2>1, Zenon DEF Grid, Grids
<1> HIDE DEF new
<1>10. Like(g2, new)
  <2>1. ASSUME NEW r \in 1..h, NEW c \in 1..w PROVE LikeCell(g2[r][c], new[r][c])
    <3>1. g2[r][c] = FillCell /\ new[r][c] = FillCell
      BY <1>7, <1>9, Zenon
    <3> QED BY <3>1, Zenon DEF LikeCell
  <2> QED BY <1>8, <1>9, <2>1, Zenon DEF Like
<1>11. <<e>> \o events \in Seq(DrawEvent)
  BY <1>4, <1>5
<1> QED BY <1>1, <1>6, <1>10, <1>11, Zenon DEF Drawn, e, events, new

(* nvim_ui_attach on a program that has no grid yet.                       *)
LEMMA DrawnAttach ==
  ASSUME NEW size \in Sizes
  PROVE  Drawn(<<>>, <<[type |-> "resize", size |-> size], [type |-> "clear"]>>,
               Grid(size[1], size[2], BlankCell))
<1>1. PICK w \in Nat \ {0}, h \in Nat \ {0} : w = size[1] /\ h = size[2]
  BY NvimScreenAssumption DEF NvimScreenAssumption
<1> DEFINE e == [type |-> "resize", size |-> size]
           f == [type |-> "clear"]
           new == Grid(w, h, BlankCell)
<1>2. <<>> \in AnyGrid
  BY DEF AnyGrid
<1>3. PICK g : g = Resized(<<>>, size) /\ g \in Grids(w, h)
  BY <1>1, <1>2, ResizedGrid, Zenon
<1>4. Height(g) = h /\ Width(g) = w
  BY <1>3, GridShape, Zenon
<1>5. e \in DrawEvent /\ f \in DrawEvent /\ Apply(<<>>, e) = g /\ Apply(g, f) = new
  BY <1>3, <1>4, ApplyOthers DEF DrawEvent, Event
<1>6. new \in Grids(w, h)
  BY UniformGrid, BlankType, Zenon
<1> HIDE DEF e, f, new
<1>7. Redraws(g, <<f>>, new)
  BY <1>5, RedrawOne, Zenon
<1>8. Redraws(<<>>, <<e>> \o <<f>>, new)
  <2>1. <<f>> \in Seq(DrawEvent)
    BY <1>5
  <2> QED BY <1>5, <1>7, <2>1, RedrawMore
<1>9. <<e>> \o <<f>> = <<e, f>> /\ <<e, f>> \in Seq(DrawEvent)
  <2>1. PICK one, both : one = <<e>> \o <<f>> /\ both = <<e, f>>
    OBVIOUS
  <2>2. one \in Seq(DrawEvent) /\ Len(one) = 2 /\ one[1] = e /\ one[2] = f
    BY <1>5, <2>1
  <2>3. both \in Seq(DrawEvent) /\ Len(both) = 2 /\ both[1] = e /\ both[2] = f
    BY <1>5, <2>1
  <2>4. one = both
    BY <2>2, <2>3, SeqEqual
  <2> QED BY <2>1, <2>3, <2>4, Zenon
<1>10. Like(new, new)
  BY <1>6, Zenon DEF Like, LikeCell
<1> QED BY <1>1, <1>8, <1>9, <1>10, Zenon DEF Drawn, e, f, new

ScrollEvent(top, bot, left, right, rows) ==
  [type |-> "scroll", top |-> top, bot |-> bot, left |-> left, right |-> right, rows |-> rows]
ScrollFill(top, bot, left, right, rows) ==
  IF rows > 0 THEN Filled(bot - rows, rows, left, right - left)
              ELSE Filled(top, -rows, left, right - left)
ScrolledScreen(s, top, bot, left, right, rows) ==
  [r \in 1..Height(s) |-> [c \in 1..Width(s) |->
     IF r \notin (top + 1)..bot \/ c \notin (left + 1)..right THEN s[r][c]
     ELSE IF r + rows \in (top + 1)..bot THEN s[r + rows][c] ELSE FillCell]]

LEMMA DrawnScroll ==
  ASSUME NEW g, NEW s, Like(g, s),
         NEW top \in Nat, NEW bot \in Nat, NEW left \in Nat, NEW right \in Nat, NEW rows \in Int,
         top < bot, left < right, bot <= Height(s), right <= Width(s),
         rows # 0, rows < bot - top, -rows < bot - top
  PROVE  Drawn(g, <<ScrollEvent(top, bot, left, right, rows)>> \o ScrollFill(top, bot, left, right, rows),
               ScrolledScreen(s, top, bot, left, right, rows))
<1> DEFINE e == ScrollEvent(top, bot, left, right, rows)
           s2 == ScrolledScreen(s, top, bot, left, right, rows)
           g1 == Scrolled(g, e)
           Inside(r, c) == r \in (top + 1)..bot /\ c \in (left + 1)..right
           Stays(r) == r + rows \in (top + 1)..bot
<1>1. PICK w \in Nat \ {0}, h \in Nat \ {0} :
        /\ g \in Grids(w, h) /\ s \in Grids(w, h)
        /\ \A r \in 1..h, c \in 1..w : LikeCell(g[r][c], s[r][c])
  BY Zenon DEF Like
<1>2. Height(s) = h /\ Width(s) = w
  BY <1>1, GridShape, Zenon
<1>3. bot <= h /\ right <= w
  BY <1>2
<1>4. e.type = "scroll" /\ e.top = top /\ e.bot = bot /\ e.left = left /\ e.right = right /\ e.rows = rows
  BY DEF ScrollEvent
<1>5. e \in DrawEvent
  BY DEF DrawEvent, Event, ScrollEvent
<1>6. Apply(g, e) = g1
  BY <1>4, ApplyOthers, Zenon
<1> HIDE DEF e
<1>7. /\ g1 \in Grids(w, h)
      /\ \A r \in 1..h, c \in 1..w :
           g1[r][c] = IF r \notin (top + 1)..bot \/ c \notin (left + 1)..right THEN g[r][c]
                      ELSE IF r + rows \in (top + 1)..bot THEN g[r + rows][c] ELSE BlankCell
  <2>1. /\ e.top \in Nat /\ e.bot \in Nat /\ e.left \in Nat /\ e.right \in Nat /\ e.rows \in Int
        /\ e.top < e.bot /\ e.bot <= h /\ e.rows # 0
        /\ e.rows < e.bot - e.top /\ -e.rows < e.bot - e.top
    BY <1>3, <1>4
  <2>2. CanScroll(h, e)
    BY <2>1, Zenon DEF CanScroll
  <2>3. IsScrolled(g1, w, h, g, e)
    BY <1>1, <2>2, ScrolledGrid, Zenon
  <2> HIDE DEF g1
  <2> QED BY <1>4, <2>3, Zenon DEF IsScrolled
<1> HIDE DEF g1
<1>8. PICK first \in Nat, count \in Nat, width \in Nat :
        /\ first + count <= h /\ width = right - left
        /\ ScrollFill(top, bot, left, right, rows) = Filled(first, count, left, width)
        /\ \A r \in 1..h : r \in (first + 1)..(first + count) <=> r \in (top + 1)..bot /\ ~Stays(r)
  <2>1. PICK width \in Nat : width = right - left
    OBVIOUS
  <2>2. CASE rows > 0
    <3>1. PICK first \in Nat : first = bot - rows
      BY <2>2
    <3>2. rows \in Nat /\ first + rows <= h
      BY <1>3, <2>2, <3>1
    <3>3. \A r \in 1..h : r \in (first + 1)..(first + rows) <=> r \in (top + 1)..bot /\ ~Stays(r)
      BY <1>3, <2>2, <3>1
    <3>4. ScrollFill(top, bot, left, right, rows) = Filled(first, rows, left, width)
      BY <2>1, <2>2, <3>1, Zenon DEF ScrollFill
    <3> QED BY <2>1, <3>2, <3>3, <3>4, Zenon
  <2>3. CASE ~(rows > 0)
    <3>1. PICK count \in Nat : count = -rows
      BY <2>3
    <3>2. top + count <= h
      BY <1>3, <2>3, <3>1
    <3>3. \A r \in 1..h : r \in (top + 1)..(top + count) <=> r \in (top + 1)..bot /\ ~Stays(r)
      BY <1>3, <2>3, <3>1
    <3>4. ScrollFill(top, bot, left, right, rows) = Filled(top, count, left, width)
      BY <2>1, <2>3, <3>1, Zenon DEF ScrollFill
    <3> QED BY <2>1, <3>2, <3>3, <3>4, Zenon
  <2> QED BY <2>2, <2>3, Zenon
<1> DEFINE events == Filled(first, count, left, width)
<1>9. PICK g2 : Redraws(g1, events, g2) /\ IsFilled(g2, w, h, g1, first, count, left, width)
  BY <1>7, <1>8, FilledGrid, Zenon
<1>10. events \in Seq(DrawEvent)
  BY <1>8, FilledType, Zenon
<1> HIDE DEF events
<1>11. Redraws(g, <<e>> \o events, g2)
  BY <1>5, <1>6, <1>9, <1>10, RedrawMore
<1>12. \A r \in 1..h, c \in 1..w : Inside(r, c) /\ Stays(r) => r + rows \in 1..h
  BY <1>3
<1>13. left + width = right
  BY <1>8
<1>14. ASSUME NEW r \in 1..h, NEW c \in 1..w
       PROVE  g2[r][c] = IF ~Inside(r, c) THEN g[r][c] ELSE IF Stays(r) THEN g[r + rows][c] ELSE FillCell
  <2>1. g1[r][c] = IF ~Inside(r, c) THEN g[r][c] ELSE IF Stays(r) THEN g[r + rows][c] ELSE BlankCell
    BY <1>7, Zenon
  <2>2. g2[r][c] = IF r \in (first + 1)..(first + count) /\ c \in (left + 1)..right THEN FillCell ELSE g1[r][c]
    BY <1>9, <1>13, Zenon DEF IsFilled
  <2> QED BY <1>8, <2>1, <2>2, Zenon
<1>15. ASSUME NEW r \in 1..h, NEW c \in 1..w
       PROVE  s2[r][c] = IF ~Inside(r, c) THEN s[r][c] ELSE IF Stays(r) THEN s[r + rows][c] ELSE FillCell
  BY <1>2, Zenon DEF ScrolledScreen
<1> HIDE DEF Inside, Stays
<1>16. s2 = [r \in 1..h |-> [c \in 1..w |-> s2[r][c]]]
  BY <1>2, Zenon DEF ScrolledScreen
<1> HIDE DEF s2
<1>17. s2 \in Grids(w, h)
  <2>1. \A q \in 1..h, c \in 1..w : s[q][c] \in Cell
    BY <1>1 DEF Grids
  <2>2. ASSUME NEW r \in 1..h, NEW c \in 1..w PROVE s2[r][c] \in Cell
    BY <1>12, <1>15, <2>1, BlankType, Zenon
  <2> QED BY <1>16, <2>2, Zenon DEF Grids
<1>18. ASSUME NEW r \in 1..h, NEW c \in 1..w PROVE LikeCell(g2[r][c], s2[r][c])
  <2>1. CASE ~Inside(r, c)
    BY <1>1, <1>14, <1>15, <2>1, Zenon
  <2>2. CASE Inside(r, c) /\ Stays(r)
    BY <1>1, <1>12, <1>14, <1>15, <2>2, Zenon
  <2>3. CASE Inside(r, c) /\ ~Stays(r)
    <3>1. g2[r][c] = FillCell /\ s2[r][c] = FillCell
      BY <1>14, <1>15, <2>3, Zenon
    <3> QED BY <3>1, Zenon DEF LikeCell
  <2> QED BY <2>1, <2>2, <2>3, Zenon
<1>19. g2 \in Grids(w, h)
  BY <1>9, Zenon DEF IsFilled
<1>20. Like(g2, s2)
  BY <1>17, <1>18, <1>19, Zenon DEF Like
<1>21. <<e>> \o events \in Seq(DrawEvent)
  BY <1>5, <1>10
<1> QED BY <1>8, <1>11, <1>20, <1>21, Zenon DEF Drawn, events, e, s2

-----------------------------------------------------------------------------
(* The functions the program folds with                                    *)

LEMMA ReplayedResult ==
  ASSUME NEW X, NEW events \in Seq(X), NEW g, NEW at, Replays(at, g, events)
  PROVE  Replayed(g, events) = at[Len(events)]
<1> DEFINE n == Len(events)
           Next1(x, i) == [x EXCEPT !.nvimGrid = Apply(@, events[i])]
           f == [i \in 0..n |-> [nvimGrid |-> at[i]]]
           Is(a) == a = [i \in 0..n |-> IF i = 0 THEN [nvimGrid |-> g] ELSE Next1(a[i - 1], i)]
           after == CHOOSE a : Is(a)
<1>1. n \in Nat
  OBVIOUS
<1>2. at[0] = g /\ \A i \in 1..n : at[i] = Apply(at[i - 1], events[i])
  BY Zenon DEF Replays
<1>3. Replayed(g, events) = after[n].nvimGrid
  BY Zenon DEF Replayed
<1> HIDE DEF n
<1>4. Is(f)
  <2>1. ASSUME NEW i \in 0..n PROVE f[i] = IF i = 0 THEN [nvimGrid |-> g] ELSE Next1(f[i - 1], i)
    <3>1. CASE i = 0
      BY <1>2, <3>1, Zenon
    <3>2. CASE i # 0
      <4>1. i \in 1..n /\ i - 1 \in 0..n
        BY <1>1, <3>2
      <4>2. f[i] = [nvimGrid |-> at[i]] /\ f[i - 1] = [nvimGrid |-> at[i - 1]]
        BY <4>1, Zenon
      <4>3. \A x, y : [[nvimGrid |-> x] EXCEPT !.nvimGrid = y] = [nvimGrid |-> y]
        OBVIOUS
      <4>4. f[i - 1].nvimGrid = at[i - 1]
        <5> HIDE DEF f
        <5> QED BY <4>2
      <4> QED BY <1>2, <3>2, <4>1, <4>2, <4>3, <4>4, Zenon
    <3> QED BY <3>1, <3>2, Zenon
  <2>2. f = [i \in 0..n |-> f[i]]
    BY Zenon
  <2> HIDE DEF f, Next1
  <2> QED BY <2>1, <2>2, Zenon
<1>5. Is(after)
  <2> HIDE DEF Is, f
  <2> QED BY <1>4, Zenon
<1> HIDE DEF after, Next1
<1>6. f[n] = [nvimGrid |-> at[n]]
  BY <1>1
<1> HIDE DEF f
<1>7. after[0] = [nvimGrid |-> g] /\ f[0] = [nvimGrid |-> g]
  BY <1>1, <1>4, <1>5
<1>8. ASSUME NEW i \in 1..n PROVE after[i] = Next1(after[i - 1], i) /\ f[i] = Next1(f[i - 1], i)
  <2>1. i \in 0..n /\ i # 0
    BY <1>1
  <2> QED BY <1>4, <1>5, <2>1, Zenon
<1>9. InStep(n, after, f)
  BY <1>7, <1>8, Zenon DEF InStep
<1>10. after[n] = f[n]
  <2>1. \A i \in 0..n : after[i] = f[i]
    BY <1>1, <1>9, SameSteps, Zenon
  <2> QED BY <1>1, <2>1
<1>11. after[n].nvimGrid = at[n]
  BY <1>6, <1>10
<1> QED BY <1>3, <1>11, Zenon DEF n

Collects(f, events) ==
  /\ f[0] = [pending |-> pending, posted |-> <<>>]
  /\ \A i \in 1..Len(events) : f[i] = Collect(f[i - 1], events[i])

LEMMA CollectedResult ==
  ASSUME NEW X, NEW events \in Seq(X), NEW at, Collects(at, events)
  PROVE  Collected(events) = at[Len(events)]
<1> DEFINE n == Len(events)
           first == [pending |-> pending, posted |-> <<>>]
           f == [i \in 0..n |-> at[i]]
           Is(a) == a = [i \in 0..n |-> IF i = 0 THEN first ELSE Collect(a[i - 1], events[i])]
           after == CHOOSE a : Is(a)
<1>1. n \in Nat
  OBVIOUS
<1>2. at[0] = first /\ \A i \in 1..n : at[i] = Collect(at[i - 1], events[i])
  BY Zenon DEF Collects
<1>3. Collected(events) = after[n]
  BY Zenon DEF Collected
<1> HIDE DEF n, first
<1>4. Is(f)
  <2>1. ASSUME NEW i \in 0..n PROVE f[i] = IF i = 0 THEN first ELSE Collect(f[i - 1], events[i])
    <3>1. CASE i = 0
      BY <1>2, <3>1, Zenon
    <3>2. CASE i # 0
      <4>1. i \in 1..n /\ i - 1 \in 0..n
        BY <1>1, <3>2
      <4>2. f[i] = at[i] /\ f[i - 1] = at[i - 1]
        BY <4>1, Zenon
      <4> QED BY <1>2, <3>2, <4>1, <4>2, Zenon
    <3> QED BY <3>1, <3>2, Zenon
  <2>2. f = [i \in 0..n |-> f[i]]
    BY Zenon
  <2> HIDE DEF f
  <2> QED BY <2>1, <2>2, Zenon
<1>5. Is(after)
  <2> HIDE DEF Is, f
  <2> QED BY <1>4, Zenon
<1> HIDE DEF after
<1>6. f[n] = at[n]
  BY <1>1
<1> HIDE DEF f
<1>7. after[0] = first /\ f[0] = first
  BY <1>1, <1>4, <1>5
<1>8. ASSUME NEW i \in 1..n
      PROVE after[i] = Collect(after[i - 1], events[i]) /\ f[i] = Collect(f[i - 1], events[i])
  <2>1. i \in 0..n /\ i # 0
    BY <1>1
  <2> QED BY <1>4, <1>5, <2>1, Zenon
<1>9. InStep(n, after, f)
  BY <1>7, <1>8, Zenon DEF InStep
<1>10. after[n] = f[n]
  <2>1. \A i \in 0..n : after[i] = f[i]
    BY <1>1, <1>9, SameSteps, Zenon
  <2> QED BY <1>1, <2>1
<1> QED BY <1>3, <1>6, <1>10, Zenon DEF n

-----------------------------------------------------------------------------
(* Ends of slices                                                          *)

LEMMA SliceEmpty ==
  ASSUME NEW s, NEW a \in Nat
  PROVE  Slice(s, a, a) = <<>>
BY DEF Slice

LEMMA SliceOne ==
  ASSUME NEW X, NEW s \in Seq(X), NEW a \in Nat, a + 1 <= Len(s)
  PROVE  Slice(s, a, a + 1) = <<s[a + 1]>>
<1>1. Slice(s, a, a) = <<>>
  BY SliceEmpty
<1>2. Append(Slice(s, a, a), s[a + 1]) = Slice(s, a, a + 1)
  <2>1. CanSlice(a, a, a)
    BY DEF CanSlice
  <2> QED BY <2>1, SliceAppend, Zenon
<1> QED BY <1>1, <1>2

Extends(w, s, t, a, X) ==
  /\ w \in Seq(X) /\ Len(w) = Len(s) + Len(t)
  /\ \A i \in 1..Len(s) : w[i] = s[i]
  /\ Slice(w, Len(s), Len(w)) = t
  /\ Slice(s, a, Len(s)) \o t = Slice(w, a, Len(w))

LEMMA SliceExtend ==
  ASSUME NEW X, NEW s \in Seq(X), NEW t \in Seq(X), NEW a \in Nat, a <= Len(s)
  PROVE  Extends(s \o t, s, t, a, X)
<1> DEFINE w == s \o t
<1>1. PICK m \in Nat, n \in Nat : m = Len(s) /\ n = Len(t)
  OBVIOUS
<1>2. /\ w \in Seq(X) /\ Len(w) = m + n
      /\ \A i \in 1..m : w[i] = s[i]
      /\ \A i \in 1..n : w[m + i] = t[i]
  BY <1>1
<1> HIDE DEF w
<1>3. PICK p \in Nat : p = m + n /\ m <= p /\ p <= Len(w) /\ p - m = n /\ m \in Nat /\ m <= Len(w)
  BY <1>2
<1>4. Slice(w, m, p) = t
  <2>1. /\ Slice(w, m, p) \in Seq(X) /\ Len(Slice(w, m, p)) = p - m
        /\ \A i \in 1..(p - m) : Slice(w, m, p)[i] = w[m + i]
    <3>1. w \in Seq(X) /\ m \in Nat /\ p \in Nat /\ m <= p /\ p <= Len(w)
      BY <1>2, <1>3
    <3> QED BY <3>1, SliceType, Zenon
  <2>2. PICK l : l = Slice(w, m, p)
    OBVIOUS
  <2>3. l \in Seq(X) /\ Len(l) = n /\ \A i \in 1..n : l[i] = t[i]
    BY <1>2, <1>3, <2>1, <2>2, Zenon
  <2>4. l = t
    BY <1>1, <2>3, SeqEqual
  <2> QED BY <2>2, <2>4
<1>5. Slice(w, a, m) = Slice(s, a, m)
  BY <1>1, <1>2 DEF Slice
<1>6. Slice(w, a, m) \o Slice(w, m, p) = Slice(w, a, p)
  <2>1. CanJoin(a, m, p)
    BY <1>1, <1>3 DEF CanJoin
  <2> QED BY <2>1, SliceConcat, Zenon
<1> QED BY <1>1, <1>2, <1>3, <1>4, <1>5, <1>6, Zenon DEF w, Extends

LEMMA SliceFirst ==
  ASSUME NEW s, NEW a, NEW b, CanSlice(a, b, b), a # b
  PROVE  /\ Slice(s, a, b) # <<>> /\ Head(Slice(s, a, b)) = s[a + 1]
         /\ Tail(Slice(s, a, b)) = Slice(s, a + 1, b)
         /\ RemoveAt(Slice(s, a, b), 1) = Slice(s, a + 1, b)
<1> DEFINE l == Slice(s, a, b)  w == Slice(s, a + 1, b)
<1>a. a \in Nat /\ b \in Nat /\ a < b
  BY DEF CanSlice
<1>x. PICK X : X = Values(s)
  OBVIOUS
<1>1. l \in Seq(X) /\ Len(l) = b - a /\ \A k \in 1..(b - a) : l[k] = s[a + k]
  <2>1. a <= b
    BY <1>a
  <2> QED BY <1>a, <1>x, <2>1, SliceValues, Zenon
<1>2. w \in Seq(X) /\ Len(w) = b - (a + 1) /\ \A k \in 1..(b - (a + 1)) : w[k] = s[(a + 1) + k]
  <2>1. PICK p \in Nat : p = a + 1
    BY <1>a
  <2>2. p <= b
    BY <1>a, <2>1
  <2>3. /\ Slice(s, p, b) \in Seq(X) /\ Len(Slice(s, p, b)) = b - p
        /\ \A k \in 1..(b - p) : Slice(s, p, b)[k] = s[p + k]
    <3>1. p \in Nat /\ b \in Nat /\ p <= b
      BY <1>a, <2>2
    <3> QED BY <1>x, <3>1, SliceValues, Zenon
  <2> QED BY <2>1, <2>3, Zenon
<1> HIDE DEF l, w
<1>3. l # <<>> /\ Head(l) = s[a + 1]
  <2>1. 1 \in 1..(b - a)
    BY <1>a
  <2> QED BY <1>a, <1>1, <2>1
<1>4. PICK t : t = Tail(l)
  OBVIOUS
<1>5. t \in Seq(X) /\ Len(t) = b - (a + 1) /\ \A k \in 1..(b - (a + 1)) : t[k] = l[k + 1]
  BY <1>a, <1>1, <1>3, <1>4
<1>6. ASSUME NEW k \in 1..(b - (a + 1)) PROVE t[k] = w[k]
  <2>1. k + 1 \in 1..(b - a) /\ a + (k + 1) = (a + 1) + k
    BY <1>a
  <2> QED BY <1>a, <1>1, <1>2, <1>5, <2>1
<1>7. t = w
  BY <1>a, <1>2, <1>5, <1>6, SeqEqual
<1>8. RemoveAt(l, 1) = t
  <2>1. RemoveAt(l, 1) = SubSeq(l, 1, 0) \o SubSeq(l, 2, Len(l))
    BY DEF RemoveAt
  <2>2. SubSeq(l, 1, 0) = <<>> /\ SubSeq(l, 2, Len(l)) = t
    <3>1. SubSeq(l, 1, 0) = <<>>
      BY <1>a, <1>1
    <3>2. Tail(l) = SubSeq(l, 2, Len(l))
      BY <1>a, <1>1, <1>3, TailIsSubSeq, Zenon
    <3> QED BY <1>4, <3>1, <3>2
  <2>3. <<>> \o t = t
    BY <1>5, ConcatEmptySeq
  <2> QED BY <2>1, <2>2, <2>3
<1> QED BY <1>3, <1>4, <1>7, <1>8 DEF l, w

-----------------------------------------------------------------------------
(* What nvim has told so far                                               *)

(* Every event so far: at[i] is the program's grid after the first i of    *)
(* them, past[i] the number of flushes among those, cut[n] the place of    *)
(* the n-th flush.                                                         *)
Told(told, at, cut, past, shown) ==
  /\ told \in Seq(Event) /\ shown \in Seq(AnyGrid)
  /\ Replays(at, <<>>, told)
  /\ \A n \in 1..Len(shown) : Like(at[cut[n]], shown[n])
  /\ past \in [0..Len(told) -> 0..Len(shown)] /\ past[0] = 0 /\ past[Len(told)] = Len(shown)
  /\ cut \in [0..Len(shown) -> 0..Len(told)] /\ cut[0] = 0
  /\ \A n \in 1..Len(shown) : cut[n - 1] <= cut[n]
  /\ \A i \in 0..Len(told) : cut[past[i]] <= i
  /\ \A i \in 1..Len(told) : IF told[i].type = "flush" THEN past[i] = past[i - 1] + 1 /\ cut[past[i]] = i
                             ELSE past[i] = past[i - 1]

(* g up to n is f.                                                         *)
Continues(g, f, n) == \A i \in 0..n : g[i] = f[i]

LEMMA ToldMore ==
  ASSUME NEW told, NEW at, NEW cut, NEW past, NEW shown, Told(told, at, cut, past, shown),
         NEW events \in Seq(DrawEvent), NEW result, Redraws(at[Len(told)], events, result)
  PROVE  \E at2, past2 :
           /\ Told(told \o events, at2, cut, past2, shown)
           /\ at2[Len(told \o events)] = result
           /\ Continues(at2, at, Len(told)) /\ Continues(past2, past, Len(told))
<1> USE DEF Told
<1>1. PICK m \in Nat, n \in Nat, l \in Nat : m = Len(told) /\ n = Len(events) /\ l = Len(shown)
  OBVIOUS
<1>2. \A i \in 1..n : events[i] \in Event /\ events[i].type # "flush"
  BY <1>1 DEF DrawEvent
<1>3. events \in Seq(Event)
  BY <1>1, <1>2
<1>4. PICK more : Replays(more, at[m], events) /\ more[n] = result
  BY <1>1, Zenon DEF Redraws
<1>5. more[0] = at[m] /\ \A i \in 1..n : more[i] = Apply(more[i - 1], events[i])
  BY <1>1, <1>4, Zenon DEF Replays
<1>6. at[0] = <<>> /\ \A i \in 1..m : at[i] = Apply(at[i - 1], told[i])
  BY <1>1, Zenon DEF Replays
<1> DEFINE all == told \o events
           at2 == [i \in 0..(m + n) |-> IF i <= m THEN at[i] ELSE more[i - m]]
           past2 == [i \in 0..(m + n) |-> IF i <= m THEN past[i] ELSE l]
<1>7. /\ all \in Seq(Event) /\ Len(all) = m + n
      /\ \A i \in 1..m : all[i] = told[i]
      /\ \A i \in (m + 1)..(m + n) : all[i] = events[i - m]
  BY <1>1, <1>3
<1> HIDE DEF all
<1>8. /\ \A i \in 0..m : at2[i] = at[i] /\ past2[i] = past[i]
      /\ \A i \in (m + 1)..(m + n) : at2[i] = more[i - m] /\ past2[i] = l
  OBVIOUS
<1>9. past2 \in [0..(m + n) -> 0..l]
  BY <1>1
<1> HIDE DEF at2, past2
<1>10. ASSUME NEW i \in 1..(m + n) PROVE at2[i] = Apply(at2[i - 1], all[i])
  <2>1. CASE i <= m
    <3>1. i \in 1..m /\ i \in 0..m /\ i - 1 \in 0..m
      BY <2>1
    <3> QED BY <1>6, <1>7, <1>8, <3>1, Zenon
  <2>2. CASE i = m + 1
    <3>1. /\ i \in (m + 1)..(m + n) /\ i - m = 1 /\ (i - m) - 1 = 0 /\ i - 1 = m /\ m \in 0..m /\ 1 \in 1..n
      BY <2>2
    <3>2. at2[i] = more[1] /\ at2[i - 1] = more[0] /\ all[i] = events[1]
      BY <1>5, <1>7, <1>8, <3>1
    <3>3. more[1] = Apply(more[0], events[1])
      BY <1>5, <3>1
    <3> QED BY <3>2, <3>3, Zenon
  <2>3. CASE i > m + 1
    <3>1. PICK j \in 1..n : j = i - m /\ j - 1 = (i - 1) - m
      BY <2>3
    <3>2. i \in (m + 1)..(m + n) /\ i - 1 \in (m + 1)..(m + n)
      BY <2>3
    <3>3. at2[i] = more[j] /\ at2[i - 1] = more[j - 1] /\ all[i] = events[j]
      BY <1>7, <1>8, <3>1, <3>2, Zenon
    <3> QED BY <1>5, <3>1, <3>3, Zenon
  <2> QED BY <2>1, <2>2, <2>3
<1>11. Replays(at2, <<>>, all)
  <2>1. at2[0] = at[0]
    BY <1>8
  <2> QED BY <1>6, <1>7, <1>10, <2>1, Zenon DEF Replays
<1>12. ASSUME NEW k \in 1..l PROVE Like(at2[cut[k]], shown[k]) /\ cut[k - 1] <= cut[k]
  <2>1. cut[k] \in 0..m
    BY <1>1
  <2> QED BY <1>1, <1>8, <2>1, Zenon
<1>13. ASSUME NEW i \in 0..(m + n) PROVE cut[past2[i]] <= i
  <2>1. CASE i <= m
    BY <1>1, <1>8, <2>1
  <2>2. CASE i > m
    <3>1. past2[i] = l /\ past[m] = l
      BY <1>1, <1>8, <2>2
    <3>2. cut[l] \in 0..m
      BY <1>1
    <3> QED BY <2>2, <3>1, <3>2
  <2> QED BY <2>1, <2>2
<1>14. ASSUME NEW i \in 1..(m + n)
       PROVE  IF all[i].type = "flush" THEN past2[i] = past2[i - 1] + 1 /\ cut[past2[i]] = i
              ELSE past2[i] = past2[i - 1]
  <2>1. CASE i <= m
    <3>1. i \in 1..m /\ i \in 0..m /\ i - 1 \in 0..m
      BY <2>1
    <3>2. all[i] = told[i] /\ past2[i] = past[i] /\ past2[i - 1] = past[i - 1]
      BY <1>7, <1>8, <3>1, Zenon
    <3>3. IF told[i].type = "flush" THEN past[i] = past[i - 1] + 1 /\ cut[past[i]] = i
          ELSE past[i] = past[i - 1]
      BY <1>1, <3>1, Zenon
    <3> QED BY <3>2, <3>3, Zenon
  <2>2. CASE i > m
    <3>1. i \in (m + 1)..(m + n) /\ i - m \in 1..n
      BY <2>2
    <3>2. all[i].type # "flush"
      BY <1>2, <1>7, <3>1
    <3>3. past2[i] = l
      BY <1>8, <3>1
    <3>4. past2[i - 1] = l
      <4>1. CASE i = m + 1
        <5>1. i - 1 = m /\ m \in 0..m /\ past[m] = l
          BY <1>1, <4>1
        <5> QED BY <1>8, <5>1
      <4>2. CASE i # m + 1
        <5>1. i - 1 \in (m + 1)..(m + n)
          BY <2>2, <4>2
        <5> QED BY <1>8, <5>1, Zenon
      <4> QED BY <4>1, <4>2
    <3> QED BY <3>2, <3>3, <3>4, Zenon
  <2> QED BY <2>1, <2>2
<1>15. past2[0] = 0 /\ past2[m + n] = l
  <2>1. past[0] = 0 /\ past[m] = l /\ 0 \in 0..m /\ m \in 0..m
    BY <1>1
  <2>2. CASE n = 0
    BY <1>8, <2>1, <2>2
  <2>3. CASE n # 0
    <3>1. m + n \in (m + 1)..(m + n)
      BY <2>3
    <3> QED BY <1>8, <2>1, <3>1, Zenon
  <2> QED BY <2>2, <2>3
<1>16. cut \in [0..l -> 0..(m + n)]
  BY <1>1
<1>17. Told(all, at2, cut, past2, shown)
  BY <1>1, <1>7, <1>9, <1>11, <1>12, <1>13, <1>14, <1>15, <1>16, Zenon
<1>18. at2[m + n] = result
  <2>1. CASE n = 0
    <3>1. m + n = m /\ m \in 0..m /\ n = 0
      BY <2>1
    <3> QED BY <1>4, <1>5, <1>8, <3>1
  <2>2. CASE n # 0
    <3>1. m + n \in (m + 1)..(m + n) /\ (m + n) - m = n
      BY <2>2
    <3> QED BY <1>4, <1>8, <3>1
  <2> QED BY <2>1, <2>2
<1>19. Continues(at2, at, m) /\ Continues(past2, past, m)
  BY <1>8, Zenon DEF Continues
<1> QED BY <1>1, <1>7, <1>17, <1>18, <1>19, Zenon DEF all

LEMMA ToldFlush ==
  ASSUME NEW told, NEW at, NEW cut, NEW past, NEW shown, Told(told, at, cut, past, shown),
         NEW s, Like(at[Len(told)], s)
  PROVE  \E at2, cut2, past2 :
           /\ Told(Append(told, [type |-> "flush"]), at2, cut2, past2, Append(shown, s))
           /\ at2[Len(told) + 1] = at[Len(told)]
           /\ Continues(at2, at, Len(told)) /\ Continues(past2, past, Len(told))
           /\ Continues(cut2, cut, Len(shown))
<1> USE DEF Told
<1>1. PICK m \in Nat, l \in Nat : m = Len(told) /\ l = Len(shown)
  OBVIOUS
<1> DEFINE e == [type |-> "flush"]
           all == Append(told, e)
           now == Append(shown, s)
           at2 == [i \in 0..(m + 1) |-> IF i <= m THEN at[i] ELSE at[m]]
           past2 == [i \in 0..(m + 1) |-> IF i <= m THEN past[i] ELSE l + 1]
           cut2 == [k \in 0..(l + 1) |-> IF k <= l THEN cut[k] ELSE m + 1]
<1>2. s \in AnyGrid
  BY GridShape, Zenon DEF Like
<1>3. now \in Seq(AnyGrid) /\ Len(now) = l + 1 /\ now[l + 1] = s /\ \A k \in 1..l : now[k] = shown[k]
  BY <1>1, <1>2
<1>4. e \in Event /\ e.type = "flush" /\ \A g : Apply(g, e) = g
  BY ApplyOthers DEF Event
<1> HIDE DEF e
<1>5. /\ all \in Seq(Event) /\ Len(all) = m + 1 /\ all[m + 1] = e
      /\ \A i \in 1..m : all[i] = told[i]
  BY <1>1, <1>4
<1> HIDE DEF all, now
<1>6. /\ \A i \in 0..m : at2[i] = at[i] /\ past2[i] = past[i]
      /\ at2[m + 1] = at[m] /\ past2[m + 1] = l + 1
      /\ \A k \in 0..l : cut2[k] = cut[k]
      /\ cut2[l + 1] = m + 1
  OBVIOUS
<1>7. past2 \in [0..(m + 1) -> 0..(l + 1)] /\ cut2 \in [0..(l + 1) -> 0..(m + 1)]
  BY <1>1
<1> HIDE DEF at2, past2, cut2
<1>8. at[0] = <<>> /\ \A i \in 1..m : at[i] = Apply(at[i - 1], told[i])
  BY <1>1, Zenon DEF Replays
<1>9. ASSUME NEW i \in 1..(m + 1) PROVE at2[i] = Apply(at2[i - 1], all[i])
  <2>1. CASE i <= m
    <3>1. i \in 1..m /\ i \in 0..m /\ i - 1 \in 0..m
      BY <2>1
    <3> QED BY <1>5, <1>6, <1>8, <3>1, Zenon
  <2>2. CASE i = m + 1
    <3>1. i - 1 = m /\ m \in 0..m
      BY <2>2
    <3>2. at2[i] = at[m] /\ at2[i - 1] = at[m] /\ all[i] = e
      BY <1>5, <1>6, <2>2, <3>1
    <3> QED BY <1>4, <3>2, Zenon
  <2> QED BY <2>1, <2>2
<1>10. Replays(at2, <<>>, all)
  <2>1. at2[0] = at[0]
    BY <1>6
  <2> QED BY <1>5, <1>8, <1>9, <2>1, Zenon DEF Replays
<1>11. ASSUME NEW k \in 1..(l + 1) PROVE Like(at2[cut2[k]], now[k]) /\ cut2[k - 1] <= cut2[k]
  <2>1. CASE k <= l
    <3>1. k \in 1..l /\ k \in 0..l /\ k - 1 \in 0..l /\ cut[k] \in 0..m
      BY <1>1, <2>1
    <3>2. cut2[k] = cut[k] /\ cut2[k - 1] = cut[k - 1] /\ at2[cut[k]] = at[cut[k]] /\ now[k] = shown[k]
      BY <1>3, <1>6, <3>1, Zenon
    <3>3. Like(at[cut[k]], shown[k]) /\ cut[k - 1] <= cut[k]
      BY <1>1, <3>1, Zenon
    <3> QED BY <3>2, <3>3, Zenon
  <2>2. CASE k = l + 1
    <3>1. k - 1 = l /\ l \in 0..l /\ cut[l] \in 0..m
      BY <1>1, <2>2
    <3>2. cut2[k - 1] = cut[l] /\ cut2[k] = m + 1
      BY <1>6, <2>2, <3>1, Zenon
    <3>3. cut2[k - 1] <= cut2[k]
      BY <3>1, <3>2
    <3> QED BY <1>1, <1>3, <1>6, <2>2, <3>2, <3>3, Zenon
  <2> QED BY <2>1, <2>2
<1>12. ASSUME NEW i \in 0..(m + 1) PROVE cut2[past2[i]] <= i
  <2>1. CASE i <= m
    <3>1. i \in 0..m /\ past[i] \in 0..l
      <4>1. i \in 0..m
        BY <2>1
      <4> QED BY <1>1, <4>1, Zenon
    <3> QED BY <1>1, <1>6, <3>1, Zenon
  <2>2. CASE i = m + 1
    BY <1>6, <2>2
  <2> QED BY <2>1, <2>2
<1>13. ASSUME NEW i \in 1..(m + 1)
       PROVE  IF all[i].type = "flush" THEN past2[i] = past2[i - 1] + 1 /\ cut2[past2[i]] = i
              ELSE past2[i] = past2[i - 1]
  <2>1. CASE i <= m
    <3>1. i \in 1..m /\ i \in 0..m /\ i - 1 \in 0..m
      BY <2>1
    <3>2. past[i] \in 0..l
      BY <1>1, <3>1, Zenon
    <3>3. all[i] = told[i] /\ past2[i] = past[i] /\ past2[i - 1] = past[i - 1] /\ cut2[past[i]] = cut[past[i]]
      BY <1>5, <1>6, <3>1, <3>2, Zenon
    <3>4. IF told[i].type = "flush" THEN past[i] = past[i - 1] + 1 /\ cut[past[i]] = i
          ELSE past[i] = past[i - 1]
      BY <1>1, <3>1, Zenon
    <3> QED BY <3>3, <3>4, Zenon
  <2>2. CASE i = m + 1
    <3>1. i - 1 = m /\ m \in 0..m /\ past[m] = l
      BY <1>1, <2>2
    <3>2. past2[i - 1] = l /\ past2[i] = l + 1 /\ cut2[past2[i]] = i
      BY <1>6, <2>2, <3>1, Zenon
    <3> QED BY <1>4, <1>5, <2>2, <3>2, Zenon
  <2> QED BY <2>1, <2>2
<1>14. past2[0] = 0 /\ cut2[0] = 0
  BY <1>1, <1>6
<1>15. Told(all, at2, cut2, past2, now)
  BY <1>3, <1>5, <1>6, <1>7, <1>10, <1>11, <1>12, <1>13, <1>14, Zenon
<1>16. Continues(at2, at, m) /\ Continues(past2, past, m) /\ Continues(cut2, cut, l)
  BY <1>6, Zenon DEF Continues
<1> QED BY <1>1, <1>6, <1>15, <1>16, Zenon DEF all, now, e

-----------------------------------------------------------------------------
(* The wire                                                                *)

(* What was sent: m messages, the j-th with the events up to ends[j]; on   *)
(* the wire each has a header before it.                                   *)
Messages(told, ends, m) == [j \in 1..m |-> Slice(told, ends[j - 1], ends[j])]

Sent(told, ends, m, stream) ==
  /\ told \in Seq(Event)
  /\ m \in Nat /\ ends \in [0..m -> 0..Len(told)] /\ ends[0] = 0
  /\ \A j \in 1..m : ends[j - 1] <= ends[j]
  /\ stream \in Seq(Token) /\ Len(stream) = ends[m] + m
  /\ \A j \in 1..m : /\ stream[ends[j - 1] + j] = [elements |-> ends[j] - ends[j - 1]]
                     /\ \A i \in (ends[j - 1] + 1)..ends[j] : stream[i + j] = [elements |-> 0, event |-> told[i]]

LEMMA MessagesType ==
  ASSUME NEW told, NEW ends, NEW m, NEW stream, Sent(told, ends, m, stream)
  PROVE  Messages(told, ends, m) \in Seq(Seq(Event)) /\ Len(Messages(told, ends, m)) = m
<1> USE DEF Sent
<1>1. ASSUME NEW j \in 1..m PROVE Slice(told, ends[j - 1], ends[j]) \in Seq(Event)
  <2>1. j - 1 \in 0..m /\ j \in 0..m
    OBVIOUS
  <2>2. PICK a \in Nat, b \in Nat : a = ends[j - 1] /\ b = ends[j] /\ a <= b /\ b <= Len(told)
    <3>1. ends[j - 1] \in 0..Len(told) /\ ends[j] \in 0..Len(told) /\ ends[j - 1] <= ends[j]
      BY <2>1, Zenon
    <3>2. ends[j - 1] \in Nat /\ ends[j] \in Nat /\ ends[j] <= Len(told)
      BY <3>1
    <3> QED BY <3>1, <3>2, Zenon
  <2> QED BY <2>2, SliceType, Zenon
<1>2. m \in Nat
  OBVIOUS
<1>3. Messages(told, ends, m) \in [1..m -> Seq(Event)]
  BY <1>1, Zenon DEF Messages
<1> HIDE DEF Sent
<1> QED BY <1>2, <1>3

(* The framer: what stands at a message's beginning.                       *)
Rest(bytes, start) == SubSeq(bytes, start + 1, Len(bytes))
Joined(value, later) == [later EXCEPT !.values = <<value>> \o @]
Frames(bytes, from) ==
  from = [start \in 0..Len(bytes) |->
            IF Scan(Rest(bytes, start)) = 0 THEN [values |-> <<>>, rest |-> Rest(bytes, start)]
            ELSE Joined([k \in 1..(Scan(Rest(bytes, start)) - 1) |-> Rest(bytes, start)[k + 1].event],
                        from[start + Scan(Rest(bytes, start))])]

LEMMA ScanType ==
  ASSUME NEW bytes \in Seq(Token)
  PROVE  Scan(bytes) \in 0..Len(bytes)
<1>1. CASE bytes = <<>>
  BY <1>1 DEF Scan
<1>2. CASE bytes # <<>>
  <2>1. bytes[1] \in Token
    BY <1>2
  <2>2. bytes[1].elements \in Nat
    BY <2>1 DEF Token
  <2> QED BY <1>2, <2>2 DEF Scan
<1> QED BY <1>1, <1>2

LEMMA PushDefined ==
  ASSUME NEW bytes \in Seq(Token)
  PROVE  \E from : Frames(bytes, from) /\ Push(bytes) = from[0]
<1> DEFINE n == Len(bytes)
           scan(x) == Scan(Rest(bytes, x))
           Val(f, x) == IF scan(x) = 0 THEN [values |-> <<>>, rest |-> Rest(bytes, x)]
                        ELSE Joined([k \in 1..(scan(x) - 1) |-> Rest(bytes, x)[k + 1].event], f[x + scan(x)])
           Is(f, k) == f = [x \in k..n |-> Val(f, x)]
           S == {m \in Nat : m <= n => \E f : Is(f, n - m)}
<1>1. n \in Nat
  OBVIOUS
<1>2. ASSUME NEW x \in 0..n PROVE scan(x) \in 0..(n - x)
  <2>1. Rest(bytes, x) \in Seq(Token) /\ Len(Rest(bytes, x)) = n - x
    BY DEF Rest
  <2> QED BY <2>1, ScanType
<1>3. ASSUME NEW f, NEW g, NEW x, f[x + scan(x)] = g[x + scan(x)] \/ scan(x) = 0
      PROVE  Val(f, x) = Val(g, x)
  BY <1>3, Zenon
<1>4. Push(bytes) = (CHOOSE f : f = [x \in 0..n |-> Val(f, x)])[0]
  BY Zenon DEF Push, Rest, Joined
<1>5. ASSUME NEW f PROVE Frames(bytes, f) <=> f = [x \in 0..n |-> Val(f, x)]
  BY Zenon DEF Frames
<1> HIDE DEF n, scan, Val
<1>6. ASSUME NEW k \in 0..n, NEW f, \A x \in (k + 1)..n : f[x] = Val(f, x)
      PROVE  \E g : Is(g, k)
  <2> DEFINE g == [x \in k..n |-> IF x = k THEN Val(f, x) ELSE f[x]]
  <2>1. k \in k..n /\ \A x \in (k + 1)..n : x \in k..n /\ x # k
    BY <1>1
  <2>2. g[k] = Val(f, k) /\ g = [x \in k..n |-> g[x]] /\ \A x \in (k + 1)..n : g[x] = f[x]
    BY <2>1, Zenon
  <2> HIDE DEF g
  <2>3. ASSUME NEW x \in k..n PROVE g[x] = Val(g, x)
    <3>1. Val(f, x) = Val(g, x)
      <4>1. x \in 0..n
        BY <1>1
      <4>2. x + scan(x) \in (k + 1)..n \/ scan(x) = 0
        <5>1. PICK y : y = scan(x)
          OBVIOUS
        <5>2. y \in 0..(n - x)
          BY <1>2, <4>1, <5>1, Zenon
        <5>3. x + y \in (k + 1)..n \/ y = 0
          BY <1>1, <5>2
        <5> QED BY <5>1, <5>3, Zenon
      <4>3. f[x + scan(x)] = g[x + scan(x)] \/ scan(x) = 0
        BY <2>2, <4>2, Zenon
      <4> QED BY <1>3, <4>3, Zenon
    <3>2. x = k \/ x \in (k + 1)..n
      BY <1>1
    <3> QED BY <1>6, <2>2, <3>1, <3>2, Zenon
  <2> QED BY <2>2, <2>3, Zenon
<1>7. 0 \in S
  <2>1. n \in 0..n /\ \A x \in (n + 1)..n : FALSE
    BY <1>1
  <2> HIDE DEF Is
  <2>2. \E g : Is(g, n)
    BY <1>6, <2>1, Zenon
  <2>3. n - 0 = n
    BY <1>1
  <2> QED BY <2>2, <2>3
<1>8. ASSUME NEW m \in Nat, m \in S PROVE m + 1 \in S
  <2>1. SUFFICES ASSUME m + 1 <= n PROVE \E f : Is(f, n - (m + 1))
    OBVIOUS
  <2>2. PICK k \in 0..n : k = n - (m + 1) /\ k + 1 = n - m
    BY <1>1, <2>1
  <2>3. PICK f : Is(f, k + 1)
    <3> HIDE DEF Is
    <3> QED BY <1>1, <1>8, <2>1, <2>2
  <2>4. \A x \in (k + 1)..n : f[x] = Val(f, x)
    BY <2>3, Zenon
  <2> HIDE DEF Is
  <2>5. \E g : Is(g, k)
    BY <1>6, <2>4, Zenon
  <2> QED BY <2>2, <2>5, Zenon
<1>9. Nat \subseteq S
  <2> HIDE DEF S
  <2> QED BY <1>7, <1>8, NatSetInduction
<1>10. PICK f : f = [x \in 0..n |-> Val(f, x)]
  <2>1. n <= n /\ n - n = 0
    BY <1>1
  <2> HIDE DEF Is
  <2>2. \E f : Is(f, 0)
    BY <1>1, <1>9, <2>1
  <2> USE DEF Is
  <2> QED BY <2>2, Zenon
<1> DEFINE from == CHOOSE g : g = [x \in 0..n |-> Val(g, x)]
<1>11. from = [x \in 0..n |-> Val(from, x)]
  BY <1>10, Zenon
<1> HIDE DEF from
<1>12. Frames(bytes, from)
  BY <1>5, <1>11, Zenon
<1> QED BY <1>4, <1>12, Zenon DEF from

Begin(ends, j) == ends[j] + j

(* What the j+1-st message looks like, if it is there.                     *)
OnWire(rest, told, ends, m, j, y) ==
  /\ j = m \/ Begin(ends, j + 1) > y => Scan(rest) = 0
  /\ j # m /\ Begin(ends, j + 1) <= y =>
       /\ Scan(rest) = Begin(ends, j + 1) - Begin(ends, j)
       /\ Begin(ends, j + 1) > Begin(ends, j)
       /\ [i \in 1..(Scan(rest) - 1) |-> rest[i + 1].event] = Messages(told, ends, m)[j + 1]

LEMMA MessageOnWire ==
  ASSUME NEW told, NEW ends, NEW m, NEW stream, Sent(told, ends, m, stream),
         NEW j \in 0..m, NEW y \in Nat, Begin(ends, j) <= y, y <= Len(stream)
  PROVE  OnWire(Slice(stream, Begin(ends, j), y), told, ends, m, j, y)
<1> USE DEF OnWire
<1> DEFINE rest == Slice(stream, Begin(ends, j), y)
<1>0. /\ m \in Nat /\ stream \in Seq(Token) /\ told \in Seq(Event)
      /\ Len(stream) = ends[m] + m /\ \A x \in 0..m : ends[x] \in 0..Len(told)
      /\ \A x \in 1..m :
           /\ ends[x - 1] <= ends[x]
           /\ stream[ends[x - 1] + x] = [elements |-> ends[x] - ends[x - 1]]
           /\ \A i \in (ends[x - 1] + 1)..ends[x] : stream[i + x] = [elements |-> 0, event |-> told[i]]
  BY Zenon DEF Sent
<1>1. PICK a \in Nat, b \in Nat : a = ends[j] /\ b = Begin(ends, j) /\ b = a + j /\ b <= y
  <2>1. ends[j] \in Nat
    BY <1>0
  <2> QED BY <2>1 DEF Begin
<1>2. /\ rest \in Seq(Token) /\ Len(rest) = y - b /\ \A i \in 1..(y - b) : rest[i] = stream[b + i]
  <2>1. /\ Slice(stream, b, y) \in Seq(Token) /\ Len(Slice(stream, b, y)) = y - b
        /\ \A i \in 1..(y - b) : Slice(stream, b, y)[i] = stream[b + i]
    <3>1. stream \in Seq(Token) /\ b \in Nat /\ y \in Nat /\ b <= y /\ y <= Len(stream)
      BY <1>0, <1>1
    <3> QED BY <3>1, SliceType, Zenon
  <2> QED BY <1>1, <2>1, Zenon
<1>j. j \in Nat /\ m \in Nat
  BY <1>0
<1> HIDE DEF rest
<1>3. CASE j = m
  <2>1. y = b
    BY <1>0, <1>1, <1>3
  <2>2. rest = <<>>
    BY <1>2, <2>1
  <2> QED BY <1>3, <2>2 DEF Scan, rest
<1>4. CASE j # m
  <2>1. PICK n \in 1..m : n = j + 1 /\ n - 1 = j /\ n \in 0..m
    BY <1>0, <1>4
  <2>2. PICK c \in Nat : c = ends[n] /\ a <= c /\ c <= Len(told) /\ Begin(ends, n) = c + n
    <3>1. ends[n] \in Nat /\ ends[n] <= Len(told)
      BY <1>0, <2>1
    <3>2. a <= ends[n]
      BY <1>0, <1>1, <2>1, Zenon
    <3> QED BY <3>1, <3>2 DEF Begin
  <2>a. b = a + j /\ n = j + 1 /\ a <= c /\ j \in Nat /\ b <= y
    BY <1>1, <1>j, <2>1, <2>2
  <2>3. stream[b + 1] = [elements |-> c - a] /\ \A i \in (a + 1)..c : stream[i + n] = [elements |-> 0, event |-> told[i]]
    <3>1. a + n = b + 1
      BY <2>a
    <3> QED BY <1>0, <1>1, <2>1, <2>2, <3>1, Zenon
  <2>4. CASE c + n > y
    <3>1. CASE y = b
      <4>1. rest = <<>>
        BY <1>2, <3>1
      <4> QED BY <2>1, <2>2, <2>4, <1>4, <4>1 DEF Scan, rest
    <3>2. CASE y # b
      <4>1. rest[1] = [elements |-> c - a]
        <5>1. 1 \in 1..(y - b)
          BY <1>1, <3>2
        <5> QED BY <1>2, <2>3, <5>1, Zenon
      <4>2. Len(rest) < 1 + rest[1].elements
        <5>1. Len(rest) = y - b /\ rest[1].elements = c - a
          BY <1>2, <4>1
        <5> QED BY <2>4, <2>a, <5>1
      <4> QED BY <2>1, <2>2, <2>4, <1>4, <4>2 DEF Scan, rest
    <3> QED BY <3>1, <3>2
  <2>5. CASE ~(c + n > y)
    <3>1. 1 \in 1..(y - b)
      BY <2>2, <2>5, <2>a
    <3>2. rest[1] = [elements |-> c - a] /\ rest # <<>>
      BY <1>2, <2>3, <3>1
    <3>3. Scan(rest) = 1 + (c - a)
      <4>1. rest[1].elements = c - a
        BY <3>2
      <4>2. ~(Len(rest) < 1 + (c - a))
        <5>1. Len(rest) = y - b
          BY <1>2
        <5> QED BY <2>5, <2>a, <5>1
      <4> QED BY <3>2, <4>1, <4>2, Zenon DEF Scan
    <3>4. Messages(told, ends, m)[n] = [i \in 1..(c - a) |-> told[a + i]]
      BY <1>1, <2>1, <2>2, Zenon DEF Messages, Slice
    <3>5. ASSUME NEW i \in 1..(c - a) PROVE rest[i + 1].event = told[a + i]
      <4>1. /\ i + 1 \in 1..(y - b) /\ a + i \in (a + 1)..c /\ (a + i) + n = b + (i + 1)
        BY <2>5, <2>a
      <4>2. rest[i + 1] = [elements |-> 0, event |-> told[a + i]]
        <5>1. rest[i + 1] = stream[b + (i + 1)]
          BY <1>2, <4>1, Zenon
        <5>2. stream[(a + i) + n] = [elements |-> 0, event |-> told[a + i]]
          BY <2>3, <4>1, Zenon
        <5> QED BY <4>1, <5>1, <5>2, Zenon
      <4> QED BY <4>2
    <3>6. Scan(rest) - 1 = c - a /\ Scan(rest) = (c + n) - b /\ c + n > b /\ c + n <= y
      BY <2>5, <2>a, <3>3
    <3>7. [i \in 1..(Scan(rest) - 1) |-> rest[i + 1].event] = Messages(told, ends, m)[n]
      BY <3>4, <3>5, <3>6, Zenon
    <3> QED BY <1>1, <1>4, <2>1, <2>2, <3>6, <3>7 DEF rest
  <2> QED BY <2>4, <2>5
<1> QED BY <1>3, <1>4

(* A push takes whole messages, in the order they were sent, and keeps the *)
(* rest.                                                                   *)
Pushed(pushed, told, ends, m, stream, k, l, y) ==
  /\ Begin(ends, k) <= Begin(ends, l) /\ Begin(ends, l) <= y
  /\ pushed = [values |-> Slice(Messages(told, ends, m), k, l), rest |-> Slice(stream, Begin(ends, l), y)]

LEMMA PushedMessages ==
  ASSUME NEW told, NEW ends, NEW m, NEW stream, Sent(told, ends, m, stream),
         NEW k \in 0..m, NEW y \in Nat, Begin(ends, k) <= y, y <= Len(stream)
  PROVE  \E l \in k..m : Pushed(Push(Slice(stream, Begin(ends, k), y)), told, ends, m, stream, k, l, y)
<1>1. /\ m \in Nat /\ stream \in Seq(Token) /\ \A x \in 0..m : Begin(ends, x) \in Nat
  <2>1. m \in Nat /\ stream \in Seq(Token) /\ \A x \in 0..m : ends[x] \in 0..Len(told)
    BY Zenon DEF Sent
  <2>2. ASSUME NEW x \in 0..m PROVE Begin(ends, x) \in Nat
    BY <2>1 DEF Begin
  <2> QED BY <2>1, <2>2
<1> DEFINE messages == Messages(told, ends, m)
           first == Begin(ends, k)
           bytes == Slice(stream, first, y)
           After(j) == Slice(stream, Begin(ends, j), y)
<1>2. messages \in Seq(Seq(Event)) /\ Len(messages) = m
  BY MessagesType, Zenon
<1>3. first \in Nat
  BY <1>1
<1>4. bytes \in Seq(Token) /\ Len(bytes) = y - first
  BY <1>1, <1>3, SliceType, Zenon
<1>5. PICK from : Frames(bytes, from) /\ Push(bytes) = from[0]
  BY <1>4, PushDefined, Zenon
<1> HIDE DEF messages, first
<1> DEFINE Good(j) == \E l \in j..m :
             /\ Begin(ends, j) <= Begin(ends, l) /\ Begin(ends, l) <= y
             /\ from[Begin(ends, j) - first] = [values |-> Slice(messages, j, l), rest |-> After(l)]
           S == {x \in Nat : \A j \in k..m : m - j = x /\ first <= Begin(ends, j) /\ Begin(ends, j) <= y => Good(j)}
<1>6. ASSUME NEW j \in k..m, first <= Begin(ends, j), Begin(ends, j) <= y
      PROVE  /\ j \in 0..m
             /\ Begin(ends, j) - first \in 0..Len(bytes)
             /\ Rest(bytes, Begin(ends, j) - first) = After(j)
  <2>1. j \in 0..m
    BY <1>1
  <2>2. PICK a \in Nat, start \in Nat, n \in Nat :
          /\ a = Begin(ends, j) /\ start = a - first /\ n = y - first
          /\ start <= n /\ first + start = a /\ first + n = y /\ first <= y
    BY <1>1, <1>3, <1>6, <2>1
  <2>3. SubSeq(bytes, start + 1, n) = Slice(stream, first + start, first + n)
    <3>1. /\ stream \in Seq(Token) /\ first \in Nat /\ first <= y /\ y <= Len(stream) /\ n <= y - first
          /\ start \in Nat /\ n \in Nat /\ start <= n
      BY <1>1, <1>3, <2>2
    <3>2. CanSlice(first, y, Len(stream)) /\ CanSlice(start, n, y - first)
      BY <3>1, Zenon DEF CanSlice
    <3>3. IsSub(stream, first, y, start, n)
      BY <3>1, <3>2, SliceSub, Zenon
    <3> QED BY <3>3, Zenon DEF IsSub, bytes
  <2>4. SubSeq(bytes, start + 1, Len(bytes)) = Slice(stream, a, y)
    BY <1>4, <2>2, <2>3, Zenon
  <2>5. start \in 0..n
    BY <2>2
  <2> QED BY <1>4, <2>1, <2>2, <2>4, <2>5, Zenon DEF Rest
<1> HIDE DEF bytes, After
<1>7. ASSUME NEW j \in k..m, first <= Begin(ends, j), Begin(ends, j) <= y,
             j = m \/ Begin(ends, j + 1) > y
      PROVE  Good(j)
  <2>1. Scan(After(j)) = 0
    <3>1. OnWire(After(j), told, ends, m, j, y)
      BY <1>6, <1>7, MessageOnWire, Zenon DEF After
    <3> QED BY <1>7, <3>1, Zenon DEF OnWire
  <2>2. from[Begin(ends, j) - first] = [values |-> <<>>, rest |-> After(j)]
    BY <1>5, <1>6, <1>7, <2>1, Zenon DEF Frames
  <2>3. Slice(messages, j, j) = <<>> /\ j \in j..m
    <3>1. j \in Nat
      BY <1>1
    <3> QED BY <3>1, SliceEmpty
  <2>4. Begin(ends, j) <= Begin(ends, j)
    BY <1>1, <1>6, <1>7
  <2> QED BY <1>7, <2>2, <2>3, <2>4, Zenon
<1>8. ASSUME NEW j \in k..m, first <= Begin(ends, j), Begin(ends, j) <= y,
             j # m, Begin(ends, j + 1) <= y, first <= Begin(ends, j + 1) => Good(j + 1)
      PROVE  Good(j)
  <2> DEFINE rest == After(j)
  <2>1. /\ Scan(rest) = Begin(ends, j + 1) - Begin(ends, j)
        /\ Begin(ends, j + 1) > Begin(ends, j)
        /\ [i \in 1..(Scan(rest) - 1) |-> rest[i + 1].event] = messages[j + 1]
    <3>1. OnWire(After(j), told, ends, m, j, y)
      BY <1>6, <1>8, MessageOnWire, Zenon DEF After
    <3> QED BY <1>8, <3>1, Zenon DEF OnWire, messages
  <2>2. PICK a \in Nat, b \in Nat : a = Begin(ends, j) /\ b = Begin(ends, j + 1)
    <3>1. j \in 0..m /\ j + 1 \in 0..m
      BY <1>1, <1>8
    <3> QED BY <1>1, <3>1, Zenon
  <2>3. Scan(rest) = b - a /\ b > a /\ first <= a /\ first <= b
    BY <1>3, <1>8, <2>1, <2>2
  <2>4. PICK l \in (j + 1)..m :
          /\ b <= Begin(ends, l) /\ Begin(ends, l) <= y
          /\ from[b - first] = [values |-> Slice(messages, j + 1, l), rest |-> After(l)]
    BY <1>8, <2>2, <2>3, Zenon
  <2>5. Scan(rest) # 0 /\ (a - first) + Scan(rest) = b - first
    BY <1>3, <2>3
  <2> HIDE DEF rest
  <2>6. from[a - first] = Joined(messages[j + 1], from[b - first])
    <3>1. a - first \in 0..Len(bytes) /\ Rest(bytes, a - first) = rest
      BY <1>6, <1>8, <2>2, Zenon DEF rest
    <3>2. from[a - first] = Joined([i \in 1..(Scan(rest) - 1) |-> rest[i + 1].event], from[(a - first) + Scan(rest)])
      BY <1>5, <2>5, <3>1, Zenon DEF Frames
    <3> QED BY <2>1, <2>5, <3>2, Zenon
  <2>7. <<messages[j + 1]>> \o Slice(messages, j + 1, l) = Slice(messages, j, l)
    <3>1. PICK n \in Nat : n = j + 1 /\ j \in Nat /\ l \in Nat /\ j <= n /\ n <= l /\ l <= m /\ n <= m
      BY <1>1
    <3>2. Slice(messages, j, n) = <<messages[n]>>
      <4>1. j \in Nat /\ j + 1 <= Len(messages)
        BY <1>2, <3>1
      <4> QED BY <1>2, <3>1, <4>1, SliceOne, Zenon
    <3>3. Slice(messages, j, n) \o Slice(messages, n, l) = Slice(messages, j, l)
      <4>1. CanJoin(j, n, l)
        BY <3>1 DEF CanJoin
      <4> QED BY <4>1, SliceConcat, Zenon
    <3> QED BY <3>1, <3>2, <3>3, Zenon
  <2>8. from[a - first] = [values |-> Slice(messages, j, l), rest |-> After(l)]
    <3>1. \A v, r, x : /\ [[values |-> v, rest |-> r] EXCEPT !.values = x] = [values |-> x, rest |-> r]
                       /\ [values |-> v, rest |-> r].values = v
      OBVIOUS
    <3>2. \A v, r, x : Joined(x, [values |-> v, rest |-> r]) = [values |-> <<x>> \o v, rest |-> r]
      BY <3>1, Zenon DEF Joined
    <3>3. Joined(messages[j + 1], [values |-> Slice(messages, j + 1, l), rest |-> After(l)])
          = [values |-> <<messages[j + 1]>> \o Slice(messages, j + 1, l), rest |-> After(l)]
      BY <3>2, Zenon
    <3> QED BY <2>4, <2>6, <2>7, <3>3
  <2>9. l \in j..m /\ a <= Begin(ends, l)
    <3>1. l \in 0..m /\ l \in j..m
      BY <1>1
    <3>2. Begin(ends, l) \in Nat
      BY <1>1, <3>1, Zenon
    <3> QED BY <2>3, <2>4, <3>1, <3>2
  <2> QED BY <2>2, <2>4, <2>8, <2>9, Zenon
<1> HIDE DEF Good
<1>9. 0 \in S
  <2>1. \A j \in k..m : m - j = 0 => j = m
    BY <1>1
  <2> QED BY <1>7, <2>1
<1>10. ASSUME NEW x \in Nat, x \in S PROVE x + 1 \in S
  <2>1. SUFFICES ASSUME NEW j \in k..m, m - j = x + 1, first <= Begin(ends, j), Begin(ends, j) <= y
                 PROVE  Good(j)
    OBVIOUS
  <2>2. j + 1 \in k..m /\ m - (j + 1) = x /\ j # m
    BY <1>1, <2>1
  <2>3. CASE Begin(ends, j + 1) > y
    BY <1>7, <2>1, <2>3, Zenon
  <2>4. CASE Begin(ends, j + 1) <= y
    <3>1. first <= Begin(ends, j + 1) => Good(j + 1)
      BY <1>10, <2>2, <2>4
    <3> QED BY <1>8, <2>1, <2>2, <2>4, <3>1, Zenon
  <2>5. Begin(ends, j + 1) \in Nat
    <3>1. j + 1 \in 0..m
      BY <1>1, <2>2
    <3> QED BY <1>1, <3>1, Zenon
  <2> QED BY <2>3, <2>4, <2>5
<1>11. Nat \subseteq S
  <2> HIDE DEF S
  <2> QED BY <1>9, <1>10, NatSetInduction
<1>12. Good(k)
  <2>1. m - k \in Nat /\ k \in k..m /\ first <= Begin(ends, k) /\ Begin(ends, k) <= y
    BY <1>1, <1>3 DEF first
  <2> QED BY <1>11, <2>1, Zenon
<1>13. Begin(ends, k) - first = 0
  BY <1>3 DEF first
<1> QED BY <1>5, <1>12, <1>13, Zenon DEF Good, Pushed, messages, After, bytes, first

-----------------------------------------------------------------------------
(* The batches                                                             *)

Batches(told, cut, n) == [b \in 1..n |-> Slice(told, cut[b - 1], cut[b])]

LEMMA BatchesType ==
  ASSUME NEW told, NEW at, NEW cut, NEW past, NEW shown, Told(told, at, cut, past, shown)
  PROVE  /\ Batches(told, cut, Len(shown)) \in Seq(Seq(Event))
         /\ Len(Batches(told, cut, Len(shown))) = Len(shown)
<1>1. PICK n \in Nat : n = Len(shown)
  BY DEF Told
<1>2. /\ told \in Seq(Event) /\ \A b \in 0..n : cut[b] \in 0..Len(told)
      /\ \A b \in 1..n : cut[b - 1] <= cut[b]
  BY <1>1, Zenon DEF Told
<1>3. ASSUME NEW b \in 1..n PROVE Slice(told, cut[b - 1], cut[b]) \in Seq(Event)
  <2>1. b - 1 \in 0..n /\ b \in 0..n
    OBVIOUS
  <2>2. PICK x \in Nat, y \in Nat : x = cut[b - 1] /\ y = cut[b] /\ x <= y /\ y <= Len(told)
    BY <1>2, <2>1
  <2> QED BY <1>2, <2>2, SliceType, Zenon
<1>4. Batches(told, cut, n) \in [1..n -> Seq(Event)]
  BY <1>3, Zenon DEF Batches
<1> QED BY <1>1, <1>4

LEMMA PastGrows ==
  ASSUME NEW told, NEW at, NEW cut, NEW past, NEW shown, Told(told, at, cut, past, shown),
         NEW q \in 0..Len(told)
  PROVE  \A x \in q..Len(told) : past[x] \in Nat /\ past[q] <= past[x]
<1>1. PICK m \in Nat, n \in Nat : m = Len(told) /\ n = Len(shown)
  BY DEF Told
<1>2. \A i \in 0..m : past[i] \in 0..n
  BY <1>1, Zenon DEF Told
<1>3. \A i \in 1..m : past[i] = past[i - 1] + 1 \/ past[i] = past[i - 1]
  BY <1>1, Zenon DEF Told
<1> DEFINE S == {x \in Nat : q + x <= m => past[q] <= past[q + x]}
<1>4. 0 \in S
  <2>1. q + 0 = q /\ q \in 0..m
    BY <1>1
  <2>2. past[q] \in Nat
    BY <1>2, <2>1
  <2> QED BY <2>1, <2>2
<1>5. ASSUME NEW x \in Nat, x \in S PROVE x + 1 \in S
  <2>1. SUFFICES ASSUME q + (x + 1) <= m PROVE past[q] <= past[q + (x + 1)]
    OBVIOUS
  <2>2. PICK i \in 1..m : i = q + (x + 1) /\ i - 1 = q + x /\ q + x <= m /\ i - 1 \in 0..m /\ i \in 0..m /\ q \in 0..m
    BY <1>1, <2>1
  <2>3. PICK a \in Nat, b \in Nat, c \in Nat : a = past[q] /\ b = past[i - 1] /\ c = past[i]
    BY <1>2, <2>2
  <2>4. a <= b
    BY <1>5, <2>2, <2>3
  <2>5. c = b + 1 \/ c = b
    BY <1>3, <2>2, <2>3, Zenon
  <2>6. a <= c
    BY <2>4, <2>5
  <2> QED BY <2>2, <2>3, <2>6
<1>6. Nat \subseteq S
  <2> HIDE DEF S
  <2> QED BY <1>4, <1>5, NatSetInduction
<1>7. ASSUME NEW x \in q..m PROVE past[x] \in Nat /\ past[q] <= past[x]
  <2>1. x - q \in Nat /\ q + (x - q) = x /\ q + (x - q) <= m /\ x \in 0..m
    BY <1>1
  <2>2. past[q] <= past[q + (x - q)]
    BY <1>6, <2>1, Zenon
  <2>3. past[x] \in Nat
    BY <1>2, <2>1
  <2> QED BY <2>1, <2>2, <2>3
<1> QED BY <1>1, <1>7, Zenon

(* Delivering the events from q to q2 posts the batches that end there.    *)
Delivered(done, told, cut, past, n, q, q2) ==
  done = [pending |-> Slice(told, cut[past[q2]], q2),
          posted  |-> Slice(Batches(told, cut, n), past[q], past[q2])]

LEMMA CollectedBatches ==
  ASSUME NEW told, NEW at, NEW cut, NEW past, NEW shown, Told(told, at, cut, past, shown),
         NEW q \in 0..Len(told), NEW q2 \in q..Len(told), pending = Slice(told, cut[past[q]], q)
  PROVE  Delivered(Collected(Slice(told, q, q2)), told, cut, past, Len(shown), q, q2)
<1>1. PICK m \in Nat, n \in Nat, k \in Nat : m = Len(told) /\ n = Len(shown) /\ k = q2 - q
  BY DEF Told
<1>2. /\ told \in Seq(Event) /\ \A i \in 0..m : past[i] \in 0..n /\ cut[past[i]] <= i
      /\ \A b \in 0..n : cut[b] \in 0..m
      /\ \A i \in 1..m : IF told[i].type = "flush" THEN past[i] = past[i - 1] + 1 /\ cut[past[i]] = i
                         ELSE past[i] = past[i - 1]
  BY <1>1, Zenon DEF Told
<1>3. \A x \in q..m : past[x] \in Nat /\ past[q] <= past[x]
  BY <1>1, PastGrows, Zenon
<1>4. /\ q \in Nat /\ q2 \in Nat /\ q <= q2 /\ q2 <= m /\ q + k = q2 /\ q \in 0..m
  BY <1>1
<1> DEFINE events == Slice(told, q, q2)
           batches == Batches(told, cut, n)
           At(x) == [pending |-> Slice(told, cut[past[x]], x), posted |-> Slice(batches, past[q], past[x])]
           f == [i \in 0..k |-> At(q + i)]
<1>5. /\ events \in Seq(Event) /\ Len(events) = k /\ \A i \in 1..k : events[i] = told[q + i]
  <2>1. told \in Seq(Event) /\ q \in Nat /\ q2 \in Nat /\ q <= q2 /\ q2 <= Len(told)
    BY <1>1, <1>2, <1>4
  <2>2. /\ events \in Seq(Event) /\ Len(events) = q2 - q /\ \A i \in 1..(q2 - q) : events[i] = told[q + i]
    <3>1. PICK l : l = Slice(told, q, q2)
      OBVIOUS
    <3>2. l \in Seq(Event) /\ Len(l) = q2 - q /\ \A i \in 1..(q2 - q) : l[i] = told[q + i]
      <4>1. /\ Slice(told, q, q2) \in Seq(Event) /\ Len(Slice(told, q, q2)) = q2 - q
            /\ \A i \in 1..(q2 - q) : Slice(told, q, q2)[i] = told[q + i]
        <5> HIDE DEF events
        <5> QED BY ONLY <2>1, SliceType, Zenon
      <4> QED BY <3>1, <4>1, Zenon
    <3> QED BY <3>1, <3>2, Zenon
  <2> QED BY <1>1, <2>2, Zenon
<1>6. batches \in Seq(Seq(Event)) /\ Len(batches) = n
  <2>1. /\ Batches(told, cut, Len(shown)) \in Seq(Seq(Event))
        /\ Len(Batches(told, cut, Len(shown))) = Len(shown)
    BY BatchesType
  <2> QED BY <1>1, <2>1, Zenon
<1> HIDE DEF events
<1>7. ASSUME NEW x \in q..m, NEW y \in q..m, y = x + 1 PROVE At(y) = Collect(At(x), told[y])
  <2>1. PICK p \in Nat, c \in Nat : p = past[x] /\ c = cut[p] /\ c <= x /\ p <= n /\ x \in Nat /\ y \in Nat
    <3>1. x \in 0..m
      BY <1>4
    <3>2. past[x] \in 0..n /\ cut[past[x]] <= x
      BY <1>2, <3>1, Zenon
    <3>3. cut[past[x]] \in 0..m
      BY <1>2, <3>2, Zenon
    <3> QED BY <3>1, <3>2, <3>3, <1>4
  <2>2. y \in 1..m /\ y - 1 = x /\ y \in 0..m /\ y <= Len(told) /\ x + 1 <= Len(told)
    BY <1>1, <1>4, <1>7
  <2>3. Append(Slice(told, c, x), told[y]) = Slice(told, c, y)
    <3>1. Append(Slice(told, c, x), told[x + 1]) = Slice(told, c, x + 1)
      <4>1. CanSlice(c, x, x)
        BY <1>4, <2>1 DEF CanSlice
      <4> QED BY <4>1, SliceAppend, Zenon
    <3> QED BY <1>7, <3>1, Zenon
  <2>4. PICK a \in Nat : a = past[q] /\ a <= p
    <3>1. q \in q..m
      BY <1>4
    <3> QED BY <1>3, <2>1, <3>1
  <2>a. At(x) = [pending |-> Slice(told, c, x), posted |-> Slice(batches, a, p)]
    BY <2>1, <2>4, Zenon
  <2>5. CASE told[y].type = "flush"
    <3>1. past[y] = p + 1 /\ cut[past[y]] = y
      BY <1>2, <2>1, <2>2, <2>5, Zenon
    <3>2. PICK b \in Nat : b = p + 1 /\ b - 1 = p /\ b \in 1..n
      <4>1. past[y] \in 0..n
        BY <1>2, <2>2, Zenon
      <4> QED BY <2>1, <3>1, <4>1
    <3>3. batches[b] = Slice(told, c, y)
      BY <2>1, <3>1, <3>2, Zenon DEF Batches
    <3>4. Append(Slice(batches, a, p), batches[b]) = Slice(batches, a, b)
      <4>1. CanSlice(a, p, p)
        BY <2>1, <2>4 DEF CanSlice
      <4>2. Append(Slice(batches, a, p), batches[p + 1]) = Slice(batches, a, p + 1)
        <5> HIDE DEF batches
        <5> QED BY <4>1, SliceAppend, Zenon
      <4> QED BY <3>2, <4>2, Zenon
    <3>5. Slice(told, y, y) = <<>>
      BY <2>1, SliceEmpty
    <3>6. At(y) = [pending |-> <<>>, posted |-> Slice(batches, a, b)]
      BY <2>4, <3>1, <3>2, <3>5, Zenon
    <3> HIDE DEF At, batches
    <3>7. Collect(At(x), told[y]) =
            [pending |-> <<>>, posted |-> Append(At(x).posted, Append(At(x).pending, told[y]))]
      BY <2>5, Zenon DEF Collect
    <3>8. At(x).posted = Slice(batches, a, p) /\ At(x).pending = Slice(told, c, x)
      BY <2>a
    <3> QED BY <2>3, <3>3, <3>4, <3>6, <3>7, <3>8, Zenon
  <2>6. CASE told[y].type # "flush"
    <3>1. past[y] = p
      BY <1>2, <2>1, <2>2, <2>6, Zenon
    <3>2. At(y) = [pending |-> Slice(told, c, y), posted |-> Slice(batches, a, p)]
      BY <2>1, <2>4, <3>1, Zenon
    <3> HIDE DEF At, batches
    <3>3. Collect(At(x), told[y]) = [At(x) EXCEPT !.pending = Append(@, told[y])]
      BY <2>6, Zenon DEF Collect
    <3>4. \A v, w, z : /\ [[pending |-> v, posted |-> w] EXCEPT !.pending = z] = [pending |-> z, posted |-> w]
                       /\ [pending |-> v, posted |-> w].pending = v
      OBVIOUS
    <3>5. Collect(At(x), told[y]) = [pending |-> Append(Slice(told, c, x), told[y]), posted |-> Slice(batches, a, p)]
      <4>1. At(x).pending = Slice(told, c, x)
        BY <2>a
      <4>2. [At(x) EXCEPT !.pending = Append(Slice(told, c, x), told[y])]
            = [pending |-> Append(Slice(told, c, x), told[y]), posted |-> Slice(batches, a, p)]
        <5>1. PICK state, v, w, z : /\ state = At(x) /\ v = Slice(told, c, x) /\ w = Slice(batches, a, p)
                                    /\ z = Append(v, told[y])
          OBVIOUS
        <5>2. state = [pending |-> v, posted |-> w]
          BY <2>a, <5>1, Zenon
        <5>3. [state EXCEPT !.pending = z] = [pending |-> z, posted |-> w]
          BY <5>2
        <5> QED BY <5>1, <5>3, Zenon
      <4> QED BY <3>3, <4>1, <4>2, Zenon
    <3> QED BY <2>3, <3>2, <3>5, Zenon
  <2> QED BY <2>5, <2>6, Zenon
<1>8. f[0] = [pending |-> pending, posted |-> <<>>]
  <2>1. 0 \in 0..k /\ q + 0 = q
    BY <1>4
  <2>2. Slice(batches, past[q], past[q]) = <<>>
    <3>1. past[q] \in Nat
      BY <1>2, <1>4
    <3> QED BY <3>1, SliceEmpty
  <2> QED BY <2>1, <2>2, Zenon
<1>9. ASSUME NEW i \in 1..k PROVE f[i] = Collect(f[i - 1], events[i])
  <2>1. PICK x \in q..m, y \in q..m : x = q + (i - 1) /\ y = q + i /\ y = x + 1
    BY <1>1, <1>4
  <2>2. i \in 0..k /\ i - 1 \in 0..k
    OBVIOUS
  <2>3. f[i] = At(y) /\ f[i - 1] = At(x)
    BY <2>1, <2>2, Zenon
  <2>4. events[i] = told[y]
    BY <1>5, <2>1, Zenon
  <2> HIDE DEF f, At, events
  <2>5. At(y) = Collect(At(x), told[y])
    BY <1>7, <2>1, Zenon
  <2> QED BY <2>3, <2>4, <2>5, Zenon
<1>10. f[k] = At(q2)
  <2>1. k \in 0..k
    OBVIOUS
  <2> QED BY <1>4, <2>1, Zenon
<1> HIDE DEF f
<1>11. Collects(f, events)
  BY <1>5, <1>8, <1>9, Zenon DEF Collects
<1>12. Collected(events) = f[k]
  BY <1>5, <1>11, CollectedResult
<1> QED BY <1>1, <1>10, <1>12, Zenon DEF Delivered, events

(* Replaying a slice.                                                      *)
LEMMA ReplayedSlice ==
  ASSUME NEW told, NEW at, NEW cut, NEW past, NEW shown, Told(told, at, cut, past, shown),
         NEW a \in Nat, NEW b \in Nat, a <= b, b <= Len(told)
  PROVE  Replayed(at[a], Slice(told, a, b)) = at[b]
<1>1. PICK n \in Nat : n = b - a
  OBVIOUS
<1>2. told \in Seq(Event) /\ \A i \in 1..Len(told) : at[i] = Apply(at[i - 1], told[i])
  BY Zenon DEF Told, Replays
<1> DEFINE events == Slice(told, a, b)
           f == [i \in 0..n |-> at[a + i]]
<1>3. events \in Seq(Event) /\ Len(events) = n /\ \A i \in 1..n : events[i] = told[a + i]
  <2>1. told \in Seq(Event) /\ a \in Nat /\ b \in Nat /\ a <= b /\ b <= Len(told)
    BY <1>2
  <2>2. /\ events \in Seq(Event) /\ Len(events) = b - a /\ \A i \in 1..(b - a) : events[i] = told[a + i]
    BY <2>1, SliceType, Zenon
  <2> QED BY <1>1, <2>2, Zenon
<1>4. f[0] = at[a] /\ f[n] = at[b]
  <2>1. a + 0 = a /\ a + n = b /\ 0 \in 0..n /\ n \in 0..n
    BY <1>1
  <2> QED BY <2>1
<1> HIDE DEF events
<1>5. ASSUME NEW i \in 1..n PROVE f[i] = Apply(f[i - 1], events[i])
  <2>1. PICK x : x = a + i /\ x \in 1..Len(told) /\ x - 1 = a + (i - 1) /\ i \in 0..n /\ i - 1 \in 0..n
    BY <1>1, <1>2
  <2>2. f[i] = at[x] /\ f[i - 1] = at[x - 1] /\ events[i] = told[x]
    BY <1>3, <2>1, Zenon
  <2> QED BY <1>2, <2>1, <2>2, Zenon
<1> HIDE DEF f
<1>6. Replays(f, at[a], events)
  BY <1>3, <1>4, <1>5, Zenon DEF Replays
<1> QED BY <1>3, <1>4, <1>6, ReplayedResult DEF events

-----------------------------------------------------------------------------
(* The pipeline                                                            *)

(* Of the bytes sent, y have been read; the framer has cut k messages off  *)
(* them and keeps what is left.                                            *)
Received(stream, ends, k, y) ==
  /\ y \in Nat /\ Begin(ends, k) <= y /\ y <= Len(stream)
  /\ buffer = Slice(stream, Begin(ends, k), y) /\ wire = Slice(stream, y, Len(stream))

(* Of the events told, the first q have been delivered.                    *)
Replaying(told, at, cut, past, q) ==
  /\ handled \in 0..past[q]
  /\ channel = Slice(Batches(told, cut, Len(frames)), handled, past[q])
  /\ pending = Slice(told, cut[past[q]], q)
  /\ grid = at[cut[handled]]

Pipeline(told, at, cut, past, ends, m, stream, k, d, y) ==
  /\ Told(told, at, cut, past, frames) /\ Like(at[Len(told)], screen)
  /\ Sent(told, ends, m, stream) /\ message = Slice(told, ends[m], Len(told))
  /\ k \in 0..m /\ Received(stream, ends, k, y)
  /\ d \in 0..k
  /\ ordered => inbox = Slice(Messages(told, ends, m), d, k) /\ Replaying(told, at, cut, past, ends[d])

PipelineInv ==
  /\ ops \in 0..MaxOps
  /\ \E told, at, cut, past, ends, m, stream, k, d, y :
       Pipeline(told, at, cut, past, ends, m, stream, k, d, y)

(* A longer history, the same past.                                        *)
Grows(told, at, cut, past, shown, told2, at2, cut2, past2, shown2) ==
  /\ Told(told, at, cut, past, shown) /\ Told(told2, at2, cut2, past2, shown2)
  /\ Len(told) <= Len(told2) /\ Len(shown) <= Len(shown2)
  /\ \A i \in 1..Len(told) : told2[i] = told[i]
  /\ Continues(at2, at, Len(told)) /\ Continues(past2, past, Len(told)) /\ Continues(cut2, cut, Len(shown))

LongerThan(told2, told) ==
  told2 \in Seq(Event) /\ Len(told) <= Len(told2) /\ \A i \in 1..Len(told) : told2[i] = told[i]

LEMMA SentStays ==
  ASSUME NEW told, NEW told2, LongerThan(told2, told),
         NEW ends, NEW m, NEW stream, Sent(told, ends, m, stream)
  PROVE  Sent(told2, ends, m, stream) /\ Messages(told2, ends, m) = Messages(told, ends, m)
<1>1. PICK t \in Nat, t2 \in Nat : t = Len(told) /\ t2 = Len(told2) /\ t <= t2
  BY DEF Sent, LongerThan
<1>2. /\ m \in Nat /\ ends \in [0..m -> 0..t] /\ ends[0] = 0 /\ \A j \in 1..m : ends[j - 1] <= ends[j]
      /\ stream \in Seq(Token) /\ Len(stream) = ends[m] + m
      /\ \A j \in 1..m : /\ stream[ends[j - 1] + j] = [elements |-> ends[j] - ends[j - 1]]
                         /\ \A i \in (ends[j - 1] + 1)..ends[j] : stream[i + j] = [elements |-> 0, event |-> told[i]]
  BY <1>1, Zenon DEF Sent
<1>3. ASSUME NEW j \in 1..m
      PROVE  /\ \A i \in (ends[j - 1] + 1)..ends[j] : told2[i] = told[i]
             /\ Slice(told2, ends[j - 1], ends[j]) = Slice(told, ends[j - 1], ends[j])
  <2>1. j - 1 \in 0..m /\ j \in 0..m
    BY <1>2
  <2>2. PICK a \in Nat, b \in Nat : a = ends[j - 1] /\ b = ends[j] /\ b <= t
    <3>1. ends[j - 1] \in 0..t /\ ends[j] \in 0..t
      BY <1>2, <2>1, Zenon
    <3> QED BY <3>1
  <2>3. \A i \in (a + 1)..b : i \in 1..t
    BY <2>2
  <2>4. Slice(told2, a, b) = Slice(told, a, b)
    <3>1. \A i \in 1..t : told2[i] = told[i]
      BY <1>1, Zenon DEF LongerThan
    <3> QED BY <2>2, <3>1 DEF Slice
  <2> QED BY <1>1, <2>2, <2>3, <2>4, Zenon DEF LongerThan
<1>4. ends \in [0..m -> 0..t2]
  BY <1>1, <1>2
<1>5. ASSUME NEW j \in 1..m, NEW i \in (ends[j - 1] + 1)..ends[j]
      PROVE  stream[i + j] = [elements |-> 0, event |-> told2[i]]
  BY <1>2, <1>3, Zenon
<1>6. Sent(told2, ends, m, stream)
  BY <1>1, <1>2, <1>4, <1>5, Zenon DEF Sent, LongerThan
<1> QED BY <1>3, <1>6, Zenon DEF Messages

LEMMA ReplayingStays ==
  ASSUME NEW told, NEW at, NEW cut, NEW past, NEW told2, NEW at2, NEW cut2, NEW past2,
         Grows(told, at, cut, past, frames, told2, at2, cut2, past2, frames'),
         NEW q \in 0..Len(told), Replaying(told, at, cut, past, q),
         UNCHANGED <<handled, channel, pending, grid>>
  PROVE  Replaying(told2, at2, cut2, past2, q)'
<1>1. PICK t \in Nat, n \in Nat, n2 \in Nat :
        /\ t = Len(told) /\ n = Len(frames) /\ n2 = Len(frames') /\ n <= n2
  BY DEF Grows, Told
<1>2. /\ \A i \in 0..t : past[i] \in 0..n /\ at2[i] = at[i] /\ past2[i] = past[i]
      /\ \A b \in 0..n : cut[b] \in 0..t /\ cut2[b] = cut[b]
      /\ \A i \in 1..t : told2[i] = told[i]
  BY <1>1, Zenon DEF Grows, Told, Continues
<1>3. PICK p \in Nat, c \in Nat, h \in Nat :
        /\ p = past[q] /\ c = cut[p] /\ p <= n /\ c <= t /\ h = handled /\ h <= p
        /\ past2[q] = p /\ cut2[p] = c /\ cut2[h] = cut[h] /\ cut[h] \in 0..t
  <2>1. past[q] \in 0..n /\ past2[q] = past[q]
    BY <1>1, <1>2
  <2>2. cut[past[q]] \in 0..t /\ cut2[past[q]] = cut[past[q]]
    BY <1>2, <2>1
  <2>3. handled \in 0..past[q]
    BY Zenon DEF Replaying
  <2>4. handled \in 0..n
    BY <1>1, <2>1, <2>3
  <2>5. cut[handled] \in 0..t /\ cut2[handled] = cut[handled]
    BY <1>2, <2>4
  <2> QED BY <1>1, <2>1, <2>2, <2>3, <2>4, <2>5
<1>4. Slice(told2, c, q) = Slice(told, c, q)
  <2>1. q <= t /\ q \in Nat
    BY <1>1
  <2>2. Agree(told, told2, t)
    BY <1>2, Zenon DEF Agree
  <2> QED BY <2>1, <2>2, SliceAgree
<1>5. ASSUME NEW b \in 1..p PROVE Batches(told2, cut2, n2)[b] = Batches(told, cut, n)[b]
  <2>1. b \in 1..n /\ b \in 1..n2 /\ b \in 0..n /\ b - 1 \in 0..n
    BY <1>1, <1>3
  <2>2. PICK x \in Nat, y \in Nat : x = cut[b - 1] /\ y = cut[b] /\ y <= t
    BY <1>2, <2>1
  <2>3. Slice(told2, x, y) = Slice(told, x, y)
    <3>1. Agree(told, told2, t)
      BY <1>2, Zenon DEF Agree
    <3> QED BY <2>2, <3>1, SliceAgree
  <2>4. cut2[b - 1] = x /\ cut2[b] = y
    BY <1>2, <2>1, <2>2, Zenon
  <2> QED BY <2>1, <2>2, <2>3, <2>4, Zenon DEF Batches
<1>6. Slice(Batches(told2, cut2, n2), h, p) = Slice(Batches(told, cut, n), h, p)
  <2> DEFINE x == Batches(told2, cut2, n2)  y == Batches(told, cut, n)
  <2>1. Agree(y, x, p)
    BY <1>5, Zenon DEF Agree
  <2> HIDE DEF x, y
  <2>2. Slice(x, h, p) = Slice(y, h, p)
    <3>1. p <= p
      BY <1>3
    <3> QED BY <2>1, <3>1, SliceAgree
  <2> QED BY <2>2 DEF x, y
<1>7. /\ handled' = h /\ channel' = Slice(Batches(told, cut, n), h, p)
      /\ pending' = Slice(told, c, q) /\ grid' = at[cut[h]]
  BY <1>1, <1>3, Zenon DEF Replaying
<1>8. at2[cut2[h]] = at[cut[h]]
  BY <1>2, <1>3, Zenon
<1>9. h \in 0..p
  BY <1>3
<1> QED BY <1>1, <1>3, <1>4, <1>6, <1>7, <1>8, <1>9, Zenon DEF Replaying

-----------------------------------------------------------------------------
(* The steps                                                               *)

LEMMA DrawsStep ==
  ASSUME PipelineInv, NEW events, Draws(events), \A g : Like(g, screen) => Drawn(g, events, screen')
  PROVE  PipelineInv'
<1>1. PICK told, at, cut, past, ends, m, stream, k, d, y : Pipeline(told, at, cut, past, ends, m, stream, k, d, y)
  BY Zenon DEF PipelineInv
<1>2. /\ Told(told, at, cut, past, frames) /\ Like(at[Len(told)], screen)
      /\ Sent(told, ends, m, stream) /\ message = Slice(told, ends[m], Len(told))
      /\ k \in 0..m /\ Received(stream, ends, k, y)
      /\ d \in 0..k
      /\ ordered => inbox = Slice(Messages(told, ends, m), d, k) /\ Replaying(told, at, cut, past, ends[d])
  BY <1>1, Zenon DEF Pipeline
<1>3. PICK result : events \in Seq(DrawEvent) /\ Redraws(at[Len(told)], events, result) /\ Like(result, screen')
  BY <1>2, Zenon DEF Drawn
<1> DEFINE all == told \o events
<1>4. PICK at2, past2 : /\ Told(all, at2, cut, past2, frames) /\ at2[Len(all)] = result
                        /\ Continues(at2, at, Len(told)) /\ Continues(past2, past, Len(told))
  BY <1>2, <1>3, ToldMore
<1>5. ends[m] \in 0..Len(told) /\ ends[d] \in 0..Len(told) /\ d \in 0..m /\ m \in Nat
  <2>1. m \in Nat /\ \A x \in 0..m : ends[x] \in 0..Len(told)
    BY <1>2, Zenon DEF Sent
  <2>2. m \in 0..m /\ d \in 0..m
    BY <1>2, <2>1
  <2> QED BY <2>1, <2>2, Zenon
<1>6. /\ all \in Seq(Event) /\ Len(told) <= Len(all) /\ \A i \in 1..Len(told) : all[i] = told[i]
      /\ Slice(told, ends[m], Len(told)) \o events = Slice(all, ends[m], Len(all))
  <2>1. told \in Seq(Event)
    BY <1>2, Zenon DEF Told
  <2>2. events \in Seq(Event)
    BY <1>3 DEF DrawEvent
  <2>3. PICK a \in Nat : a = ends[m] /\ a <= Len(told)
    BY <1>5, <2>1
  <2>a. Extends(all, told, events, a, Event)
    BY <2>1, <2>2, <2>3, SliceExtend, Zenon
  <2>4. /\ all \in Seq(Event) /\ Len(all) = Len(told) + Len(events)
        /\ \A i \in 1..Len(told) : all[i] = told[i]
        /\ Slice(told, a, Len(told)) \o events = Slice(all, a, Len(all))
    BY <2>a, Zenon DEF Extends
  <2> HIDE DEF all
  <2>5. Len(told) <= Len(all)
    BY <2>1, <2>2, <2>4
  <2> QED BY <2>3, <2>4, <2>5, Zenon
<1> HIDE DEF all
<1>7. Grows(told, at, cut, past, frames, all, at2, cut, past2, frames')
  <2>1. frames' = frames /\ Len(frames) <= Len(frames)
    <3>1. Len(frames) \in Nat
      BY <1>2 DEF Told
    <3> QED BY <3>1 DEF Draws
  <2>2. Continues(cut, cut, Len(frames))
    BY Zenon DEF Continues
  <2> QED BY <1>2, <1>4, <1>6, <2>1, <2>2, Zenon DEF Grows
<1>8. ASSUME ordered PROVE Replaying(all, at2, cut, past2, ends[d])'
  <2>1. UNCHANGED <<handled, channel, pending, grid>>
    BY DEF Draws
  <2>2. Replaying(told, at, cut, past, ends[d])
    BY <1>2, <1>8
  <2> QED BY <1>5, <1>7, <2>1, <2>2, ReplayingStays, Zenon
<1>9. Sent(all, ends, m, stream) /\ Messages(all, ends, m) = Messages(told, ends, m)
  <2>1. LongerThan(all, told)
    BY <1>6, Zenon DEF LongerThan
  <2> QED BY <1>2, <2>1, SentStays
<1>10. /\ frames' = frames /\ wire' = wire /\ buffer' = buffer /\ inbox' = inbox /\ ordered' = ordered
       /\ message' = message \o events /\ ops < MaxOps /\ ops' = ops + 1
  BY Zenon DEF Draws
<1>11. Pipeline(all, at2, cut, past2, ends, m, stream, k, d, y)'
  <2>1. Received(stream, ends, k, y)'
    BY <1>2, <1>10, Zenon DEF Received
  <2>2. /\ ordered => inbox' = Slice(Messages(all, ends, m), d, k)
        /\ message' = Slice(all, ends[m], Len(all))
    BY <1>2, <1>6, <1>9, <1>10, Zenon
  <2>3. Told(all, at2, cut, past2, frames') /\ Like(at2[Len(all)], screen')
    BY <1>3, <1>4, <1>10, Zenon
  <2> QED BY <1>2, <1>8, <1>9, <1>10, <2>1, <2>2, <2>3, Zenon DEF Pipeline
<1>12. ops' \in 0..MaxOps
  BY <1>10, NvimScreenAssumption DEF PipelineInv, NvimScreenAssumption
<1> QED BY <1>11, <1>12, Zenon DEF PipelineInv

LEMMA FlushStep ==
  ASSUME PipelineInv, Flush
  PROVE  PipelineInv'
<1>1. PICK told, at, cut, past, ends, m, stream, k, d, y : Pipeline(told, at, cut, past, ends, m, stream, k, d, y)
  BY Zenon DEF PipelineInv
<1>2. /\ Told(told, at, cut, past, frames) /\ Like(at[Len(told)], screen)
      /\ Sent(told, ends, m, stream) /\ message = Slice(told, ends[m], Len(told))
      /\ k \in 0..m /\ Received(stream, ends, k, y)
      /\ d \in 0..k
      /\ ordered => inbox = Slice(Messages(told, ends, m), d, k) /\ Replaying(told, at, cut, past, ends[d])
  BY <1>1, Zenon DEF Pipeline
<1> DEFINE e == [type |-> "flush"]
           all == Append(told, e)
<1>3. PICK at2, cut2, past2 :
         /\ Told(all, at2, cut2, past2, Append(frames, screen)) /\ at2[Len(told) + 1] = at[Len(told)]
         /\ Continues(at2, at, Len(told)) /\ Continues(past2, past, Len(told))
         /\ Continues(cut2, cut, Len(frames))
  BY <1>2, ToldFlush, Zenon
<1>4. /\ frames' = Append(frames, screen) /\ message' = Append(message, e)
      /\ screen' = screen /\ ops' = ops /\ wire' = wire /\ buffer' = buffer /\ inbox' = inbox
      /\ ordered' = ordered
      /\ UNCHANGED <<handled, channel, pending, grid>>
  BY Zenon DEF Flush
<1>5. ends[m] \in 0..Len(told) /\ ends[d] \in 0..Len(told) /\ d \in 0..m /\ m \in Nat
  <2>1. m \in Nat /\ \A x \in 0..m : ends[x] \in 0..Len(told)
    BY <1>2, Zenon DEF Sent
  <2>2. m \in 0..m /\ d \in 0..m
    BY <1>2, <2>1
  <2> QED BY <2>1, <2>2, Zenon
<1>6. /\ all \in Seq(Event) /\ Len(all) = Len(told) + 1 /\ Len(told) <= Len(all)
      /\ \A i \in 1..Len(told) : all[i] = told[i]
      /\ Append(Slice(told, ends[m], Len(told)), e) = Slice(all, ends[m], Len(all))
  <2>1. told \in Seq(Event) /\ e \in Event
    BY <1>2 DEF Told, Event
  <2>2. PICK a \in Nat, t \in Nat : a = ends[m] /\ t = Len(told) /\ a <= t
    BY <1>5, <2>1
  <2> HIDE DEF e
  <2>3. /\ all \in Seq(Event) /\ Len(all) = t + 1 /\ all[t + 1] = e /\ \A i \in 1..t : all[i] = told[i]
    BY <2>1, <2>2
  <2> HIDE DEF all
  <2>4. Slice(all, a, t) = Slice(told, a, t)
    BY <2>2, <2>3 DEF Slice
  <2>5. Append(Slice(all, a, t), all[t + 1]) = Slice(all, a, t + 1)
    <3>1. CanSlice(a, t, t)
      BY <2>2 DEF CanSlice
    <3> QED BY <3>1, SliceAppend, Zenon
  <2>6. t <= t + 1
    OBVIOUS
  <2> QED BY <2>2, <2>3, <2>4, <2>5, <2>6
<1> HIDE DEF all, e
<1>7. Grows(told, at, cut, past, frames, all, at2, cut2, past2, frames')
  <2>1. Len(frames) <= Len(frames')
    <3>1. frames \in Seq(AnyGrid)
      BY <1>2, Zenon DEF Told
    <3> QED BY <1>4, <3>1
  <2>2. Told(all, at2, cut2, past2, frames')
    BY <1>3, <1>4, Zenon
  <2> QED BY <1>2, <1>3, <1>6, <2>1, <2>2, Zenon DEF Grows
<1>8. ASSUME ordered PROVE Replaying(all, at2, cut2, past2, ends[d])'
  <2>1. Replaying(told, at, cut, past, ends[d])
    BY <1>2, <1>8
  <2> QED BY <1>4, <1>5, <1>7, <2>1, ReplayingStays, Zenon
<1>9. Sent(all, ends, m, stream) /\ Messages(all, ends, m) = Messages(told, ends, m)
  <2>1. LongerThan(all, told)
    BY <1>6, Zenon DEF LongerThan
  <2> QED BY <1>2, <2>1, SentStays
<1>10. Pipeline(all, at2, cut2, past2, ends, m, stream, k, d, y)'
  <2>1. Received(stream, ends, k, y)'
    BY <1>2, <1>4, Zenon DEF Received
  <2>2. /\ ordered => inbox' = Slice(Messages(all, ends, m), d, k)
        /\ message' = Slice(all, ends[m], Len(all))
    BY <1>2, <1>4, <1>6, <1>9, Zenon
  <2>3. Told(all, at2, cut2, past2, frames') /\ Like(at2[Len(all)], screen')
    BY <1>2, <1>3, <1>4, <1>6, Zenon
  <2> QED BY <1>2, <1>4, <1>8, <1>9, <2>1, <2>2, <2>3, Zenon DEF Pipeline
<1>11. ops' \in 0..MaxOps
  BY <1>4, Zenon DEF PipelineInv
<1> QED BY <1>10, <1>11, Zenon DEF PipelineInv

LEMMA EndsGrow ==
  ASSUME NEW told, NEW ends, NEW m, NEW stream, Sent(told, ends, m, stream)
  PROVE  \A j \in 0..m : ends[j] <= ends[m]
<1>1. m \in Nat /\ \A j \in 0..m : ends[j] \in Nat
  <2>1. m \in Nat /\ \A j \in 0..m : ends[j] \in 0..Len(told)
    BY Zenon DEF Sent
  <2> QED BY <2>1
<1>2. \A j \in 1..m : ends[j - 1] <= ends[j]
  BY Zenon DEF Sent
<1> DEFINE S == {x \in Nat : x <= m => ends[m - x] <= ends[m]}
<1>3. 0 \in S
  <2>1. m - 0 = m /\ m \in 0..m
    BY <1>1
  <2>2. ends[m] \in Nat
    BY <1>1, <2>1
  <2> QED BY <2>1, <2>2
<1>4. ASSUME NEW x \in Nat, x \in S PROVE x + 1 \in S
  <2>1. SUFFICES ASSUME x + 1 <= m PROVE ends[m - (x + 1)] <= ends[m]
    OBVIOUS
  <2>2. PICK j \in 1..m : j = m - x /\ j - 1 = m - (x + 1) /\ j \in 0..m /\ j - 1 \in 0..m /\ x <= m /\ m \in 0..m
    BY <1>1, <2>1
  <2>3. PICK a \in Nat, b \in Nat, c \in Nat : a = ends[j - 1] /\ b = ends[j] /\ c = ends[m]
    BY <1>1, <2>2
  <2>4. a <= b /\ b <= c
    BY <1>2, <1>4, <2>2, <2>3
  <2>5. a <= c
    BY <2>4
  <2> QED BY <2>2, <2>3, <2>5
<1>5. Nat \subseteq S
  <2> HIDE DEF S
  <2> QED BY <1>3, <1>4, NatSetInduction
<1>6. ASSUME NEW j \in 0..m PROVE ends[j] <= ends[m]
  <2>1. m - j \in Nat /\ m - (m - j) = j /\ m - j <= m
    BY <1>1
  <2> QED BY <1>5, <2>1
<1> QED BY <1>6

(* What a Send puts on the wire.                                           *)
Packed(msg) == <<[elements |-> Len(msg)]>> \o [i \in DOMAIN msg |-> [elements |-> 0, event |-> msg[i]]]

LEMMA SentMore ==
  ASSUME NEW told, NEW ends, NEW m, NEW stream, Sent(told, ends, m, stream)
  PROVE  \E ends2 :
           /\ Sent(told, ends2, m + 1, stream \o Packed(Slice(told, ends[m], Len(told))))
           /\ Continues(ends2, ends, m) /\ ends2[m + 1] = Len(told)
<1>1. /\ m \in Nat /\ ends \in [0..m -> 0..Len(told)] /\ ends[0] = 0
      /\ \A j \in 1..m : ends[j - 1] <= ends[j]
      /\ told \in Seq(Event) /\ stream \in Seq(Token) /\ Len(stream) = ends[m] + m
      /\ \A j \in 1..m : /\ stream[ends[j - 1] + j] = [elements |-> ends[j] - ends[j - 1]]
                         /\ \A i \in (ends[j - 1] + 1)..ends[j] : stream[i + j] = [elements |-> 0, event |-> told[i]]
  BY Zenon DEF Sent
<1>2. PICK a \in Nat, t \in Nat, n \in Nat : a = ends[m] /\ t = Len(told) /\ a <= t /\ n = t - a
  <2>1. ends[m] \in 0..Len(told)
    <3>1. m \in 0..m
      BY <1>1
    <3> QED BY <1>1, <3>1, Zenon
  <2> QED BY <1>1, <2>1
<1>m. m \in Nat
  BY <1>1
<1> DEFINE msg == Slice(told, a, t)
           hdr == [elements |-> n]
           evs == [i \in 1..n |-> [elements |-> 0, event |-> msg[i]]]
           x == <<hdr>> \o evs
           all == stream \o x
           ends2 == [j \in 0..(m + 1) |-> IF j <= m THEN ends[j] ELSE t]
<1>3. msg \in Seq(Event) /\ Len(msg) = n /\ \A i \in 1..n : msg[i] = told[a + i]
  <2>1. told \in Seq(Event) /\ a <= t /\ t <= Len(told)
    BY <1>1, <1>2
  <2>2. /\ msg \in Seq(Event) /\ Len(msg) = t - a /\ \A i \in 1..(t - a) : msg[i] = told[a + i]
    BY <2>1, SliceType, Zenon
  <2> QED BY <1>2, <2>2, Zenon
<1>4. Packed(msg) = x
  <2>1. DOMAIN msg = 1..n
    BY <1>3
  <2> HIDE DEF msg
  <2> QED BY <1>3, <2>1, Zenon DEF Packed
<1> HIDE DEF msg
<1>5. /\ evs \in Seq(Token) /\ Len(evs) = n
      /\ \A i \in 1..n : evs[i] = [elements |-> 0, event |-> told[a + i]]
  <2>1. ASSUME NEW i \in 1..n PROVE [elements |-> 0, event |-> msg[i]] \in Token
    <3>1. msg[i] \in Event
      BY <1>3
    <3> QED BY <3>1 DEF Token
  <2>2. evs \in [1..n -> Token]
    BY <2>1, Zenon
  <2>3. \A i \in 1..n : evs[i] = [elements |-> 0, event |-> told[a + i]]
    BY <1>3, Zenon
  <2> HIDE DEF evs
  <2> QED BY <2>2, <2>3
<1>6. hdr \in Token
  BY DEF Token
<1> HIDE DEF hdr, evs
<1>7. /\ x \in Seq(Token) /\ Len(x) = n + 1 /\ x[1] = hdr
      /\ \A i \in 1..n : x[i + 1] = evs[i]
  BY <1>5, <1>6
<1> HIDE DEF x
<1>8. /\ all \in Seq(Token) /\ Len(all) = a + m + n + 1
      /\ \A i \in 1..(a + m) : all[i] = stream[i]
      /\ \A i \in 1..(n + 1) : all[a + m + i] = x[i]
  <2>1. PICK l \in Nat : l = a + m /\ Len(stream) = l
    BY <1>1, <1>2
  <2>2. /\ all \in Seq(Token) /\ Len(all) = l + (n + 1)
        /\ \A i \in 1..l : all[i] = stream[i]
        /\ \A i \in 1..(n + 1) : all[l + i] = x[i]
    <3>1. stream \in Seq(Token) /\ x \in Seq(Token) /\ Len(x) = n + 1
      BY <1>1, <1>7
    <3> QED BY <2>1, <3>1
  <2>3. l + (n + 1) = a + m + n + 1
    BY <1>1, <2>1
  <2> QED BY <2>1, <2>2, <2>3, Zenon
<1> HIDE DEF all
<1>9. /\ \A j \in 0..m : ends2[j] = ends[j]
      /\ ends2[m + 1] = t
      /\ ends2 \in [0..(m + 1) -> 0..t]
  BY <1>1, <1>2
<1> HIDE DEF ends2
<1>10. ASSUME NEW j \in 1..(m + 1)
       PROVE  /\ ends2[j - 1] <= ends2[j]
              /\ all[ends2[j - 1] + j] = [elements |-> ends2[j] - ends2[j - 1]]
              /\ \A i \in (ends2[j - 1] + 1)..ends2[j] : all[i + j] = [elements |-> 0, event |-> told[i]]
  <2>1. CASE j <= m
    <3>1. j \in 1..m /\ j \in 0..m /\ j - 1 \in 0..m
      BY <1>1, <2>1
    <3>2. ends2[j - 1] = ends[j - 1] /\ ends2[j] = ends[j]
      BY <1>9, <3>1, Zenon
    <3>3. PICK b \in Nat, c \in Nat : b = ends[j - 1] /\ c = ends[j] /\ b <= c
      <4>1. ends[j - 1] \in 0..Len(told) /\ ends[j] \in 0..Len(told) /\ ends[j - 1] <= ends[j]
        BY <1>1, <3>1, Zenon
      <4> QED BY <4>1
    <3>4. /\ stream[b + j] = [elements |-> c - b]
          /\ \A i \in (b + 1)..c : stream[i + j] = [elements |-> 0, event |-> told[i]]
      BY <1>1, <3>1, <3>3, Zenon
    <3>5. c <= a
      <4>1. c <= ends[m]
        BY <1>1, <3>1, <3>3, EndsGrow, Zenon
      <4> QED BY <1>2, <4>1
    <3>6. b + j \in 1..(a + m) /\ \A i \in (b + 1)..c : i + j \in 1..(a + m)
      <4>1. m \in Nat
        BY <1>1
      <4>2. b <= a /\ j <= m
        BY <2>1, <3>3, <3>5
      <4>3. ASSUME NEW i \in (b + 1)..c PROVE i + j \in 1..(a + m)
        BY <3>5, <4>1, <4>2
      <4> QED BY <4>1, <4>2, <4>3
    <3> QED BY <1>8, <3>2, <3>3, <3>4, <3>6, Zenon
  <2>2. CASE j = m + 1
    <3>1. j - 1 = m /\ m \in 0..m /\ ends2[j - 1] = a /\ ends2[j] = t
      <4>1. m \in Nat /\ ends[m] = a
        BY <1>1, <1>2, Zenon
      <4>2. j - 1 = m /\ m \in 0..m
        BY <2>2, <4>1
      <4> QED BY <1>9, <2>2, <4>1, <4>2, Zenon
    <3>2. a + j = a + m + 1 /\ 1 \in 1..(n + 1) /\ t - a = n
      BY <1>1, <1>2, <2>2
    <3>3. all[a + j] = [elements |-> n]
      BY <1>7, <1>8, <3>2 DEF hdr
    <3>4. ASSUME NEW i \in (a + 1)..t PROVE all[i + j] = [elements |-> 0, event |-> told[i]]
      <4>1. PICK b \in 1..n : b = i - a /\ i + j = a + m + (b + 1) /\ b + 1 \in 1..(n + 1) /\ a + b = i
        <5>1. a \in Nat /\ t \in Nat /\ n = t - a
          BY <1>2
        <5> QED BY <1>m, <2>2, <5>1
      <4>2. all[i + j] = x[b + 1] /\ x[b + 1] = evs[b]
        BY <1>7, <1>8, <4>1, Zenon
      <4>3. evs[b] = [elements |-> 0, event |-> told[i]]
        BY <1>5, <4>1, Zenon
      <4> QED BY <4>2, <4>3, Zenon
    <3> QED BY <1>2, <3>1, <3>2, <3>3, <3>4, Zenon
  <2> QED BY <1>1, <2>1, <2>2
<1>11. ends2[0] = 0 /\ Len(all) = ends2[m + 1] + (m + 1) /\ m + 1 \in Nat
  <2>1. ends2[0] = 0 /\ ends2[m + 1] = t
    BY <1>1, <1>9
  <2> QED BY <1>1, <1>2, <1>8, <2>1
<1>12. Sent(told, ends2, m + 1, all)
  BY <1>1, <1>2, <1>8, <1>9, <1>10, <1>11, Zenon DEF Sent
<1>13. Packed(Slice(told, ends[m], Len(told))) = x
  BY <1>2, <1>4, Zenon DEF msg
<1>14. Continues(ends2, ends, m) /\ ends2[m + 1] = Len(told)
  BY <1>2, <1>9, Zenon DEF Continues
<1> QED BY <1>12, <1>13, <1>14, Zenon DEF all

LEMMA SendStep ==
  ASSUME PipelineInv, Send
  PROVE  PipelineInv'
<1>1. PICK told, at, cut, past, ends, m, stream, k, d, y : Pipeline(told, at, cut, past, ends, m, stream, k, d, y)
  BY Zenon DEF PipelineInv
<1>2. /\ Told(told, at, cut, past, frames) /\ Like(at[Len(told)], screen)
      /\ Sent(told, ends, m, stream) /\ message = Slice(told, ends[m], Len(told))
      /\ k \in 0..m /\ Received(stream, ends, k, y)
      /\ d \in 0..k
      /\ ordered => inbox = Slice(Messages(told, ends, m), d, k) /\ Replaying(told, at, cut, past, ends[d])
  BY <1>1, Zenon DEF Pipeline
<1>x. PICK x, all : x = Packed(message) /\ all = stream \o x
  OBVIOUS
<1>3. PICK ends2 : /\ Sent(told, ends2, m + 1, all)
                   /\ Continues(ends2, ends, m) /\ ends2[m + 1] = Len(told)
  BY <1>2, <1>x, SentMore, Zenon
<1>4. /\ message' = <<>> /\ wire' = wire \o <<[elements |-> Len(message)]>>
                           \o [i \in DOMAIN message |-> [elements |-> 0, event |-> message[i]]]
      /\ screen' = screen /\ frames' = frames /\ ops' = ops /\ buffer' = buffer /\ inbox' = inbox
      /\ ordered' = ordered
      /\ UNCHANGED <<handled, channel, pending, grid>>
  BY Zenon DEF Send
<1>5. /\ m \in Nat /\ m + 1 \in Nat /\ told \in Seq(Event) /\ stream \in Seq(Token)
      /\ k \in 0..m /\ k \in 0..(m + 1) /\ d \in 0..m /\ m \in 0..m
      /\ \A j \in 0..m : ends[j] \in 0..Len(told)
  <2>1. m \in Nat /\ told \in Seq(Event) /\ stream \in Seq(Token) /\ \A j \in 0..m : ends[j] \in 0..Len(told)
    BY <1>2, Zenon DEF Sent
  <2>2. m + 1 \in Nat /\ k \in 0..m /\ k \in 0..(m + 1) /\ d \in 0..m /\ m \in 0..m
    BY <1>2, <2>1
  <2> QED BY <2>1, <2>2, Zenon
<1>6. message \in Seq(Event)
  <2>1. PICK a \in Nat, t \in Nat : a = ends[m] /\ t = Len(told) /\ a <= t /\ t <= Len(told)
    <3>1. ends[m] \in 0..Len(told)
      BY <1>5, Zenon
    <3> QED BY <1>5, <3>1
  <2> QED BY <1>2, <1>5, <2>1, SliceType, Zenon
<1>7. PICK hdr \in Seq(Token), evs \in Seq(Token) : x = hdr \o evs /\ wire' = (wire \o hdr) \o evs
  <2> DEFINE hdr == <<[elements |-> Len(message)]>>
             evs == [i \in DOMAIN message |-> [elements |-> 0, event |-> message[i]]]
  <2>1. hdr \in Seq(Token)
    BY <1>6 DEF Token
  <2>2. evs \in Seq(Token)
    <3>1. DOMAIN message = 1..Len(message) /\ Len(message) \in Nat
      BY <1>6
    <3>2. ASSUME NEW i \in 1..Len(message) PROVE [elements |-> 0, event |-> message[i]] \in Token
      <4>1. message[i] \in Event
        BY <1>6
      <4> QED BY <4>1 DEF Token
    <3>3. evs \in [1..Len(message) -> Token]
      BY <3>1, <3>2, Zenon
    <3> HIDE DEF evs
    <3> QED BY <3>1, <3>3
  <2>3. x = hdr \o evs
    BY <1>x, Zenon DEF Packed
  <2>4. wire' = (wire \o hdr) \o evs
    BY <1>4
  <2> HIDE DEF hdr, evs
  <2> QED BY <2>1, <2>2, <2>3, <2>4, Zenon
<1>8. x \in Seq(Token)
  BY <1>7, ConcatProperties, Zenon
<1>9. y \in Nat /\ Begin(ends, k) <= y /\ y <= Len(stream) /\ Begin(ends, k) \in Nat
      /\ buffer = Slice(stream, Begin(ends, k), y) /\ wire = Slice(stream, y, Len(stream))
  <2>1. /\ y \in Nat /\ Begin(ends, k) <= y /\ y <= Len(stream)
        /\ buffer = Slice(stream, Begin(ends, k), y) /\ wire = Slice(stream, y, Len(stream))
    BY <1>2, Zenon DEF Received
  <2>2. Begin(ends, k) \in Nat
    <3>1. ends[k] \in 0..Len(told)
      BY <1>5, Zenon
    <3> QED BY <1>5, <3>1 DEF Begin
  <2> QED BY <2>1, <2>2, Zenon
<1>10. wire \in Seq(Token)
  <2>1. PICK l \in Nat : l = Len(stream) /\ l <= Len(stream) /\ y <= l
    BY <1>5, <1>9
  <2> QED BY <1>5, <1>9, <2>1, SliceType, Zenon
<1>a. wire' = wire \o x
  <2>1. (wire \o hdr) \o evs = wire \o (hdr \o evs)
    BY <1>7, <1>10, ConcatAssociative
  <2> QED BY <1>7, <2>1, Zenon
<1>11. Extends(all, stream, x, y, Token)
  <2>1. Extends(stream \o x, stream, x, y, Token)
    BY <1>5, <1>8, <1>9, SliceExtend, Zenon
  <2> QED BY <1>x, <2>1, Zenon
<1>12. Begin(ends2, k) = Begin(ends, k)
  BY <1>3, <1>5, Zenon DEF Continues, Begin
<1>13. Received(all, ends2, k, y)'
  <2>1. Slice(stream, Begin(ends, k), y) = Slice(all, Begin(ends, k), y)
    <3>1. \A i \in 1..Len(stream) : all[i] = stream[i]
      BY <1>11, Zenon DEF Extends
    <3>2. PICK a \in Nat, l \in Nat : a = Begin(ends, k) /\ l = Len(stream) /\ y <= l
      BY <1>5, <1>9
    <3>3. Slice(stream, a, y) = Slice(all, a, y)
      BY <1>9, <3>1, <3>2 DEF Slice
    <3> QED BY <3>2, <3>3
  <2>2. y <= Len(all)
    <3>1. Len(all) = Len(stream) + Len(x)
      BY <1>11, Zenon DEF Extends
    <3> QED BY <1>5, <1>8, <1>9, <3>1
  <2>3. wire' = Slice(all, y, Len(all))
    BY <1>9, <1>11, <1>a, Zenon DEF Extends
  <2>4. buffer' = Slice(all, Begin(ends2, k), y)
    BY <1>4, <1>9, <1>12, <2>1, Zenon
  <2>5. Begin(ends2, k) <= y
    BY <1>9, <1>12, Zenon
  <2> QED BY <1>9, <2>2, <2>3, <2>4, <2>5, Zenon DEF Received
<1>14. ordered => inbox' = Slice(Messages(told, ends2, m + 1), d, k)
  <2> DEFINE one == Messages(told, ends, m)  both == Messages(told, ends2, m + 1)
  <2>1. ASSUME NEW j \in 1..m PROVE both[j] = one[j]
    <3>1. j \in 1..(m + 1) /\ j \in 0..m /\ j - 1 \in 0..m
      BY <1>5
    <3>2. ends2[j] = ends[j] /\ ends2[j - 1] = ends[j - 1]
      BY <1>3, <3>1, Zenon DEF Continues
    <3> QED BY <3>1, <3>2, Zenon DEF Messages
  <2> HIDE DEF one, both
  <2>2. Slice(one, d, k) = Slice(both, d, k)
    BY <1>5, <2>1 DEF Slice
  <2> QED BY <1>2, <1>4, <2>2, Zenon DEF one, both
<1>15. message' = Slice(told, ends2[m + 1], Len(told))
  <2>1. Len(told) \in Nat
    BY <1>5
  <2>2. Slice(told, Len(told), Len(told)) = <<>>
    BY <2>1, SliceEmpty
  <2> QED BY <1>3, <1>4, <2>2, Zenon
<1>16. ordered => Replaying(told, at, cut, past, ends2[d])'
  <2>1. ends2[d] = ends[d]
    BY <1>3, <1>5, Zenon DEF Continues
  <2> QED BY <1>2, <1>4, <2>1, Zenon DEF Replaying
<1>17. Pipeline(told, at, cut, past, ends2, m + 1, all, k, d, y)'
  <2>1. Told(told, at, cut, past, frames') /\ Like(at[Len(told)], screen')
    BY <1>2, <1>4, Zenon
  <2> QED BY <1>2, <1>3, <1>4, <1>5, <1>13, <1>14, <1>15, <1>16, <2>1, Zenon DEF Pipeline
<1>18. ops' \in 0..MaxOps
  BY <1>4, Zenon DEF PipelineInv
<1> QED BY <1>17, <1>18, Zenon DEF PipelineInv

(* A read cuts whole messages off what nvim has sent.                      *)
LEMMA ReadCuts ==
  ASSUME PipelineInv, Read
  PROVE  \E told, at, cut, past, ends, m, stream, k, d, y :
           /\ Pipeline(told, at, cut, past, ends, m, stream, k, d, y)
           /\ \E e \in k..m, y2 \in Nat :
                /\ Received(stream, ends, e, y2)'
                /\ inbox' = inbox \o Slice(Messages(told, ends, m), k, e)
           /\ UNCHANGED <<nvim, ordered, pending, channel, grid, handled>>
<1>1. PICK told, at, cut, past, ends, m, stream, k, d, y : Pipeline(told, at, cut, past, ends, m, stream, k, d, y)
  BY Zenon DEF PipelineInv
<1>2. /\ Told(told, at, cut, past, frames) /\ Like(at[Len(told)], screen)
      /\ Sent(told, ends, m, stream) /\ message = Slice(told, ends[m], Len(told))
      /\ k \in 0..m /\ Received(stream, ends, k, y)
      /\ d \in 0..k
      /\ ordered => inbox = Slice(Messages(told, ends, m), d, k) /\ Replaying(told, at, cut, past, ends[d])
  BY <1>1, Zenon DEF Pipeline
<1>30. PICK n \in 1..Len(wire) :
         LET pushed == Push(buffer \o SubSeq(wire, 1, n)) IN
           /\ buffer' = pushed.rest /\ inbox' = inbox \o pushed.values
           /\ wire' = SubSeq(wire, n + 1, Len(wire))
           /\ UNCHANGED <<nvim, ordered, pending, channel, grid, handled>>
  BY Zenon DEF Read
<1>3. PICK pushed :
        /\ pushed = Push(buffer \o SubSeq(wire, 1, n))
        /\ buffer' = pushed.rest /\ inbox' = inbox \o pushed.values
        /\ wire' = SubSeq(wire, n + 1, Len(wire))
        /\ UNCHANGED <<nvim, ordered, pending, channel, grid, handled>>
  BY <1>30, Zenon
<1>4. m \in Nat /\ told \in Seq(Event) /\ stream \in Seq(Token) /\ \A j \in 0..m : ends[j] \in 0..Len(told)
  BY <1>2, Zenon DEF Sent
<1>5. y \in Nat /\ Begin(ends, k) <= y /\ y <= Len(stream)
      /\ buffer = Slice(stream, Begin(ends, k), y) /\ wire = Slice(stream, y, Len(stream))
  BY <1>2, Zenon DEF Received
<1>6. PICK a \in Nat, l \in Nat : a = Begin(ends, k) /\ l = Len(stream) /\ a <= y /\ y <= l
  <2>1. ends[k] \in 0..Len(told)
    BY <1>2, <1>4, Zenon
  <2>2. Begin(ends, k) \in Nat
    BY <1>2, <1>4, <2>1 DEF Begin
  <2> QED BY <1>4, <1>5, <2>2
<1>7. wire = Slice(stream, y, l) /\ Len(wire) = l - y
  <2>1. l <= Len(stream)
    BY <1>6
  <2>2. Len(Slice(stream, y, l)) = l - y
    <3>1. stream \in Seq(Token) /\ y \in Nat /\ l \in Nat /\ y <= l
      BY <1>4, <1>5, <1>6, Zenon
    <3> QED BY <2>1, <3>1, SliceType, Zenon
  <2> QED BY <1>5, <1>6, <2>2, Zenon
<1>8. PICK y2 \in Nat, w \in Nat : y2 = y + n /\ w = l - y /\ w = Len(wire) /\ y <= y2 /\ y2 <= l /\ y + w = l /\ n \in Nat /\ n <= w
  BY <1>5, <1>6, <1>7
<1>9. SubSeq(wire, 1, n) = Slice(stream, y, y2) /\ SubSeq(wire, n + 1, Len(wire)) = Slice(stream, y2, l)
  <2>1. CanSlice(y, l, Len(stream)) /\ CanSlice(0, n, l - y) /\ CanSlice(n, w, l - y)
    BY <1>5, <1>6, <1>8 DEF CanSlice
  <2>2. IsSub(stream, y, l, 0, n) /\ IsSub(stream, y, l, n, w)
    BY <1>4, <2>1, SliceSub, Zenon
  <2>3. y + 0 = y /\ 0 + 1 = 1
    BY <1>5
  <2> QED BY <1>7, <1>8, <2>2, <2>3, Zenon DEF IsSub
<1>10. buffer \o SubSeq(wire, 1, n) = Slice(stream, Begin(ends, k), y2)
  <2>1. y2 <= Len(stream)
    BY <1>6, <1>8
  <2>2. Slice(stream, a, y) \o Slice(stream, y, y2) = Slice(stream, a, y2)
    <3>1. CanJoin(a, y, y2)
      BY <1>5, <1>6, <1>8, Zenon DEF CanJoin
    <3> QED BY <3>1, SliceConcat, Zenon
  <2> QED BY <1>5, <1>6, <1>9, <2>2, Zenon
<1>11. PICK e \in k..m : Pushed(pushed, told, ends, m, stream, k, e, y2)
  <2>1. Begin(ends, k) <= y2 /\ y2 <= Len(stream)
    BY <1>5, <1>6, <1>8
  <2> QED BY <1>2, <1>3, <1>8, <1>10, <2>1, PushedMessages
<1>12. /\ Begin(ends, e) <= y2
       /\ pushed.values = Slice(Messages(told, ends, m), k, e) /\ pushed.rest = Slice(stream, Begin(ends, e), y2)
  BY <1>11 DEF Pushed
<1>13. Received(stream, ends, e, y2)'
  <2>1. y2 <= Len(stream)
    BY <1>6, <1>8
  <2> QED BY <1>3, <1>6, <1>8, <1>9, <1>12, <2>1, Zenon DEF Received
<1> QED BY <1>1, <1>3, <1>8, <1>12, <1>13, Zenon

LEMMA ReadStep ==
  ASSUME PipelineInv, Read
  PROVE  PipelineInv'
<1>1. PICK told, at, cut, past, ends, m, stream, k, d, y :
        /\ Pipeline(told, at, cut, past, ends, m, stream, k, d, y)
        /\ \E e \in k..m, y2 \in Nat :
             /\ Received(stream, ends, e, y2)'
             /\ inbox' = inbox \o Slice(Messages(told, ends, m), k, e)
        /\ UNCHANGED <<nvim, ordered, pending, channel, grid, handled>>
  BY ReadCuts, Zenon
<1>2. /\ Told(told, at, cut, past, frames) /\ Like(at[Len(told)], screen)
      /\ Sent(told, ends, m, stream) /\ message = Slice(told, ends[m], Len(told))
      /\ k \in 0..m
      /\ d \in 0..k
      /\ ordered => inbox = Slice(Messages(told, ends, m), d, k) /\ Replaying(told, at, cut, past, ends[d])
  BY <1>1, Zenon DEF Pipeline
<1>3. PICK e \in k..m, y2 \in Nat :
        Received(stream, ends, e, y2)' /\ inbox' = inbox \o Slice(Messages(told, ends, m), k, e)
  BY <1>1, Zenon
<1>4. m \in Nat
  BY <1>2, Zenon DEF Sent
<1>5. ordered => inbox' = Slice(Messages(told, ends, m), d, e)
  <2> DEFINE all == Messages(told, ends, m)
  <2>1. all \in Seq(Seq(Event)) /\ Len(all) = m
    BY <1>2, MessagesType
  <2> HIDE DEF all
  <2>2. d \in Nat /\ k \in Nat /\ e \in Nat /\ d <= k /\ k <= e /\ e <= Len(all)
    BY <1>2, <1>4, <2>1
  <2>3. Slice(all, d, k) \o Slice(all, k, e) = Slice(all, d, e)
    <3>1. CanJoin(d, k, e)
      BY <2>2, Zenon DEF CanJoin
    <3> QED BY <3>1, SliceConcat, Zenon
  <2> QED BY <1>2, <1>3, <2>3, Zenon DEF all
<1>6. /\ screen' = screen /\ frames' = frames /\ ops' = ops /\ message' = message
       /\ UNCHANGED <<handled, channel, pending, grid>> /\ ordered' = ordered
  BY <1>1 DEF nvim
<1>7. ordered => Replaying(told, at, cut, past, ends[d])'
  BY <1>2, <1>6, Zenon DEF Replaying
<1>8. e \in 0..m /\ d \in 0..e
  BY <1>2, <1>4
<1>9. Pipeline(told, at, cut, past, ends, m, stream, e, d, y2)'
  <2>1. Told(told, at, cut, past, frames') /\ Like(at[Len(told)], screen') /\ message' = Slice(told, ends[m], Len(told))
    BY <1>2, <1>6, Zenon
  <2> QED BY <1>2, <1>3, <1>5, <1>6, <1>7, <1>8, <2>1, Zenon DEF Pipeline
<1>10. ops' \in 0..MaxOps
  BY <1>6, Zenon DEF PipelineInv
<1> QED BY <1>9, <1>10, Zenon DEF PipelineInv

(* Once a message has overtaken another the invariant is about nvim and    *)
(* the reader alone.                                                       *)
LEMMA SourceStays ==
  ASSUME PipelineInv, ~ordered', UNCHANGED <<nvim, wire, buffer>>
  PROVE  PipelineInv'
<1>1. PICK told, at, cut, past, ends, m, stream, k, d, y : Pipeline(told, at, cut, past, ends, m, stream, k, d, y)
  BY Zenon DEF PipelineInv
<1>2. /\ screen' = screen /\ frames' = frames /\ ops' = ops /\ message' = message
      /\ wire' = wire /\ buffer' = buffer
  BY DEF nvim
<1>3. Received(stream, ends, k, y)'
  BY <1>1, <1>2, Zenon DEF Pipeline, Received
<1>4. Pipeline(told, at, cut, past, ends, m, stream, k, d, y)'
  BY <1>1, <1>2, <1>3, Zenon DEF Pipeline
<1>5. ops' \in 0..MaxOps
  BY <1>2, Zenon DEF PipelineInv
<1> QED BY <1>4, <1>5, Zenon DEF PipelineInv

LEMMA DeliverStep ==
  ASSUME PipelineInv, Deliver, ordered'
  PROVE  PipelineInv'
<1>1. PICK told, at, cut, past, ends, m, stream, k, d, y : Pipeline(told, at, cut, past, ends, m, stream, k, d, y)
  BY Zenon DEF PipelineInv
<1>2. /\ Told(told, at, cut, past, frames) /\ Like(at[Len(told)], screen)
      /\ Sent(told, ends, m, stream) /\ message = Slice(told, ends[m], Len(told))
      /\ k \in 0..m /\ Received(stream, ends, k, y)
      /\ d \in 0..k
      /\ inbox = Slice(Messages(told, ends, m), d, k) /\ Replaying(told, at, cut, past, ends[d])
  <2>1. ordered
    BY Zenon DEF Deliver
  <2> QED BY <1>1, <2>1, Zenon DEF Pipeline
<1>3. PICK done :
        /\ inbox # <<>> /\ done = Collected(inbox[1]) /\ inbox' = RemoveAt(inbox, 1)
        /\ pending' = done.pending /\ channel' = channel \o done.posted
        /\ UNCHANGED <<nvim, wire, buffer, grid, handled>> /\ ordered
  <2>1. PICK i \in DOMAIN inbox :
          /\ ordered' = (ordered /\ i = 1)
          /\ inbox' = RemoveAt(inbox, i)
          /\ pending' = Collected(inbox[i]).pending /\ channel' = channel \o Collected(inbox[i]).posted
          /\ UNCHANGED <<nvim, wire, buffer, grid, handled>>
    BY Zenon DEF Deliver
  <2>2. inbox # <<>>
    <3>1. DOMAIN <<>> = {}
      OBVIOUS
    <3> QED BY <2>1, <3>1, Zenon
  <2> QED BY <2>1, <2>2, Zenon
<1>4. /\ m \in Nat /\ told \in Seq(Event) /\ \A j \in 0..m : ends[j] \in 0..Len(told)
      /\ \A j \in 1..m : ends[j - 1] <= ends[j]
  BY <1>2, Zenon DEF Sent
<1> DEFINE all == Messages(told, ends, m)
<1>5. all \in Seq(Seq(Event)) /\ Len(all) = m
  BY <1>2, MessagesType
<1>6. d # k
  <2>1. ASSUME d = k PROVE FALSE
    <3>1. k \in Nat /\ Slice(all, k, k) = <<>>
      BY <1>2, <1>4, SliceEmpty
    <3> QED BY <1>2, <1>3, <2>1, <3>1, Zenon
  <2> QED BY <2>1
<1>7. PICK e \in 0..k : e = d + 1 /\ e \in 1..m /\ e - 1 = d /\ d \in Nat /\ k \in Nat /\ d < k /\ k <= m /\ d \in 0..m /\ e \in 0..m
  BY <1>2, <1>4, <1>6
<1>8. inbox' = Slice(all, e, k) /\ inbox[1] = Slice(told, ends[d], ends[e])
  <2> HIDE DEF all
  <2>1. k <= Len(all)
    BY <1>5, <1>7
  <2>2. Head(Slice(all, d, k)) = all[d + 1] /\ RemoveAt(Slice(all, d, k), 1) = Slice(all, d + 1, k)
    <3>1. CanSlice(d, k, k) /\ d # k
      BY <1>7 DEF CanSlice
    <3> QED BY <3>1, SliceFirst
  <2>3. inbox = Slice(all, d, k)
    BY <1>2, Zenon DEF all
  <2>4. inbox' = Slice(all, e, k)
    BY <1>3, <1>7, <2>2, <2>3, Zenon
  <2>5. inbox[1] = all[e]
    <3>1. inbox \in Seq(Seq(Event))
      <4>1. d \in Nat /\ k \in Nat /\ d <= k
        BY <1>7
      <4>2. Slice(all, d, k) \in Seq(Seq(Event))
        BY <1>5, <2>1, <4>1, SliceType, Zenon
      <4> QED BY <2>3, <4>2, Zenon
    <3>2. Head(inbox) = inbox[1]
      BY <1>3, <3>1
    <3> QED BY <1>7, <2>2, <2>3, <3>2, Zenon
  <2>6. all[e] = Slice(told, ends[d], ends[e])
    BY <1>7, Zenon DEF all, Messages
  <2> QED BY <2>4, <2>5, <2>6, Zenon
<1> HIDE DEF all
<1>q. /\ ends[d] \in 0..Len(told) /\ ends[e] \in 0..Len(told) /\ ends[d] <= ends[e]
      /\ ends[e] \in ends[d]..Len(told)
  <2>1. ends[d] \in 0..Len(told) /\ ends[e] \in 0..Len(told) /\ ends[d] <= ends[e]
    BY <1>4, <1>7
  <2> QED BY <2>1
<1>r. PICK q \in 0..Len(told) : q = ends[d]
  BY <1>q, Zenon
<1>9. PICK q2 \in q..Len(told) : q = ends[d] /\ q2 = ends[e]
  BY <1>q, <1>r, Zenon
<1>10. /\ handled \in 0..past[q] /\ pending = Slice(told, cut[past[q]], q) /\ grid = at[cut[handled]]
       /\ channel = Slice(Batches(told, cut, Len(frames)), handled, past[q])
  BY <1>2, <1>9, Zenon DEF Replaying
<1>11. Delivered(done, told, cut, past, Len(frames), q, q2)
  <2>1. Delivered(Collected(Slice(told, q, q2)), told, cut, past, Len(frames), q, q2)
    BY <1>2, <1>9, <1>10, CollectedBatches
  <2> QED BY <1>3, <1>8, <1>9, <2>1, Zenon
<1> DEFINE batches == Batches(told, cut, Len(frames))
<1>12. done.pending = Slice(told, cut[past[q2]], q2) /\ done.posted = Slice(batches, past[q], past[q2])
  BY <1>11 DEF Delivered
<1>13. PICK p \in Nat, p2 \in Nat : p = past[q] /\ p2 = past[q2] /\ p <= p2 /\ p2 <= Len(frames)
  <2>1. past[q2] \in Nat /\ past[q] <= past[q2]
    BY <1>2, <1>9, PastGrows
  <2>2. \A i \in 0..Len(told) : past[i] \in 0..Len(frames)
    BY <1>2, Zenon DEF Told
  <2>3. q \in 0..Len(told) /\ q2 \in 0..Len(told)
    BY <1>4, <1>9
  <2>4. past[q] \in 0..Len(frames) /\ past[q2] \in 0..Len(frames)
    BY <2>2, <2>3, Zenon
  <2> QED BY <2>1, <2>4
<1>14. channel' = Slice(batches, handled, p2)
  <2>1. batches \in Seq(Seq(Event)) /\ Len(batches) = Len(frames)
    BY <1>2, BatchesType
  <2> HIDE DEF batches
  <2>2. handled \in Nat /\ handled <= p /\ p2 <= Len(batches)
    BY <1>10, <1>13, <2>1
  <2>3. Slice(batches, handled, p) \o Slice(batches, p, p2) = Slice(batches, handled, p2)
    <3>1. CanJoin(handled, p, p2)
      BY <1>13, <2>2, Zenon DEF CanJoin
    <3> QED BY <3>1, SliceConcat, Zenon
  <2> QED BY <1>3, <1>10, <1>12, <1>13, <2>3, Zenon DEF batches
<1>15. /\ screen' = screen /\ frames' = frames /\ ops' = ops /\ message' = message
       /\ wire' = wire /\ buffer' = buffer /\ grid' = grid /\ handled' = handled
  BY <1>3 DEF nvim
<1>16. Replaying(told, at, cut, past, ends[e])'
  <2>1. handled \in 0..p2
    BY <1>10, <1>13
  <2>2. channel' = Slice(Batches(told, cut, Len(frames')), handled', past[q2])
    BY <1>13, <1>14, <1>15, Zenon
  <2>3. pending' = Slice(told, cut[past[q2]], q2)
    BY <1>3, <1>12, Zenon
  <2> QED BY <1>9, <1>10, <1>13, <1>15, <2>1, <2>2, <2>3, Zenon DEF Replaying
<1>17. Pipeline(told, at, cut, past, ends, m, stream, k, e, y)'
  <2>1. Told(told, at, cut, past, frames') /\ Like(at[Len(told)], screen') /\ message' = Slice(told, ends[m], Len(told))
    BY <1>2, <1>15, Zenon
  <2>2. Received(stream, ends, k, y)'
    BY <1>2, <1>15, Zenon DEF Received
  <2>3. inbox' = Slice(Messages(told, ends, m), e, k)
    BY <1>8, Zenon DEF all
  <2> QED BY <1>2, <1>7, <1>16, <2>1, <2>2, <2>3, Zenon DEF Pipeline
<1>18. ops' \in 0..MaxOps
  BY <1>15, Zenon DEF PipelineInv
<1> QED BY <1>17, <1>18, Zenon DEF PipelineInv

LEMMA OnRedrawBatchStep ==
  ASSUME PipelineInv, OnRedrawBatch, ordered'
  PROVE  PipelineInv'
<1>1. PICK told, at, cut, past, ends, m, stream, k, d, y : Pipeline(told, at, cut, past, ends, m, stream, k, d, y)
  BY Zenon DEF PipelineInv
<1>2. /\ Told(told, at, cut, past, frames) /\ Like(at[Len(told)], screen)
      /\ Sent(told, ends, m, stream) /\ message = Slice(told, ends[m], Len(told))
      /\ k \in 0..m /\ Received(stream, ends, k, y)
      /\ d \in 0..k
      /\ inbox = Slice(Messages(told, ends, m), d, k) /\ Replaying(told, at, cut, past, ends[d])
  <2>1. ordered
    BY Zenon DEF OnRedrawBatch
  <2> QED BY <1>1, <2>1, Zenon DEF Pipeline
<1>3. /\ channel # <<>> /\ grid' = Replayed(grid, Head(channel)) /\ channel' = Tail(channel)
      /\ handled' = handled + 1 /\ UNCHANGED <<nvim, wire, buffer, inbox, ordered, pending>>
  BY Zenon DEF OnRedrawBatch
<1>4. m \in Nat /\ told \in Seq(Event) /\ \A j \in 0..m : ends[j] \in 0..Len(told)
  BY <1>2, Zenon DEF Sent
<1>5. PICK q \in 0..Len(told) : q = ends[d]
  <2>1. d \in 0..m
    BY <1>2, <1>4
  <2> QED BY <1>4, <2>1, Zenon
<1>6. /\ handled \in 0..past[q] /\ pending = Slice(told, cut[past[q]], q) /\ grid = at[cut[handled]]
      /\ channel = Slice(Batches(told, cut, Len(frames)), handled, past[q])
  BY <1>2, <1>5, Zenon DEF Replaying
<1>7. PICK n \in Nat, p \in Nat, h \in Nat : n = Len(frames) /\ p = past[q] /\ p <= n /\ h = handled /\ h <= p
  <2>1. frames \in Seq(AnyGrid) /\ \A i \in 0..Len(told) : past[i] \in 0..Len(frames)
    BY <1>2, Zenon DEF Told
  <2>2. past[q] \in 0..Len(frames) /\ Len(frames) \in Nat
    BY <2>1
  <2> QED BY <1>6, <2>2
<1> DEFINE batches == Batches(told, cut, n)
<1>8. batches \in Seq(Seq(Event)) /\ Len(batches) = n
  BY <1>2, <1>7, BatchesType
<1>9. channel = Slice(batches, h, p)
  BY <1>6, <1>7, Zenon
<1>10. h # p
  <2>1. Slice(batches, p, p) = <<>>
    BY <1>7, SliceEmpty
  <2> QED BY <1>3, <1>9, <2>1, Zenon
<1>11. PICK h2 \in 0..p : h2 = h + 1 /\ h2 \in 1..n /\ h2 - 1 = h /\ h < p /\ p <= n /\ h \in 0..n /\ h2 \in 0..n
  BY <1>7, <1>10
<1>12. Head(channel) = batches[h2] /\ Tail(channel) = Slice(batches, h2, p)
  <2> HIDE DEF batches
  <2>1. p <= Len(batches)
    BY <1>8, <1>11
  <2>2. Head(Slice(batches, h, p)) = batches[h + 1] /\ Tail(Slice(batches, h, p)) = Slice(batches, h + 1, p)
    <3>1. CanSlice(h, p, p) /\ h # p
      BY <1>11 DEF CanSlice
    <3> QED BY <3>1, SliceFirst
  <2> QED BY <1>9, <1>11, <2>2, Zenon
<1>13. PICK a \in Nat, b \in Nat : a = cut[h] /\ b = cut[h2] /\ a <= b /\ b <= Len(told)
  <2>1. \A x \in 0..n : cut[x] \in 0..Len(told)
    BY <1>2, <1>7, Zenon DEF Told
  <2>2. cut[h2 - 1] <= cut[h2]
    BY <1>2, <1>7, <1>11, Zenon DEF Told
  <2>3. cut[h] \in 0..Len(told) /\ cut[h2] \in 0..Len(told)
    BY <1>11, <2>1, Zenon
  <2> QED BY <1>11, <2>2, <2>3
<1>14. batches[h2] = Slice(told, a, b)
  BY <1>11, <1>13, Zenon DEF Batches
<1>15. grid' = at[b]
  <2>1. Replayed(at[a], Slice(told, a, b)) = at[b]
    BY <1>2, <1>13, ReplayedSlice
  <2> QED BY <1>3, <1>6, <1>7, <1>12, <1>13, <1>14, <2>1, Zenon
<1>16. /\ screen' = screen /\ frames' = frames /\ ops' = ops /\ message' = message
       /\ wire' = wire /\ buffer' = buffer /\ inbox' = inbox /\ pending' = pending
  BY <1>3 DEF nvim
<1>17. Replaying(told, at, cut, past, ends[d])'
  <2>1. handled' = h2 /\ h2 \in 0..p
    BY <1>3, <1>7, <1>11
  <2>2. channel' = Slice(Batches(told, cut, Len(frames')), handled', past[q])
    BY <1>3, <1>7, <1>12, <1>16, <2>1, Zenon
  <2>3. grid' = at[cut[handled']]
    BY <1>13, <1>15, <2>1, Zenon
  <2> QED BY <1>5, <1>6, <1>7, <1>16, <2>1, <2>2, <2>3, Zenon DEF Replaying
<1>18. Pipeline(told, at, cut, past, ends, m, stream, k, d, y)'
  <2>1. Told(told, at, cut, past, frames') /\ Like(at[Len(told)], screen') /\ message' = Slice(told, ends[m], Len(told))
    BY <1>2, <1>16, Zenon
  <2>2. Received(stream, ends, k, y)' /\ inbox' = Slice(Messages(told, ends, m), d, k)
    BY <1>2, <1>16, Zenon DEF Received
  <2> QED BY <1>2, <1>17, <2>1, <2>2, Zenon DEF Pipeline
<1>19. ops' \in 0..MaxOps
  BY <1>16, Zenon DEF PipelineInv
<1> QED BY <1>18, <1>19, Zenon DEF PipelineInv

LEMMA InitStep ==
  ASSUME Init
  PROVE  PipelineInv
<1> DEFINE at0 == [i \in 0..0 |-> <<>>]
           none == [i \in 0..0 |-> 0]
<1>1. PICK size \in Sizes :
        /\ screen = Grid(size[1], size[2], BlankCell)
        /\ message = <<[type |-> "resize", size |-> size], [type |-> "clear"]>>
  BY DEF Init
<1>2. /\ frames = <<>> /\ ops = 0 /\ wire = <<>> /\ buffer = <<>> /\ inbox = <<>> /\ pending = <<>>
      /\ channel = <<>> /\ grid = <<>> /\ handled = 0
  BY DEF Init
<1>3. /\ message \in Seq(DrawEvent)
      /\ \E result : Redraws(<<>>, message, result) /\ Like(result, screen)
  BY <1>1, DrawnAttach, Zenon DEF Drawn
<1>4. at0[0] = <<>> /\ none[0] = 0 /\ none \in [0..0 -> 0..0] /\ Len(<<>>) = 0 /\ 1..0 = {}
  OBVIOUS
<1>5. Told(<<>>, at0, none, none, <<>>)
  <2>1. <<>> \in Seq(Event) /\ <<>> \in Seq(AnyGrid)
    OBVIOUS
  <2>2. Replays(at0, <<>>, <<>>)
    BY <1>4 DEF Replays
  <2>3. \A i \in 0..0 : none[none[i]] <= i
    OBVIOUS
  <2> HIDE DEF at0, none
  <2> QED BY <1>4, <2>1, <2>2, <2>3 DEF Told
<1>6. PICK result : Redraws(at0[Len(<<>>)], message, result) /\ Like(result, screen)
  BY <1>3, <1>4, Zenon
<1> HIDE DEF at0
<1>7. PICK at, past :
        /\ Told(<<>> \o message, at, none, past, <<>>) /\ at[Len(<<>> \o message)] = result
        /\ Continues(at, at0, Len(<<>>)) /\ Continues(past, none, Len(<<>>))
  <2> HIDE DEF none
  <2>1. PICK e \in Seq(DrawEvent) : e = message
    BY <1>3, Zenon
  <2> DEFINE told == <<>>
  <2> HIDE DEF told
  <2>2. Told(told, at0, none, none, <<>>) /\ Redraws(at0[Len(told)], e, result)
    BY <1>5, <1>6, <2>1, Zenon DEF told
  <2>3. \E at, past :
          /\ Told(told \o e, at, none, past, <<>>) /\ at[Len(told \o e)] = result
          /\ Continues(at, at0, Len(told)) /\ Continues(past, none, Len(told))
    BY <2>2, ToldMore
  <2> QED BY <2>1, <2>3, Zenon DEF told
<1>8. <<>> \o message = message
  BY <1>3
<1>9. /\ Told(message, at, none, past, frames) /\ Like(at[Len(message)], screen)
  BY <1>2, <1>6, <1>7, <1>8, Zenon
<1>10. at[0] = <<>> /\ past[0] = 0
  <2>1. 0 \in 0..Len(<<>>)
    BY <1>4
  <2> QED BY <1>4, <1>7, <2>1, Zenon DEF Continues
<1>11. message \in Seq(Event) /\ Len(message) \in Nat /\ 0 \in 0..Len(message) /\ 0 \in Nat
  BY <1>3 DEF DrawEvent
<1>12. Sent(message, none, 0, <<>>)
  BY <1>4, <1>11 DEF Sent
<1>13. message = Slice(message, none[0], Len(message))
  BY <1>4, <1>11 DEF Slice
<1>14. Received(<<>>, none, 0, 0)
  <2>1. Begin(none, 0) = 0
    BY <1>4 DEF Begin
  <2>2. Slice(<<>>, 0, 0) = <<>>
    BY SliceEmpty
  <2> HIDE DEF none
  <2> QED BY <1>2, <1>4, <2>1, <2>2 DEF Received
<1>15. inbox = Slice(Messages(message, none, 0), 0, 0)
  BY <1>2, <1>11, SliceEmpty, Zenon
<1>16. Replaying(message, at, none, past, none[0])
  <2>1. channel = Slice(Batches(message, none, Len(frames)), 0, 0)
    BY <1>2, <1>11, SliceEmpty, Zenon
  <2>2. pending = Slice(message, 0, 0)
    BY <1>2, <1>11, SliceEmpty, Zenon
  <2>3. 0 \in 0..0
    OBVIOUS
  <2> HIDE DEF none
  <2> QED BY <1>2, <1>4, <1>10, <2>1, <2>2, <2>3, Zenon DEF Replaying
<1>17. 0 \in 0..0
  OBVIOUS
<1>18. Pipeline(message, at, none, past, none, 0, <<>>, 0, 0, 0)
  <2> HIDE DEF none
  <2> QED BY <1>4, <1>9, <1>12, <1>13, <1>14, <1>15, <1>16, <1>17, Zenon DEF Pipeline
<1>19. ops \in 0..MaxOps
  BY <1>2, NvimScreenAssumption DEF NvimScreenAssumption
<1> QED BY <1>18, <1>19, Zenon DEF PipelineInv

LEMMA DrawStep ==
  ASSUME PipelineInv, Draw
  PROVE  PipelineInv'
<1>1. ASSUME DrawClear PROVE PipelineInv'
  <2>1. Draws(<<[type |-> "clear"]>>) /\ screen' = Grid(Width(screen), Height(screen), BlankCell)
    BY <1>1 DEF DrawClear
  <2>2. \A g : Like(g, screen) => Drawn(g, <<[type |-> "clear"]>>, screen')
    BY <2>1, DrawnClear, Zenon
  <2> QED BY <2>1, <2>2, DrawsStep, Zenon
<1>2. ASSUME NEW size \in Sizes, DrawResize(size) PROVE PipelineInv'
  <2>1. PICK events : events = <<[type |-> "resize", size |-> size]>> \o Filled(0, size[2], 0, size[1])
    OBVIOUS
  <2>2. Draws(events) /\ screen' = Grid(size[1], size[2], FillCell)
    BY <1>2, <2>1, Zenon DEF DrawResize
  <2>3. \A g \in AnyGrid : Drawn(g, events, screen')
    BY <2>1, <2>2, DrawnResize, Zenon
  <2>4. \A g : Like(g, screen) => g \in AnyGrid
    BY GridShape, Zenon DEF Like
  <2>5. \A g : Like(g, screen) => Drawn(g, events, screen')
    BY <2>3, <2>4, Zenon
  <2> QED BY <2>2, <2>5, DrawsStep, Zenon
<1>3. ASSUME NEW run \in Runs, NEW row \in 0..(Height(screen) - 1), NEW col \in 0..Width(screen),
             DrawLine(row, col, run)
      PROVE  PipelineInv'
  <2>1. row \in Nat /\ col \in Nat
    OBVIOUS
  <2>2. /\ Draws(<<Line(row, col, run)>>) /\ row + 1 \in DOMAIN screen
        /\ screen' = [screen EXCEPT ![row + 1] = Overwrite(@, col, Written(run))]
    BY <1>3, Zenon DEF DrawLine
  <2>3. \A g : Like(g, screen) => Drawn(g, <<Line(row, col, run)>>, screen')
    BY <2>1, <2>2, DrawnLine, Zenon
  <2> QED BY <2>2, <2>3, DrawsStep, Zenon
<1>4. ASSUME NEW e \in Regions, NEW rows \in (-Height(screen))..Height(screen),
             DrawScroll(e[1], e[2], e[3], e[4], rows)
      PROVE  PipelineInv'
  <2>1. PICK top \in Nat, bot \in Nat, left \in Nat, right \in Nat :
          top = e[1] /\ bot = e[2] /\ left = e[3] /\ right = e[4] /\ top < bot /\ left < right
    BY NvimScreenAssumption DEF NvimScreenAssumption
  <2>2. rows \in Int
    OBVIOUS
  <2>3. DrawScroll(top, bot, left, right, rows)
    BY <1>4, <2>1, Zenon
  <2>4. PICK events : events = <<ScrollEvent(top, bot, left, right, rows)>> \o ScrollFill(top, bot, left, right, rows)
    OBVIOUS
  <2>5. Draws(events)
    BY <2>3, <2>4, Zenon DEF DrawScroll, ScrollEvent, ScrollFill
  <2>6. /\ bot <= Height(screen) /\ right <= Width(screen)
        /\ rows # 0 /\ rows < bot - top /\ -rows < bot - top
    BY <2>3, Zenon DEF DrawScroll
  <2>7. screen' = ScrolledScreen(screen, top, bot, left, right, rows)
    BY <2>3, Zenon DEF DrawScroll, ScrolledScreen
  <2>8. \A g : Like(g, screen) => Drawn(g, events, screen')
    BY <2>1, <2>2, <2>4, <2>6, <2>7, DrawnScroll, Zenon
  <2> QED BY <2>5, <2>8, DrawsStep, Zenon
<1> QED BY <1>1, <1>2, <1>3, <1>4, FlushStep, Zenon DEF Draw

(* Whatever happens, the program goes on retracing what nvim drew, as long *)
(* as its messages come in order.                                          *)
LEMMA NextStep ==
  ASSUME PipelineInv, [Next]_vars
  PROVE  PipelineInv'
<1>1. CASE Next
  <2>1. CASE Deliver
    <3>1. UNCHANGED <<nvim, wire, buffer>>
      BY <2>1, Zenon DEF Deliver
    <3> QED BY <2>1, <3>1, DeliverStep, SourceStays, Zenon
  <2>2. CASE OnRedrawBatch
    <3>1. UNCHANGED <<nvim, wire, buffer>>
      BY <2>2, Zenon DEF OnRedrawBatch
    <3> QED BY <2>2, <3>1, OnRedrawBatchStep, SourceStays, Zenon
  <2> QED BY <1>1, <2>1, <2>2, DrawStep, SendStep, ReadStep, Zenon DEF Next, Arrive
<1>2. CASE UNCHANGED vars
  <2>1. /\ screen' = screen /\ frames' = frames /\ ops' = ops /\ message' = message
        /\ wire' = wire /\ buffer' = buffer /\ inbox' = inbox /\ pending' = pending
        /\ channel' = channel /\ grid' = grid /\ handled' = handled /\ ordered' = ordered
    BY <1>2 DEF vars, nvim
  <2>2. PICK told, at, cut, past, ends, m, stream, k, d, y : Pipeline(told, at, cut, past, ends, m, stream, k, d, y)
    BY Zenon DEF PipelineInv
  <2>3. Received(stream, ends, k, y)'
    BY <2>1, <2>2, Zenon DEF Pipeline, Received
  <2>4. ordered => Replaying(told, at, cut, past, ends[d])'
    BY <2>1, <2>2, Zenon DEF Pipeline, Replaying
  <2>5. Pipeline(told, at, cut, past, ends, m, stream, k, d, y)'
    BY <2>1, <2>2, <2>3, <2>4, Zenon DEF Pipeline
  <2>6. ops' \in 0..MaxOps
    BY <2>1, Zenon DEF PipelineInv
  <2> QED BY <2>5, <2>6, Zenon DEF PipelineInv
<1> QED BY <1>1, <1>2

LEMMA AlwaysPipeline == Init /\ [][Next]_vars => []PipelineInv
<1>1. Init => PipelineInv
  BY InitStep
<1>2. PipelineInv /\ [Next]_vars => PipelineInv'
  BY NextStep
<1> QED BY <1>1, <1>2, PTL

LEMMA PipelineShows ==
  ASSUME PipelineInv
  PROVE  ShowsFrames
<1> SUFFICES ASSUME ordered, handled > 0 PROVE ShowsFrames
  BY DEF ShowsFrames
<1>1. PICK told, at, cut, past, ends, m, stream, k, d, y : Pipeline(told, at, cut, past, ends, m, stream, k, d, y)
  BY Zenon DEF PipelineInv
<1>2. /\ Told(told, at, cut, past, frames) /\ Sent(told, ends, m, stream) /\ k \in 0..m /\ d \in 0..k
      /\ Replaying(told, at, cut, past, ends[d])
  BY <1>1, Zenon DEF Pipeline
<1>3. ends[d] \in 0..Len(told)
  <2>1. m \in Nat /\ \A j \in 0..m : ends[j] \in 0..Len(told)
    BY <1>2, Zenon DEF Sent
  <2>2. d \in 0..m
    BY <1>2, <2>1
  <2> QED BY <2>1, <2>2, Zenon
<1>4. handled \in 1..Len(frames)
  <2>1. frames \in Seq(AnyGrid) /\ past[ends[d]] \in 0..Len(frames) /\ handled \in 0..past[ends[d]]
    BY <1>2, <1>3, Zenon DEF Told, Replaying
  <2> QED BY <2>1
<1>5. Like(grid, frames[handled])
  BY <1>2, <1>4, Zenon DEF Told, Replaying
<1>6. PICK w \in Nat \ {0}, h \in Nat \ {0} :
        /\ grid \in Grids(w, h) /\ frames[handled] \in Grids(w, h)
        /\ \A r \in 1..h, c \in 1..w : LikeCell(grid[r][c], frames[handled][r][c])
  BY <1>5, Zenon DEF Like
<1>7. Height(grid) = h /\ Width(grid) = w /\ Height(frames[handled]) = h /\ Width(frames[handled]) = w
  BY <1>6, GridShape, Zenon
<1> QED BY <1>6, <1>7, Zenon DEF ShowsFrames, LikeCell

(* ShowsFrames, however many highlights, runs, sizes and regions, however  *)
(* the stream is cut and however far the program is behind: after the n-th *)
(* batch AppState shows what nvim showed at its n-th flush, as long as no  *)
(* message has overtaken another.  Every one is delivered by a Task of its *)
(* own (NvimRPCClient+Reader.swift), and nothing keeps those in order.     *)
THEOREM BatchesShowFrames == Spec => []ShowsFrames
<1>1. Init /\ [][Next]_vars => []PipelineInv
  BY AlwaysPipeline
<1>2. PipelineInv => ShowsFrames
  BY PipelineShows
<1> QED BY <1>1, <1>2, PTL DEF Spec

LEMMA LikeGrids ==
  ASSUME NEW shown, NEW meant, Like(shown, meant)
  PROVE  IsGrid(shown) /\ IsGrid(meant)
<1>1. ASSUME NEW w \in Nat \ {0}, NEW h \in Nat \ {0}, NEW g \in Grids(w, h)
      PROVE  IsGrid(g)
  <2>1. Height(g) = h /\ Width(g) = w /\ \A r \in 1..h : g[r] \in [1..w -> Cell] /\ Len(g[r]) = w
    BY GridShape
  <2>2. ASSUME NEW r \in 1..h, NEW c \in 1..w PROVE g[r][c].text \in Glyphs /\ g[r][c].hl \in Highlights
    <3>1. g[r][c] \in Cell
      BY <2>1, Zenon
    <3> QED BY <3>1 DEF Cell
  <2> QED BY <2>1, <2>2, Zenon DEF IsGrid
<1> QED BY <1>1, Zenon DEF Like

(* The types of what nvim and the reader keep.                             *)
LEMMA SourceTypes ==
  ASSUME PipelineInv
  PROVE  /\ IsGrid(screen) /\ \A i \in DOMAIN frames : IsGrid(frames[i])
         /\ message \in Seq(Event) /\ wire \in Seq(Token) /\ buffer \in Seq(Token)
<1>1. PICK told, at, cut, past, ends, m, stream, k, d, y : Pipeline(told, at, cut, past, ends, m, stream, k, d, y)
  BY Zenon DEF PipelineInv
<1>2. /\ Told(told, at, cut, past, frames) /\ Like(at[Len(told)], screen)
      /\ Sent(told, ends, m, stream) /\ message = Slice(told, ends[m], Len(told))
      /\ k \in 0..m /\ Received(stream, ends, k, y)
  BY <1>1, Zenon DEF Pipeline
<1>3. /\ told \in Seq(Event) /\ frames \in Seq(AnyGrid) /\ stream \in Seq(Token) /\ m \in Nat
      /\ \A j \in 0..m : ends[j] \in 0..Len(told)
  BY <1>2, Zenon DEF Told, Sent
<1>4. IsGrid(screen) /\ \A i \in DOMAIN frames : IsGrid(frames[i])
  <2>1. \A i \in 1..Len(frames) : Like(at[cut[i]], frames[i])
    BY <1>2, Zenon DEF Told
  <2>2. DOMAIN frames = 1..Len(frames)
    BY <1>3
  <2> QED BY <1>2, <2>1, <2>2, LikeGrids, Zenon
<1>5. message \in Seq(Event)
  <2>1. PICK e \in Nat : e = ends[m] /\ e <= Len(told)
    BY <1>3
  <2>2. told \in Seq(Event) /\ Len(told) \in Nat /\ Len(told) <= Len(told)
    BY <1>3
  <2>3. Slice(told, e, Len(told)) \in Seq(Event)
    BY <2>1, <2>2, SliceType, Zenon
  <2> QED BY <1>2, <2>1, <2>3, Zenon
<1>6. wire \in Seq(Token) /\ buffer \in Seq(Token)
  <2>1. PICK b \in Nat : b = Begin(ends, k) /\ b <= y /\ y \in Nat /\ y <= Len(stream)
    <3>1. k \in 0..m
      BY <1>2
    <3>2. ends[k] \in 0..Len(told)
      BY <1>3, <3>1, Zenon
    <3>3. Begin(ends, k) \in Nat
      BY <1>3, <3>1, <3>2 DEF Begin
    <3> QED BY <1>2, <3>3, Zenon DEF Received
  <2>2. stream \in Seq(Token) /\ Len(stream) \in Nat /\ b <= Len(stream) /\ Len(stream) <= Len(stream)
    BY <1>3, <2>1
  <2>3. Slice(stream, b, y) \in Seq(Token)
    BY <2>1, <2>2, SliceType, Zenon
  <2>4. Slice(stream, y, Len(stream)) \in Seq(Token)
    BY <2>1, <2>2, SliceType, Zenon
  <2> QED BY <1>2, <2>1, <2>3, <2>4, Zenon DEF Received
<1> QED BY <1>4, <1>5, <1>6, Zenon
-----------------------------------------------------------------------------
(* The types, whatever overtakes what                                      *)

(* A fold whose steps stay in S is defined and stays there.                *)
Steps(n, S) == [1..n -> [S -> S]]
IsFold(f, n, S, first, step) ==
  f \in [0..n -> S] /\ f[0] = first /\ \A i \in 1..n : f[i] = step[i][f[i - 1]]

LEMMA Folded ==
  ASSUME NEW n \in Nat, NEW S, NEW first \in S, NEW step \in Steps(n, S)
  PROVE  \E f : IsFold(f, n, S, first, step)
<1>0. step \in [1..n -> [S -> S]]
  BY DEF Steps
<1> DEFINE Upto(m, f) == f \in [0..m -> S] /\ f[0] = first /\ \A i \in 1..m : f[i] = step[i][f[i - 1]]
           T == {m \in Nat : m <= n => \E f : Upto(m, f)}
<1>1. 0 \in T
  <2>1. PICK f : f = [i \in 0..0 |-> first]
    OBVIOUS
  <2>2. Upto(0, f)
    BY <2>1
  <2> QED BY <2>2
<1>2. ASSUME NEW m \in Nat, m \in T PROVE m + 1 \in T
  <2>1. SUFFICES ASSUME m + 1 <= n PROVE \E f : Upto(m + 1, f)
    OBVIOUS
  <2>2. PICK f : Upto(m, f)
    BY <1>2, <2>1
  <2>3. step[m + 1] \in [S -> S] /\ f[m] \in S
    BY <1>0, <2>1, <2>2
  <2>4. PICK last \in S : last = step[m + 1][f[m]]
    BY <2>3
  <2>5. PICK g : g = [i \in 0..(m + 1) |-> IF i = m + 1 THEN last ELSE f[i]]
    OBVIOUS
  <2>6. g \in [0..(m + 1) -> S] /\ g[0] = first /\ g[m + 1] = last /\ \A i \in 0..m : g[i] = f[i]
    BY <2>2, <2>5
  <2>7. ASSUME NEW i \in 1..(m + 1) PROVE g[i] = step[i][g[i - 1]]
    <3>1. CASE i = m + 1
      <4>1. i - 1 = m /\ m \in 0..m
        BY <3>1
      <4> QED BY <2>4, <2>6, <3>1, <4>1, Zenon
    <3>2. CASE i # m + 1
      <4>1. i \in 1..m /\ i \in 0..m /\ i - 1 \in 0..m
        BY <3>2
      <4> QED BY <2>2, <2>6, <4>1, Zenon
    <3> QED BY <3>1, <3>2
  <2> QED BY <2>6, <2>7, Zenon
<1>3. Nat \subseteq T
  <2> HIDE DEF T
  <2> QED BY <1>1, <1>2, NatSetInduction
<1>4. \E f : Upto(n, f)
  <2>1. n \in T
    <3> HIDE DEF T
    <3> QED BY <1>3
  <2>2. n <= n
    OBVIOUS
  <2> HIDE DEF Upto
  <2> QED BY <2>1, <2>2, Zenon
<1> QED BY <1>4, Zenon DEF IsFold

(* The grids AppState may have: none, or one of some size.                 *)
Sized == {<<>>} \cup {g \in AnyGrid : \E w, h \in Nat \ {0} : g \in Grids(w, h)}

LEMMA SizedGrids ==
  ASSUME NEW w \in Nat \ {0}, NEW h \in Nat \ {0}, NEW g \in Grids(w, h)
  PROVE  g \in Sized /\ IsGrid(g)
<1>1. Height(g) = h /\ Width(g) = w /\ g \in AnyGrid /\ \A r \in 1..h : g[r] \in [1..w -> Cell] /\ Len(g[r]) = w
  BY GridShape
<1>2. ASSUME NEW r \in 1..h, NEW c \in 1..w PROVE g[r][c].text \in Glyphs /\ g[r][c].hl \in Highlights
  <2>1. g[r][c] \in Cell
    BY <1>1, Zenon
  <2> QED BY <2>1 DEF Cell
<1>3. IsGrid(g)
  BY <1>1, <1>2, Zenon DEF IsGrid
<1> QED BY <1>1, <1>3, Zenon DEF Sized

LEMMA EmptyGrid ==
  /\ <<>> \in AnyGrid /\ DOMAIN <<>> = {} /\ IsGrid(<<>>) /\ Height(<<>>) = 0 /\ Width(<<>>) = 0
  /\ \A f : DOMAIN f = {} /\ f = [r \in DOMAIN f |-> f[r]] => f = <<>>
<1>1. <<>> = [r \in {} |-> <<>>]
  OBVIOUS
<1>2. ASSUME NEW f, DOMAIN f = {}, f = [r \in DOMAIN f |-> f[r]] PROVE f = <<>>
  BY <1>1, <1>2
<1>3. <<>> \in AnyGrid /\ DOMAIN <<>> = {} /\ Height(<<>>) = 0 /\ Width(<<>>) = 0
  BY DEF AnyGrid, Height, Width
<1>4. IsGrid(<<>>)
  BY <1>3 DEF IsGrid
<1> QED BY <1>2, <1>3, <1>4

(* Grids of one size, or no grid at all: what a scroll does not leave.     *)
OneSize(G) == G = {<<>>} \/ \E w, h \in Nat \ {0} : G = Grids(w, h)

LEMMA CopyRowStays ==
  ASSUME NEW G, OneSize(G), NEW g \in G, NEW to, NEW from, NEW left, NEW right
  PROVE  CopyRow(g, to, from, left, right) \in G
<1>1. CASE G = {<<>>}
  <2>1. DOMAIN g = {}
    BY <1>1, EmptyGrid
  <2> QED BY <2>1, Zenon DEF CopyRow
<1>2. ASSUME NEW w \in Nat \ {0}, NEW h \in Nat \ {0}, G = Grids(w, h)
      PROVE  CopyRow(g, to, from, left, right) \in G
  <2>1. DOMAIN g = 1..h /\ \A r \in 1..h : g[r] \in [1..w -> Cell] /\ DOMAIN g[r] = 1..w
    BY <1>2 DEF Grids
  <2>2. SUFFICES ASSUME to + 1 \in 1..h, from + 1 \in 1..h PROVE CopyRow(g, to, from, left, right) \in G
    BY <2>1, Zenon DEF CopyRow
  <2>3. PICK i \in 1..h, j \in 1..h : i = to + 1 /\ j = from + 1
    BY <2>2
  <2> DEFINE row == [c \in 1..w |-> IF c \in (left + 1)..right THEN g[j][c] ELSE g[i][c]]
  <2>4. CopyRow(g, to, from, left, right) = [g EXCEPT ![i] = row]
    <3>1. CopyRow(g, to, from, left, right) = [g EXCEPT ![i] = [c \in DOMAIN g[i] |->
             IF c \in (left + 1)..right /\ c \in DOMAIN g[j] THEN g[j][c] ELSE g[i][c]]]
      BY <2>1, <2>3, Zenon DEF CopyRow
    <3>2. [c \in DOMAIN g[i] |-> IF c \in (left + 1)..right /\ c \in DOMAIN g[j] THEN g[j][c] ELSE g[i][c]] = row
      BY <2>1, Zenon
    <3> QED BY <3>1, <3>2, Zenon
  <2>5. row \in [1..w -> Cell]
    <3>1. \A c \in 1..w : g[i][c] \in Cell /\ g[j][c] \in Cell
      BY <2>1
    <3> QED BY <3>1, Zenon
  <2> HIDE DEF row
  <2>6. [g EXCEPT ![i] = row] \in Grids(w, h)
    BY <1>2, <2>5 DEF Grids
  <2> QED BY <1>2, <2>4, <2>6, Zenon
<1> QED BY <1>1, <1>2, Zenon DEF OneSize

LEMMA MovedStays ==
  ASSUME NEW G, OneSize(G), NEW g \in G, NEW e, NEW order \in Seq(Int)
  PROVE  Moved(g, e, order) \in G
<1> DEFINE Copy(x, i) == CopyRow(x, order[i], order[i] + e.rows, e.left, e.right)
           Is(a) == a = [i \in 0..Len(order) |-> IF i = 0 THEN g ELSE Copy(a[i - 1], i)]
           after == CHOOSE a : Is(a)
           step == [i \in 1..Len(order) |-> [x \in G |-> Copy(x, i)]]
<1>1. Len(order) \in Nat
  OBVIOUS
<1>2. step \in [1..Len(order) -> [G -> G]]
  BY CopyRowStays, Zenon
<1>3. PICK n \in Nat : n = Len(order)
  BY <1>1
<1>4. PICK f \in [0..n -> G] : f[0] = g /\ \A i \in 1..n : f[i] = step[i][f[i - 1]]
  <2> HIDE DEF step
  <2>1. step \in Steps(n, G)
    BY <1>2, <1>3 DEF Steps
  <2>2. \E z : IsFold(z, n, G, g, step)
    BY <2>1, Folded, Zenon
  <2> QED BY <2>2, Zenon DEF IsFold
<1>5. ASSUME NEW i \in 1..n PROVE f[i] = Copy(f[i - 1], i)
  <2>1. f[i - 1] \in G
    OBVIOUS
  <2> QED BY <1>3, <1>4, <2>1, Zenon
<1>6. Moved(g, e, order) = after[n]
  BY <1>3, Zenon DEF Moved
<1> HIDE DEF step, Copy
<1>7. Is(f)
  <2>1. f = [i \in 0..n |-> f[i]]
    OBVIOUS
  <2>2. ASSUME NEW i \in 0..n PROVE f[i] = IF i = 0 THEN g ELSE Copy(f[i - 1], i)
    <3>1. i # 0 => i \in 1..n
      OBVIOUS
    <3> QED BY <1>4, <1>5, <3>1, Zenon
  <2> QED BY <1>3, <2>1, <2>2, Zenon
<1>8. Is(after)
  <2> HIDE DEF Is
  <2> QED BY <1>7, Zenon
<1> HIDE DEF after
<1>9. after[0] = f[0]
  BY <1>3, <1>4, <1>8
<1>10. ASSUME NEW i \in 1..n PROVE after[i] = Copy(after[i - 1], i)
  <2>1. i \in 0..n /\ i # 0
    OBVIOUS
  <2> QED BY <1>3, <1>8, <2>1, Zenon
<1>11. InStep(n, after, f)
  BY <1>5, <1>9, <1>10, Zenon DEF InStep
<1>12. after[n] = f[n] /\ f[n] \in G
  <2>1. \A i \in 0..n : after[i] = f[i]
    BY <1>11, SameSteps
  <2> QED BY <2>1
<1> QED BY <1>6, <1>12, Zenon

LEMMA BlankedStays ==
  ASSUME NEW G, OneSize(G), NEW g \in G, NEW e, NEW rows
  PROVE  Blanked(g, e, rows) \in G
<1>1. CASE G = {<<>>}
  <2>1. DOMAIN g = {}
    BY <1>1, EmptyGrid
  <2>2. PICK b : b = [r \in DOMAIN g |-> IF r - 1 \notin rows THEN g[r]
             ELSE [c \in DOMAIN g[r] |-> IF c \in (e.left + 1)..e.right THEN BlankCell ELSE g[r][c]]]
    OBVIOUS
  <2>3. b = Blanked(g, e, rows)
    BY <2>2, Zenon DEF Blanked
  <2>4. b = <<>>
    BY <2>1, <2>2
  <2> QED BY <1>1, <2>3, <2>4, Zenon
<1>2. ASSUME NEW w \in Nat \ {0}, NEW h \in Nat \ {0}, G = Grids(w, h)
      PROVE  Blanked(g, e, rows) \in G
  BY <1>2, BlankedGrid, Zenon DEF IsBlanked
<1> QED BY <1>1, <1>2, Zenon DEF OneSize

(* Whatever an event asks for: the grid keeps its size, or gets the size   *)
(* of the event.                                                           *)
LEMMA ApplyType ==
  ASSUME NEW g \in Sized, NEW e \in Event
  PROVE  Apply(g, e) \in Sized
<1>1. PICK G : g \in G /\ OneSize(G) /\ G \subseteq Sized
  <2>1. CASE g = <<>>
    <3>1. OneSize({<<>>}) /\ {<<>>} \subseteq Sized
      BY DEF OneSize, Sized
    <3> QED BY <2>1, <3>1
  <2>2. ASSUME NEW w \in Nat \ {0}, NEW h \in Nat \ {0}, g \in Grids(w, h)
        PROVE  OneSize(Grids(w, h)) /\ Grids(w, h) \subseteq Sized
    BY SizedGrids, Zenon DEF OneSize
  <2>3. CASE g # <<>>
    <3>1. PICK w \in Nat \ {0}, h \in Nat \ {0} : g \in Grids(w, h)
      BY <2>3, Zenon DEF Sized
    <3> QED BY <2>2, <3>1, Zenon
  <2> QED BY <2>1, <2>3
<1>2. CASE e.type = "resize"
  <2>1. PICK size \in Sizes : e = [type |-> "resize", size |-> size]
    BY <1>2 DEF Event
  <2>2. g \in AnyGrid
    BY EmptyGrid, Zenon DEF Sized
  <2>3. size[1] \in Nat \ {0} /\ size[2] \in Nat \ {0} /\ Resized(g, size) \in Grids(size[1], size[2])
    BY <2>2, ResizedGrid
  <2>4. Apply(g, e) = Resized(g, size)
    BY <2>1, ApplyOthers, Zenon
  <2> QED BY <2>3, <2>4, SizedGrids, Zenon
<1>3. CASE e.type = "clear"
  <2>1. Apply(g, e) = Grid(Width(g), Height(g), BlankCell)
    BY <1>3 DEF Apply
  <2>2. CASE g = <<>>
    <3>1. Height(g) = 0 /\ 1..0 = {}
      BY <2>2, EmptyGrid
    <3>2. PICK b : b = Apply(g, e) /\ DOMAIN b = {} /\ b = [r \in DOMAIN b |-> b[r]]
      BY <2>1, <3>1, Zenon DEF Grid
    <3> QED BY <3>2, EmptyGrid, Zenon DEF Sized
  <2>3. ASSUME NEW w \in Nat \ {0}, NEW h \in Nat \ {0}, g \in Grids(w, h) PROVE Apply(g, e) \in Sized
    <3>1. Height(g) = h /\ Width(g) = w
      BY <2>3, GridShape
    <3>2. Grid(w, h, BlankCell) \in Grids(w, h)
      BY BlankType, UniformGrid
    <3> QED BY <2>1, <3>1, <3>2, SizedGrids, Zenon
  <2> QED BY <2>2, <2>3, Zenon DEF Sized
<1>4. CASE e.type = "line"
  <2>1. e.row \in Nat /\ e.col \in Nat /\ e.run \in Seq(RunCell)
    BY <1>4 DEF Event
  <2>2. PICK row \in Nat, col \in Nat, run \in Seq(RunCell) : row = e.row /\ col = e.col /\ run = e.run
    BY <2>1
  <2>3. Apply(g, e) = Lined(g, row, col, run)
    BY <1>4, <2>2 DEF Apply
  <2> DEFINE hls == [i \in DOMAIN run |-> Effective(run, i)]
  <2>4. \A i \in DOMAIN run : hls[i] \in Highlights /\ run[i].text \in Glyphs
    <3>1. \A i \in DOMAIN run : run[i] \in RunCell
      OBVIOUS
    <3> QED BY <3>1, HighlightLike, Zenon DEF RunCell
  <2>5. PICK cells : cells = Spread(run, hls)
    OBVIOUS
  <2>6. cells \in Seq(Cell)
    <3> HIDE DEF hls
    <3> QED BY <2>4, <2>5, SpreadLike, Zenon
  <2>7. CASE row + 1 \notin DOMAIN g
    BY <2>3, <2>7, Zenon DEF Lined
  <2>8. CASE row + 1 \in DOMAIN g
    <3>1. Lined(g, row, col, run) = [g EXCEPT ![row + 1] = Overwrite(@, col, cells)]
      BY <2>5, <2>8, Zenon DEF Lined
    <3>2. PICK w \in Nat \ {0}, h \in Nat \ {0} : g \in Grids(w, h)
      <4>1. g # <<>>
        BY <2>8, EmptyGrid
      <4> QED BY <4>1, Zenon DEF Sized
    <3>3. row + 1 \in 1..h
      BY <2>8, <3>2 DEF Grids
    <3>4. [g EXCEPT ![row + 1] = Overwrite(@, col, cells)] \in Grids(w, h)
      BY <2>6, <3>2, <3>3, GridPut, Zenon DEF IsPut
    <3> QED BY <2>3, <3>1, <3>2, <3>4, SizedGrids, Zenon
  <2> QED BY <2>7, <2>8
<1>5. CASE e.type = "scroll"
  <2>1. PICK top \in Nat, bot \in Nat, rows \in Int : top = e.top /\ bot = e.bot /\ rows = e.rows
    BY <1>5 DEF Event
  <2>2. Apply(g, e) = Scrolled(g, e)
    BY <1>5, ApplyOthers, Zenon
  <2>3. \A n \in Int : (n \notin Nat => 1..n = {} /\ 1..n = 1..0)
    OBVIOUS
  <2>4. ASSUME NEW n \in Int, NEW f \in [1..n -> Int] PROVE f \in Seq(Int)
    <3>1. CASE n \in Nat
      BY <3>1
    <3>2. CASE n \notin Nat
      <4>1. f \in [1..0 -> Int]
        BY <2>3, <3>2, Zenon
      <4> QED BY <4>1
    <3> QED BY <3>1, <3>2
  <2>5. CASE rows > 0
    <3>1. PICK order : order = [i \in 1..(e.bot - e.top - e.rows) |-> e.top + i - 1]
      OBVIOUS
    <3>2. order \in [1..(bot - top - rows) -> Int]
      BY <2>1, <3>1
    <3>3. bot - top - rows \in Int
      OBVIOUS
    <3>4. order \in Seq(Int)
      BY <2>4, <3>2, <3>3, Zenon
    <3>5. \E z : Scrolled(g, e) = Blanked(Moved(g, e, order), e, z)
      BY <2>1, <2>5, <3>1, Zenon DEF Scrolled
    <3> QED BY <1>1, <2>2, <3>4, <3>5, MovedStays, BlankedStays, Zenon
  <2>6. CASE ~(rows > 0)
    <3>1. PICK order : order = [i \in 1..(e.bot - e.top + e.rows) |-> e.bot - i]
      OBVIOUS
    <3>2. order \in [1..(bot - top + rows) -> Int]
      BY <2>1, <3>1
    <3>3. bot - top + rows \in Int
      OBVIOUS
    <3>4. order \in Seq(Int)
      BY <2>4, <3>2, <3>3, Zenon
    <3>5. \E z : Scrolled(g, e) = Blanked(Moved(g, e, order), e, z)
      BY <2>1, <2>6, <3>1, Zenon DEF Scrolled
    <3> QED BY <1>1, <2>2, <3>4, <3>5, MovedStays, BlankedStays, Zenon
  <2> QED BY <2>5, <2>6
<1>6. CASE e.type = "flush"
  BY <1>6, ApplyOthers, Zenon
<1>7. e.type \in {"flush", "clear", "resize", "line", "scroll"}
  BY DEF Event
<1> QED BY <1>2, <1>3, <1>4, <1>5, <1>6, <1>7

LEMMA ReplayedType ==
  ASSUME NEW g \in Sized, NEW events \in Seq(Event)
  PROVE  Replayed(g, events) \in Sized
<1> DEFINE step == [i \in 1..Len(events) |-> [x \in Sized |-> Apply(x, events[i])]]
<1>1. step \in [1..Len(events) -> [Sized -> Sized]]
  <2>1. \A i \in 1..Len(events) : events[i] \in Event
    OBVIOUS
  <2> QED BY <2>1, ApplyType, Zenon
<1>2. PICK n \in Nat : n = Len(events)
  OBVIOUS
<1>3. PICK at \in [0..n -> Sized] : at[0] = g /\ \A i \in 1..n : at[i] = step[i][at[i - 1]]
  <2> HIDE DEF step
  <2>1. step \in Steps(n, Sized)
    BY <1>1, <1>2 DEF Steps
  <2>2. \E z : IsFold(z, n, Sized, g, step)
    BY <2>1, Folded, Zenon
  <2> QED BY <2>2, Zenon DEF IsFold
<1>4. ASSUME NEW i \in 1..n PROVE at[i] = Apply(at[i - 1], events[i])
  <2>1. at[i - 1] \in Sized
    OBVIOUS
  <2> QED BY <1>2, <1>3, <2>1, Zenon
<1>5. Replays(at, g, events)
  BY <1>2, <1>3, <1>4, Zenon DEF Replays
<1>6. at[n] \in Sized
  OBVIOUS
<1> QED BY <1>2, <1>5, <1>6, ReplayedResult

LEMMA CollectedType ==
  ASSUME pending \in Seq(Event), NEW events \in Seq(Event)
  PROVE  Collected(events).pending \in Seq(Event) /\ Collected(events).posted \in Seq(Seq(Event))
<1> DEFINE S == [pending : Seq(Event), posted : Seq(Seq(Event))]
           step == [i \in 1..Len(events) |-> [x \in S |-> Collect(x, events[i])]]
<1>1. ASSUME NEW x \in S, NEW e \in Event PROVE Collect(x, e) \in S
  <2>1. x.pending \in Seq(Event) /\ x.posted \in Seq(Seq(Event))
    OBVIOUS
  <2>2. Append(x.pending, e) \in Seq(Event)
    BY <2>1
  <2>3. Append(x.posted, Append(x.pending, e)) \in Seq(Seq(Event))
    BY <2>1, <2>2
  <2>4. [x EXCEPT !.pending = Append(@, e)] \in S
    BY <2>2
  <2> QED BY <2>3, <2>4 DEF Collect
<1>2. step \in [1..Len(events) -> [S -> S]]
  <2>1. \A i \in 1..Len(events) : events[i] \in Event
    OBVIOUS
  <2> HIDE DEF S
  <2> QED BY <1>1, <2>1, Zenon
<1>3. PICK n \in Nat : n = Len(events)
  OBVIOUS
<1>4. PICK first \in S : first = [pending |-> pending, posted |-> <<>>]
  <2>1. pending \in Seq(Event) /\ <<>> \in Seq(Seq(Event))
    OBVIOUS
  <2>2. [pending |-> pending, posted |-> <<>>] \in S
    BY <2>1
  <2> QED BY <2>2
<1>5. PICK f \in [0..n -> S] : f[0] = first /\ \A i \in 1..n : f[i] = step[i][f[i - 1]]
  <2> HIDE DEF step, S
  <2>1. step \in Steps(n, S)
    BY <1>2, <1>3 DEF Steps
  <2>2. \E z : IsFold(z, n, S, first, step)
    BY <2>1, Folded, Zenon
  <2> QED BY <2>2, Zenon DEF IsFold
<1>6. ASSUME NEW i \in 1..n PROVE f[i] = Collect(f[i - 1], events[i])
  <2> HIDE DEF S
  <2>1. f[i - 1] \in S
    OBVIOUS
  <2> QED BY <1>3, <1>5, <2>1, Zenon
<1>7. Collects(f, events)
  BY <1>3, <1>4, <1>5, <1>6, Zenon DEF Collects
<1>8. Collected(events) = f[n]
  BY <1>3, <1>7, CollectedResult
<1>9. f[n] \in S
  <2> HIDE DEF S
  <2> QED OBVIOUS
<1> QED BY <1>8, <1>9

(* What the program keeps of nvim's messages, in whatever order they come. *)
DeliveryInv ==
  /\ inbox \in Seq(Seq(Event)) /\ pending \in Seq(Event) /\ channel \in Seq(Seq(Event))
  /\ grid \in Sized /\ handled \in Nat /\ ordered \in BOOLEAN

LEMMA DeliveryStep ==
  ASSUME PipelineInv, DeliveryInv, [Next]_vars
  PROVE  DeliveryInv'
<1> USE DEF DeliveryInv
<1>1. CASE UNCHANGED <<inbox, pending, channel, grid, handled, ordered>>
  BY <1>1
<1>2. CASE Draw \/ Send
  <2>1. CASE Draw
    <3>1. (\E events : Draws(events)) \/ Flush
      BY <2>1, Zenon DEF Draw, DrawClear, DrawResize, DrawLine, DrawScroll
    <3> QED BY <1>1, <3>1 DEF Draws, Flush
  <2>2. CASE Send
    BY <1>1, <2>2 DEF Send
  <2> QED BY <1>2, <2>1, <2>2
<1>3. CASE Read
  <2>1. PICK told, at, cut, past, ends, m, stream, k, d, y :
          /\ Pipeline(told, at, cut, past, ends, m, stream, k, d, y)
          /\ \E e \in k..m, y2 \in Nat :
               /\ Received(stream, ends, e, y2)'
               /\ inbox' = inbox \o Slice(Messages(told, ends, m), k, e)
          /\ UNCHANGED <<nvim, ordered, pending, channel, grid, handled>>
    BY <1>3, ReadCuts, Zenon
  <2>2. Sent(told, ends, m, stream) /\ k \in 0..m /\ m \in Nat
    BY <2>1, Zenon DEF Pipeline, Sent
  <2>3. PICK all : all = Messages(told, ends, m) /\ all \in Seq(Seq(Event)) /\ Len(all) = m
    BY <2>2, MessagesType
  <2>4. PICK e \in k..m : inbox' = inbox \o Slice(all, k, e)
    BY <2>1, <2>3, Zenon
  <2>5. Slice(all, k, e) \in Seq(Seq(Event))
    <3>1. k \in Nat /\ e \in Nat /\ k <= e /\ e <= Len(all)
      BY <2>2, <2>3
    <3> QED BY <2>3, <3>1, SliceType
  <2>6. inbox' \in Seq(Seq(Event))
    BY <2>4, <2>5
  <2> QED BY <2>1, <2>6
<1>4. CASE Deliver
  <2>1. PICK i \in DOMAIN inbox :
          /\ ordered' = (ordered /\ i = 1) /\ inbox' = RemoveAt(inbox, i)
          /\ pending' = Collected(inbox[i]).pending /\ channel' = channel \o Collected(inbox[i]).posted
          /\ grid' = grid /\ handled' = handled
    BY <1>4, Zenon DEF Deliver
  <2>2. inbox[i] \in Seq(Event)
    OBVIOUS
  <2>3. pending' \in Seq(Event) /\ Collected(inbox[i]).posted \in Seq(Seq(Event))
    BY <2>1, <2>2, CollectedType
  <2>4. channel' \in Seq(Seq(Event))
    BY <2>1, <2>3
  <2>5. inbox' \in Seq(Seq(Event))
    <3>1. i \in 1..Len(inbox) /\ Len(inbox) \in Nat
      OBVIOUS
    <3>2. SubSeq(inbox, 1, i - 1) \in Seq(Seq(Event)) /\ SubSeq(inbox, i + 1, Len(inbox)) \in Seq(Seq(Event))
      BY <3>1
    <3>3. RemoveAt(inbox, i) = SubSeq(inbox, 1, i - 1) \o SubSeq(inbox, i + 1, Len(inbox))
      BY Zenon DEF RemoveAt
    <3>4. SubSeq(inbox, 1, i - 1) \o SubSeq(inbox, i + 1, Len(inbox)) \in Seq(Seq(Event))
      BY <3>2
    <3> QED BY <2>1, <3>3, <3>4, Zenon
  <2> QED BY <2>1, <2>3, <2>4, <2>5
<1>5. CASE OnRedrawBatch
  <2>1. /\ channel # <<>> /\ grid' = Replayed(grid, Head(channel)) /\ channel' = Tail(channel)
        /\ handled' = handled + 1 /\ UNCHANGED <<inbox, pending, ordered>>
    BY <1>5 DEF OnRedrawBatch
  <2>2. Head(channel) \in Seq(Event) /\ Tail(channel) \in Seq(Seq(Event))
    BY <2>1
  <2>3. grid' \in Sized
    BY <2>1, <2>2, ReplayedType
  <2> QED BY <2>1, <2>2, <2>3
<1> QED BY <1>1, <1>2, <1>3, <1>4, <1>5 DEF Next, Arrive, vars

(* Every state component keeps its type and AppState's grid its shape,     *)
(* whichever message overtakes which: a line or a scroll for a grid that   *)
(* is not there, or that has another size by now, does not break it.       *)
THEOREM ScreenTypeCorrect == Spec => []TypeOK
<1>1. Init /\ [][Next]_vars => []PipelineInv
  BY AlwaysPipeline
<1>2. Init => DeliveryInv
  BY DEF Init, DeliveryInv, Sized
<1>3. PipelineInv /\ DeliveryInv /\ [Next]_vars => DeliveryInv'
  BY DeliveryStep
<1>4. PipelineInv /\ DeliveryInv => TypeOK
  <2> SUFFICES ASSUME PipelineInv, DeliveryInv PROVE TypeOK
    OBVIOUS
  <2>1. IsGrid(grid)
    BY EmptyGrid, SizedGrids, Zenon DEF DeliveryInv, Sized
  <2>2. ops \in 0..MaxOps
    BY Zenon DEF PipelineInv
  <2> QED BY <2>1, <2>2, SourceTypes, Zenon DEF DeliveryInv, TypeOK
<1> QED BY <1>1, <1>2, <1>3, <1>4, PTL DEF Spec
=============================================================================
