--------------------------- MODULE RunOutput_proofs ---------------------------
(***************************************************************************)
(* A run and its output, proved for any number of runs, lines and keys and *)
(* any capacity of the buffer.  That nothing the script printed is lost,   *)
(* repeated or out of order rests on an account of where its lines are:    *)
(* those its user has been given, then those in the channel, event by      *)
(* event, then those pending in the Coalescer, with no gap in between; and *)
(* on the report of its end being the last the channel has of the run.     *)
(***************************************************************************)
EXTENDS RunOutput, FiniteSetTheorems, SequenceTheorems, TLAPS

(* The lines of a sequence are those the run printed after the k-th.       *)
Stretch(lines, r, k) == \A j \in 1..Len(lines) : lines[j] = LineOf(r, k + j)

(* The events of q carry what the run printed after its a-th line and up   *)
(* to its b-th: pos[i] have been given when i of them are handled.         *)
Delivers(q, r, a, b) ==
  \E pos \in [0..Len(q) -> 0..b] :
    /\ pos[0] = a /\ pos[Len(q)] = b
    /\ \A i \in 1..Len(q) :
         /\ q[i].type = "output" =>
              /\ q[i].lines # <<>> /\ pos[i] = pos[i - 1] + Len(q[i].lines)
              /\ Stretch(q[i].lines, r, pos[i - 1])
         /\ q[i].type # "output" => pos[i] = pos[i - 1]
         /\ q[i].type = "finished" => pos[i] = b

(* An event that has nothing to do with the run.                           *)
Neutral(e) == e.type \notin {"output", "finished"}
NoneOf(q)  == \A i \in 1..Len(q) : Neutral(q[i])

PrintedOf(r) == IF r = 0 THEN 0 ELSE printed[r]
PendingOf(r) == IF r = 0 THEN <<>> ELSE pending[r]
Posted       == PrintedOf(runNumber) - Len(PendingOf(runNumber))

(* Where the lines of the last run are.                                    *)
LinesInOrder ==
  /\ Stretch(shown, runNumber, 0)
  /\ Posted \in Nat
  /\ Delivers(channel, runNumber, Len(shown), Posted)
  /\ Stretch(PendingOf(runNumber), runNumber, Posted)

(* The report of a run's end is posted by a Task that has nothing left to  *)
(* say, and is the last that is heard of the run.                          *)
EndIsLast ==
  \A i \in 1..Len(channel) : channel[i].type = "finished" =>
    /\ runState = "running" /\ task[runNumber] = "gone"
    /\ \A j \in i + 1 .. Len(channel) : Neutral(channel[j])

(* The Tasks of earlier runs are gone, those of later ones not begun.      *)
OneRunAtATime ==
  /\ \A r \in Runs :
       /\ r > runNumber => task[r] = "none" /\ printed[r] = 0 /\ pending[r] = <<>>
       /\ r < runNumber => task[r] = "gone"
       /\ r = runNumber => task[r] # "none"
       /\ task[r] \in {"flushed", "gone"} => pending[r] = <<>>
  /\ runState = "running" => runNumber # 0 /\ active = runNumber
  /\ runState # "running" =>
       /\ active = 0 /\ (runNumber # 0 => task[runNumber] = "gone")
       /\ Len(shown) = Posted /\ NoneOf(channel)

(* The lines of a buffer are a block of it, the newest of those given.     *)
NewestLines(buf, given, lo, hi) ==
  /\ lo <= hi /\ hi <= Len(buf) /\ hi - lo <= Len(given)
  /\ \A i \in 1..Len(buf) : buf[i][1] = "line" <=> lo < i /\ i <= hi
  /\ \A i \in lo + 1 .. hi : buf[i][2] = given[Len(given) - (hi - i)]

(* Nothing follows them as long as the run is not reported over.           *)
BufferInv ==
  \E lo, hi \in 0..Cap : /\ NewestLines(buffer, shown, lo, hi)
                         /\ runState # "completed" => hi = Len(buffer)

RunInv == TypeOK /\ LinesInOrder /\ EndIsLast /\ OneRunAtATime
-----------------------------------------------------------------------------
(* The channel.                                                            *)

(* What handling the first event, or posting another, does to the account  *)
(* of the lines in a channel.                                              *)
LEMMA Deliveries ==
  ASSUME NEW q \in Seq(Event), NEW r, NEW a \in Nat, NEW b \in Nat, Delivers(q, r, a, b)
  PROVE  /\ \A e \in Event : e.type # "output" => Delivers(Append(q, e), r, a, b)
         /\ \A s \in Seq(Line) :
              s # <<>> /\ Stretch(s, r, b) /\ (\A i \in 1..Len(q) : q[i].type # "finished")
                => Delivers(Append(q, Output(s)), r, a, b + Len(s))
         /\ q # <<>> /\ Head(q).type = "output" =>
              /\ Head(q).lines # <<>> /\ Stretch(Head(q).lines, r, a)
              /\ a + Len(Head(q).lines) <= b
              /\ Delivers(Tail(q), r, a + Len(Head(q).lines), b)
         /\ q # <<>> /\ Head(q).type # "output" => Delivers(Tail(q), r, a, b)
         /\ q # <<>> /\ Head(q).type = "finished" => a = b
<1> DEFINE Account(p, f, x, y) ==
      /\ f[0] = x /\ f[Len(p)] = y
      /\ \A i \in 1..Len(p) :
           /\ p[i].type = "output" =>
                /\ p[i].lines # <<>> /\ f[i] = f[i - 1] + Len(p[i].lines)
                /\ Stretch(p[i].lines, r, f[i - 1])
           /\ p[i].type # "output" => f[i] = f[i - 1]
           /\ p[i].type = "finished" => f[i] = y
<1>1. PICK pos \in [0..Len(q) -> 0..b] : Account(q, pos, a, b)
  BY DEF Delivers
<1>2. ASSUME NEW p, NEW x, NEW y, NEW f \in [0..Len(p) -> 0..y], Account(p, f, x, y)
      PROVE  Delivers(p, r, x, y)
  BY <1>2 DEF Delivers
<1>3. ASSUME NEW e \in Event, e.type # "output" PROVE Delivers(Append(q, e), r, a, b)
  <2> DEFINE p == Append(q, e)
             f == [i \in 0..Len(p) |-> IF i <= Len(q) THEN pos[i] ELSE b]
  <2>1. Len(p) = Len(q) + 1 /\ p[Len(q) + 1] = e /\ \A i \in 1..Len(q) : p[i] = q[i]
    OBVIOUS
  <2>2. f \in [0..Len(p) -> 0..b]
    BY <2>1
  <2>3. Account(p, f, a, b)
    BY <1>1, <1>3, <2>1
  <2> QED BY <1>2, <2>2, <2>3
<1>4. ASSUME NEW s \in Seq(Line), s # <<>>, Stretch(s, r, b),
             \A i \in 1..Len(q) : q[i].type # "finished"
      PROVE  Delivers(Append(q, Output(s)), r, a, b + Len(s))
  <2> DEFINE p == Append(q, Output(s))
             f == [i \in 0..Len(p) |-> IF i <= Len(q) THEN pos[i] ELSE b + Len(s)]
  <2>1. /\ Len(p) = Len(q) + 1 /\ p[Len(q) + 1] = Output(s)
        /\ \A i \in 1..Len(q) : p[i] = q[i]
    OBVIOUS
  <2>2. Output(s).type = "output" /\ Output(s).lines = s
    BY DEF Output
  <2>3. f \in [0..Len(p) -> 0..b + Len(s)]
    BY <2>1
  <2>4. /\ Len(q) \in Nat /\ f[Len(p)] = b + Len(s) /\ f[Len(q)] = b
        /\ \A i \in 0..Len(q) : f[i] = pos[i]
    BY <1>1, <2>1
  <2> HIDE DEF p, f
  <2>5. ASSUME NEW i \in 1..Len(p)
        PROVE  /\ p[i].type = "output" =>
                    /\ p[i].lines # <<>> /\ f[i] = f[i - 1] + Len(p[i].lines)
                    /\ Stretch(p[i].lines, r, f[i - 1])
               /\ p[i].type # "output" => f[i] = f[i - 1]
               /\ p[i].type = "finished" => f[i] = b + Len(s)
    <3>1. CASE i \in 1..Len(q)
      <4>1. f[i] = pos[i] /\ f[i - 1] = pos[i - 1] /\ p[i] = q[i]
        BY <2>1, <2>4, <3>1
      <4> QED BY <1>1, <1>4, <3>1, <4>1
    <3>2. CASE i = Len(q) + 1
      <4>1. f[i] = b + Len(s) /\ f[i - 1] = b /\ p[i] = Output(s)
        BY <2>1, <2>4, <3>2
      <4> QED BY <1>4, <2>2, <4>1
    <3> QED BY <2>1, <2>4, <3>1, <3>2
  <2>6. Account(p, f, a, b + Len(s))
    BY <1>1, <2>4, <2>5
  <2> QED BY <1>2, <2>3, <2>6 DEF p
<1>5. ASSUME q # <<>>
      PROVE  /\ Delivers(Tail(q), r, pos[1], b)
             /\ Head(q) = q[1] /\ 1 \in 1..Len(q) /\ pos[1] \in 0..b
  <2> DEFINE p == Tail(q)
             f == [i \in 0..Len(p) |-> pos[i + 1]]
  <2>1. /\ Len(q) \in Nat \ {0} /\ Len(p) = Len(q) - 1
        /\ \A i \in 1..Len(p) : p[i] = q[i + 1]
    BY <1>5
  <2>2. f \in [0..Len(p) -> 0..b]
    BY <2>1
  <2>3. Account(p, f, pos[1], b)
    BY <1>1, <2>1
  <2>4. Delivers(p, r, pos[1], b)
    <3> HIDE DEF p, f
    <3> QED BY <1>2, <2>2, <2>3
  <2>5. Head(q) = q[1] /\ 1 \in 1..Len(q) /\ pos[1] \in 0..b
    BY <1>5, <2>1
  <2> QED BY <2>4, <2>5
<1> QED BY <1>1, <1>3, <1>4, <1>5
-----------------------------------------------------------------------------
(* The buffer, the ticks, the types.                                       *)

(* appendOutputLines keeps the newest entries: what is left of the old and *)
(* the new ones is moved down, and the first place is the notice's.        *)
LEMMA BufferAppend ==
  ASSUME NEW buf \in Seq(Entries), NEW es \in Seq(Entries), Len(buf) <= Cap
  PROVE  LET all == buf \o es
             k   == Len(all) - Cap
             res == AppendEntries(buf, es)
         IN  /\ res \in Seq(Entries) /\ Len(res) <= Cap
             /\ Len(all) <= Cap => res = all
             /\ Len(all) > Cap =>
                  /\ Len(res) = Cap /\ res[1] = Entry("notice", k + 1)
                  /\ \A i \in 2..Cap : res[i] = all[i + k]
<1> DEFINE all == buf \o es
           k   == Len(all) - Cap
           res == AppendEntries(buf, es)
           rest == SubSeq(all, k + 2, Len(all))
<1>1. all \in Seq(Entries) /\ Len(all) \in Nat /\ Cap \in Nat \ {0}
  BY RunOutputAssumption DEF RunOutputAssumption
<1>2. CASE Len(all) <= Cap
  <2>1. res = all
    BY <1>2 DEF AppendEntries
  <2> QED BY <1>1, <1>2, <2>1
<1>3. CASE Len(all) > Cap
  <2> HIDE DEF all
  <2>1. /\ k + 1 \in Nat /\ k + 2 \in 1..Len(all) + 1 /\ rest \in Seq(Entries)
        /\ Len(rest) = Cap - 1 /\ \A i \in 1..Cap - 1 : rest[i] = all[k + 1 + i]
    <3>1. k \in Nat \ {0} /\ Len(all) = Cap + k
      BY <1>1, <1>3
    <3> HIDE DEF k
    <3>2. k + 1 \in Nat /\ k + 2 \in 1..Len(all) + 1 /\ Len(all) \in Nat
      BY <1>1, <3>1
    <3>3. rest \in Seq(Entries)
      BY <1>1, <3>2
    <3>4. Len(rest) = Cap - 1
      BY <1>1, <3>1, <3>2
    <3>5. \A i \in 1..Cap - 1 : rest[i] = all[k + 1 + i]
      BY <1>1, <3>1, <3>2
    <3> QED BY <3>2, <3>3, <3>4, <3>5
  <2>2. res = <<Entry("notice", k + 1)>> \o rest
    BY <1>1, <1>3 DEF AppendEntries, all
  <2>3. Entry("notice", k + 1) \in Entries
    BY <2>1 DEF Entry, Entries
  <2> HIDE DEF rest, k
  <2>4. /\ res \in Seq(Entries) /\ Len(res) = Cap /\ res[1] = Entry("notice", k + 1)
        /\ \A i \in 2..Cap : res[i] = rest[i - 1]
    BY <1>1, <2>1, <2>2, <2>3
  <2>5. \A i \in 2..Cap : res[i] = all[i + k]
    BY <1>1, <2>1, <2>4 DEF k
  <2>6. ~(Len(all) <= Cap) /\ Len(res) <= Cap
    BY <1>1, <1>3, <2>4
  <2> QED BY <1>3, <2>4, <2>5, <2>6, Zenon DEF k, all
<1> QED BY <1>1, <1>2, <1>3

Ticks == {Disarmed, Stopped} \cup {Interval[c] : c \in DOMAIN Interval}

(* armTickIfNeeded finds the shortest of the intervals in need, so the     *)
(* source is armed whenever somebody needs it.                             *)
LEMMA ArmedAsNeeded ==
  ASSUME TypeOK
  PROVE  /\ \A t \in Ticks : SetTick(t) =>
              tick' \in Ticks /\ thread' \in {"loop", "asleep", "timing", "posting", "gone"}
         /\ ArmIfNeeded \/ ArmOrStop =>
              tick' \in Ticks /\ thread' \in {"loop", "asleep", "timing", "posting", "gone"}
         /\ ArmOrStop => ((tick' = Disarmed) <=> (Needs(runState', deadline') = {}))
         /\ ArmIfNeeded /\ Needs(runState', deadline') # {} => tick' # Disarmed
         /\ \/ ArmIfNeeded /\ Needs(runState', deadline') # {}
            \/ ArmOrStop
            => tick' \in Needs(runState', deadline') \cup {Disarmed}
<1> DEFINE S == Needs(runState', deadline')
           I == {50, 100, 500, 1500}
<1>1. /\ I \subseteq Ticks /\ Disarmed \in Ticks /\ Disarmed \notin I
      /\ \A d \in Deadlines : Interval[d] \in I
      /\ Interval["run"] \in I
  BY DEF Ticks, Interval, Disarmed, Stopped, Deadlines
<1>2. S \subseteq I
  BY <1>1 DEF Needs
<1>3. S # {} => Shortest(S) \in S
  <2> HIDE DEF S
  <2>1. ASSUME S # {} PROVE \E i \in S : \A j \in S : i <= j
    <3>1. CASE 50 \in S
      BY <1>2, <3>1
    <3>2. CASE 50 \notin S /\ 100 \in S
      BY <1>2, <3>2
    <3>3. CASE 50 \notin S /\ 100 \notin S /\ 500 \in S
      BY <1>2, <3>3
    <3>4. CASE 50 \notin S /\ 100 \notin S /\ 500 \notin S
      <4>1. \A j \in S : j = 1500
        BY <1>2, <3>4
      <4> QED BY <2>1, <4>1
    <3> QED BY <3>1, <3>2, <3>3, <3>4
  <2> QED BY <2>1 DEF Shortest
<1>4. \A t \in Ticks : SetTick(t) =>
        tick' \in Ticks /\ thread' \in {"loop", "asleep", "timing", "posting", "gone"}
  BY DEF SetTick, TypeOK
<1>5. UNCHANGED tickVars =>
        tick' \in Ticks /\ thread' \in {"loop", "asleep", "timing", "posting", "gone"}
  BY DEF tickVars, TypeOK, Ticks
<1> HIDE DEF S
<1>6. ArmOrStop => SetTick(IF S = {} THEN Disarmed ELSE Shortest(S))
  BY DEF ArmOrStop, S
<1>7. ArmIfNeeded => IF S = {} THEN UNCHANGED tickVars ELSE SetTick(Shortest(S))
  BY DEF ArmIfNeeded, S
<1>8. S # {} => Shortest(S) # Disarmed
  <2>1. ASSUME S # {} PROVE Shortest(S) \in I
    BY <1>2, <1>3, <2>1 DEF S
  <2> QED BY <1>1, <2>1
<1>9. ArmOrStop => ((tick' = Disarmed) <=> (S = {}))
  BY <1>6, <1>8 DEF SetTick
<1>10. ArmIfNeeded /\ S # {} => tick' # Disarmed
  BY <1>7, <1>8 DEF SetTick
<1>11. S # {} => Shortest(S) \in Ticks
  BY <1>1, <1>2, <1>3 DEF S
<1>12. (ArmIfNeeded /\ S # {}) \/ ArmOrStop => tick' \in S \cup {Disarmed}
  BY <1>3, <1>6, <1>7 DEF SetTick
<1>13. /\ \A t \in Ticks : SetTick(t) =>
             tick' \in Ticks /\ thread' \in {"loop", "asleep", "timing", "posting", "gone"}
       /\ ArmIfNeeded \/ ArmOrStop =>
             tick' \in Ticks /\ thread' \in {"loop", "asleep", "timing", "posting", "gone"}
  BY <1>1, <1>4, <1>5, <1>6, <1>7, <1>11
<1> QED BY <1>9, <1>10, <1>12, <1>13 DEF S

LEMMA TypesAreKept == TypeOK /\ [Next]_vars => TypeOK'
<1> SUFFICES ASSUME TypeOK, [Next]_vars PROVE TypeOK'
  OBVIOUS
<1>8. \A n \in Nat : \A f \in [1..n -> Entries] : f \in Seq(Entries)
  BY SeqDef, SMT
<1> USE DEF TypeOK, uiVars, runVars
<1>0. /\ \A t \in {"tick", "finished", "transient"} : Plain(t) \in Event
      /\ \A l \in Seq(Line) : Output(l) \in Event
  BY DEF Plain, Output, Event
<1>1. CASE ThreadStep
  <2>1. CASE ThreadLoops BY <2>1 DEF ThreadLoops, ThreadKeeps
  <2>2. CASE TimerEnds   BY <2>2 DEF TimerEnds, ThreadKeeps
  <2>3. CASE PostTick
    <3>1. channel' \in Seq(Event)
      BY <1>0, <2>3 DEF PostTick
    <3> QED BY <2>3, <3>1 DEF PostTick, ThreadKeeps
  <2> QED BY <1>1, <2>1, <2>2, <2>3 DEF ThreadStep
<1>2. ASSUME NEW d \in Deadlines, DeadlinePasses(d) PROVE TypeOK'
  BY <1>2 DEF DeadlinePasses, tickVars
<1>3. ASSUME NEW r \in Runs, NEW lines \in Seq(Line), NEW q \in Seq(Event), Flush(r, lines, q)
      PROVE  /\ channel' \in Seq(Event) /\ pending' \in [Runs -> Seq(Line)]
             /\ gateOpen' \in [Runs -> BOOLEAN]
  <2>1. CASE lines = <<>>
    BY <1>3, <2>1 DEF Flush
  <2>2. CASE lines # <<>>
    <3>1. /\ channel' = Append(q, Output(lines)) /\ Output(lines) \in Event
          /\ pending' = [pending EXCEPT ![r] = <<>>]
          /\ gateOpen' = [gateOpen EXCEPT ![r] = FALSE]
      BY <1>0, <1>3, <2>2 DEF Flush
    <3>2. pending' \in [Runs -> Seq(Line)] /\ gateOpen' \in [Runs -> BOOLEAN]
      BY <3>1
    <3> QED BY <3>1, <3>2
  <2> QED BY <2>1, <2>2
<1>4. ASSUME NEW r \in Runs, GateOpens(r) \/ OnOutput(r) \/ RunReturns(r) \/ TaskEnds(r)
      PROVE  TypeOK'
  <2> USE DEF RunKeeps, tickVars
  <2>2. CASE GateOpens(r)  BY <2>2 DEF GateOpens
  <2>3. CASE RunReturns(r) BY <2>3 DEF RunReturns
  <2>4. CASE OnOutput(r)
    <3> DEFINE lines == Append(pending[r], LineOf(r, printed'[r]))
    <3>1. printed' \in [Runs -> 0..MaxLines] /\ printed'[r] \in 1..MaxLines
      BY <2>4, RunOutputAssumption DEF OnOutput, RunOutputAssumption
    <3>2. LineOf(r, printed'[r]) \in Line
      BY <3>1 DEF LineOf, Line
    <3>3. lines \in Seq(Line)
      BY <3>2
    <3> HIDE DEF lines
    <3>4. IF gateOpen[r] THEN Flush(r, lines, channel)
          ELSE pending' = [pending EXCEPT ![r] = lines] /\ UNCHANGED <<gateOpen, channel>>
      BY <2>4 DEF OnOutput, lines
    <3>5. /\ channel' \in Seq(Event) /\ pending' \in [Runs -> Seq(Line)]
          /\ gateOpen' \in [Runs -> BOOLEAN]
      BY <1>3, <3>3, <3>4
    <3> QED BY <2>4, <3>1, <3>5 DEF OnOutput
  <2>5. CASE FinishFlushes(r)
    <3>1. /\ channel' \in Seq(Event) /\ pending' \in [Runs -> Seq(Line)]
          /\ gateOpen' \in [Runs -> BOOLEAN]
      BY <1>3, <2>5 DEF FinishFlushes
    <3> QED BY <2>5, <3>1 DEF FinishFlushes
  <2>6. CASE PostFinished(r)
    <3>1. channel' \in Seq(Event)
      BY <1>0, <2>6 DEF PostFinished
    <3> QED BY <2>6, <3>1 DEF PostFinished
  <2> QED BY <1>4, <2>2, <2>3, <2>4, <2>5, <2>6 DEF TaskEnds
<1>5. CASE HandleEvent
  <2>1. channel # <<>> => Tail(channel) \in Seq(Event) /\ Head(channel) \in Event
    OBVIOUS
  <2>2. CASE OnTick
    <3>1. /\ channel' \in Seq(Event) /\ pending' \in [Runs -> Seq(Line)]
          /\ gateOpen' \in [Runs -> BOOLEAN]
      <4>1. CASE active = 0
        BY <2>1, <2>2, <4>1 DEF OnTick, Took
      <4>2. CASE active # 0
        <5>1. active \in Runs /\ pending[active] \in Seq(Line) /\ Tail(channel) \in Seq(Event)
          <6>1. channel # <<>>
            BY <2>2 DEF OnTick, Took
          <6>2. active \in Runs
            BY <4>2 DEF Runs
          <6> QED BY <2>1, <6>1, <6>2
        <5>2. Flush(active, pending[active], Tail(channel))
          BY <2>2, <4>2 DEF OnTick
        <5> QED BY <1>3, <5>1, <5>2
      <4> QED BY <4>1, <4>2
    <3>2. tick' \in Ticks /\ thread' \in {"loop", "asleep", "timing", "posting", "gone"}
      BY <2>2, ArmedAsNeeded DEF OnTick
    <3>3. deadline' \in [Deadlines -> {"none", "set", "due"}]
      BY <2>2 DEF OnTick
    <3> QED BY <2>2, <3>1, <3>2, <3>3 DEF OnTick, Ticks
  <2>3. CASE OnRunOutput
    <3> DEFINE lines == Head(channel).lines
               es    == [i \in DOMAIN lines |-> Entry("line", lines[i])]
    <3>1. lines \in Seq(Line)
      BY <2>1, <2>3 DEF OnRunOutput, Took, Event, Plain
    <3>2. es \in Seq(Entries)
      <4>1. \A i \in 1..Len(lines) : Entry("line", lines[i]) \in Entries
        BY <3>1 DEF Entry, Entries
      <4>2. DOMAIN lines = 1..Len(lines) /\ Len(lines) \in Nat
        BY <3>1
      <4>3. es \in [1..Len(lines) -> Entries]
        BY <4>1, <4>2
      <4> HIDE DEF es
      <4> HIDE DEF lines, TypeOK
      <4> QED BY <1>8, <4>2, <4>3
    <3>3. buffer' \in Seq(Entries) /\ Len(buffer') <= Cap
      BY <2>3, <3>2, BufferAppend DEF OnRunOutput
    <3>4. shown' \in Seq(Line)
      BY <2>3, <3>1 DEF OnRunOutput
    <3> QED BY <2>1, <2>3, <3>3, <3>4 DEF OnRunOutput, Took, tickVars
  <2>4. CASE OnRunFinished
    <3>1. /\ Entry("footer", runNumber) \in Entries /\ Entry("value", runNumber) \in Entries
      BY DEF Entry, Entries
    <3>2. PICK value \in {<<>>, <<Entry("value", runNumber)>>} :
            buffer' = AppendEntries(AppendEntries(buffer, value), <<Entry("footer", runNumber)>>)
      BY <2>4 DEF OnRunFinished
    <3>3. value \in Seq(Entries) /\ <<Entry("footer", runNumber)>> \in Seq(Entries)
      <4>1. \A e \in Entries : <<e>> \in Seq(Entries)
        OBVIOUS
      <4>2. <<>> \in Seq(Entries)
        OBVIOUS
      <4>3. value = <<>> \/ value = <<Entry("value", runNumber)>>
        BY <3>2
      <4> QED BY <3>1, <4>1, <4>2, <4>3
    <3>4. AppendEntries(buffer, value) \in Seq(Entries) /\ Len(AppendEntries(buffer, value)) <= Cap
      BY <3>3, BufferAppend
    <3>5. buffer' \in Seq(Entries) /\ Len(buffer') <= Cap
      BY <3>2, <3>3, <3>4, BufferAppend
    <3>6. tick' \in Ticks /\ thread' \in {"loop", "asleep", "timing", "posting", "gone"}
      BY <2>4, ArmedAsNeeded DEF OnRunFinished
    <3> QED BY <2>1, <2>4, <3>5, <3>6, RunOutputAssumption
            DEF OnRunFinished, Took, Ticks, RunOutputAssumption
  <2>5. CASE OnTransient
    <3>1. tick' \in Ticks /\ thread' \in {"loop", "asleep", "timing", "posting", "gone"}
      BY <2>5, ArmedAsNeeded DEF OnTransient, Begin
    <3> QED BY <2>1, <2>5, <3>1 DEF OnTransient, Took, Begin, Ticks
  <2> QED BY <1>5, <2>2, <2>3, <2>4, <2>5 DEF HandleEvent
<1>6. CASE PressKey
  <2>1. Press => keys' \in 0..MaxKeys
    BY RunOutputAssumption DEF Press, RunOutputAssumption
  <2>2. /\ \A c \in DOMAIN Interval : Interval[c] \in Ticks
        /\ "run" \in DOMAIN Interval /\ "transient" \in DOMAIN Interval
        /\ Stopped \in Ticks
    BY DEF Ticks, Interval
  <2>3. ASSUME NEW d \in Deadlines, Begin(d), Press, channel' = channel PROVE TypeOK'
    <3>1. tick' \in Ticks /\ thread' \in {"loop", "asleep", "timing", "posting", "gone"}
      BY <2>3, ArmedAsNeeded DEF Begin
    <3> QED BY <2>1, <2>3, <3>1 DEF Begin, Ticks
  <2>4. CASE PressRun
    <3>1. CASE StartRun
      <4>1. runNumber' \in Runs /\ runNumber' \in 0..MaxRuns
        BY <3>1, RunOutputAssumption DEF StartRun, Runs, RunOutputAssumption
      <4>2. tick' \in Ticks /\ thread' \in {"loop", "asleep", "timing", "posting", "gone"}
        BY <2>2, <3>1, ArmedAsNeeded DEF StartRun
      <4>3. Len(buffer') <= Cap /\ buffer' \in Seq(Entries) /\ shown' \in Seq(Line)
        BY <3>1, RunOutputAssumption DEF StartRun, RunOutputAssumption
      <4> QED BY <2>1, <2>4, <3>1, <4>1, <4>2, <4>3 DEF StartRun, PressRun, Ticks
    <3>2. "transient" \in Deadlines
      BY DEF Deadlines
    <3> QED BY <2>3, <2>4, <3>1, <3>2 DEF PressRun
  <2>5. CASE PressCancel
    <3>1. channel' \in Seq(Event)
      BY <1>0, <2>5 DEF PressCancel
    <3> QED BY <2>1, <2>5, <3>1 DEF PressCancel, tickVars
  <2>6. CASE PressClear
    <3>1. Entry("cleared", 0) \in Entries
      BY DEF Entry, Entries
    <3>2. buffer' \in Seq(Entries) /\ Len(buffer') <= Cap
      BY <2>6, <3>1, RunOutputAssumption DEF PressClear, RunOutputAssumption
    <3> QED BY <2>1, <2>6, <3>2 DEF PressClear, tickVars
  <2>7. CASE PressOther
    BY <2>3, <2>7 DEF PressOther
  <2>8. CASE PressEditor
    <3>1. tick' \in Ticks /\ thread' \in {"loop", "asleep", "timing", "posting", "gone"}
      BY <2>2, <2>8, ArmedAsNeeded DEF PressEditor
    <3> QED BY <2>1, <2>8, <3>1 DEF PressEditor, Ticks
  <2>9. CASE PressQuit
    <3>1. tick' \in Ticks /\ thread' \in {"loop", "asleep", "timing", "posting", "gone"}
      BY <2>2, <2>9, ArmedAsNeeded DEF PressQuit
    <3>2. channel' \in Seq(Event)
      BY <1>0, <2>9 DEF PressQuit
    <3> QED BY <2>1, <2>9, <3>1, <3>2 DEF PressQuit, Ticks
  <2>10. CASE PressSelect
    BY <2>1, <2>10 DEF PressSelect, Drop, tickVars
  <2>11. CASE EditorEnds
    <3>1. CASE Drop("resize")
      BY <2>1, <2>11, <3>1 DEF EditorEnds, Drop, tickVars
    <3>2. CASE ~Drop("resize")
      <4>1. tick' \in Ticks /\ thread' \in {"loop", "asleep", "timing", "posting", "gone"}
        BY <2>11, <3>2, ArmedAsNeeded DEF EditorEnds
      <4> QED BY <2>1, <2>11, <3>2, <4>1 DEF EditorEnds, Ticks
    <3> QED BY <3>1, <3>2
  <2>12. CASE SourceArrives
    <3>1. tick' \in Ticks /\ thread' \in {"loop", "asleep", "timing", "posting", "gone"}
      BY <2>12, ArmedAsNeeded DEF SourceArrives
    <3> QED BY <2>1, <2>12, <3>1 DEF SourceArrives, Ticks
  <2> QED BY <1>6, <2>4, <2>5, <2>6, <2>7, <2>8, <2>9, <2>10, <2>11, <2>12 DEF PressKey
<1>7. CASE UNCHANGED vars
  BY <1>7 DEF vars, tickVars
<1> QED BY <1>1, <1>2, <1>4, <1>5, <1>6, <1>7 DEF Next

(* Every variable keeps its type; the buffer, its notice included, never   *)
(* has more than Cap entries, whatever is appended at once.                *)
THEOREM RunTypesAreKept == Spec => []TypeOK
<1>1. Init => TypeOK
  <2> SUFFICES ASSUME Init PROVE TypeOK
    OBVIOUS
  <2>1. /\ 0 \in 0..MaxRuns /\ 0 \in 0..MaxLines /\ 0 \in 0..MaxKeys /\ 0 <= Cap
    BY RunOutputAssumption DEF RunOutputAssumption
  <2>2. /\ buffer \in Seq(Entries) /\ Len(buffer) <= Cap
        /\ pending \in [Runs -> Seq(Line)] /\ channel \in Seq(Event) /\ shown \in Seq(Line)
    BY <2>1 DEF Init
  <2> QED BY <2>1, <2>2 DEF Init, TypeOK
<1> QED BY <1>1, TypesAreKept, PTL DEF Spec

(* The reducer's one timer for its consumers: whenever one of them begins, *)
(* or a run or a message ends, the source is armed if somebody still needs *)
(* it and stopped if nobody does; a pulse or a resize that is dropped      *)
(* leaves it as it is.                                                     *)
THEOREM TicksFollowNeeds == Spec => []TicksAsNeeded
<1> DEFINE Quiet(rs, dl) == rs # "running" /\ dl["transient"] = "none"
           Rest == {Disarmed, Interval["pulse"], Interval["resize"]}
<1>1. Init => TicksAsNeeded
  BY DEF Init, TicksAsNeeded, Needs, Deadlines
<1>2. TypeOK /\ TicksAsNeeded /\ [Next]_vars => TicksAsNeeded'
  <2> SUFFICES ASSUME TypeOK, TicksAsNeeded, [Next]_vars, ~ended' PROVE TicksAsNeeded'
    BY DEF TicksAsNeeded
  <2>1. ASSUME UNCHANGED <<tick, runState, deadline>>, ~ended PROVE TicksAsNeeded'
    BY <2>1 DEF TicksAsNeeded
  <2>2. Quiet(runState', deadline') => Needs(runState', deadline') \subseteq Rest
    BY DEF Needs, Deadlines
  <2>3. ASSUME ArmOrStop \/ (ArmIfNeeded /\ Needs(runState', deadline') # {})
        PROVE  TicksAsNeeded'
    <3>1. /\ Needs(runState', deadline') # {} => tick' # Disarmed
          /\ tick' \in Needs(runState', deadline') \cup {Disarmed}
      BY <2>3, ArmedAsNeeded
    <3> QED BY <2>2, <3>1 DEF TicksAsNeeded
  <2>4. ASSUME NEW d \in Deadlines, deadline'[d] = "set"
        PROVE  Needs(runState', deadline') # {}
    <3>1. Interval[d] \in Needs(runState', deadline')
      BY <2>4 DEF Needs
    <3> QED BY <3>1
  <2>5. ASSUME NEW d \in Deadlines, Begin(d) PROVE TicksAsNeeded'
    <3>1. deadline'[d] = "set" /\ ArmIfNeeded
      BY <2>5 DEF Begin, TypeOK
    <3> QED BY <2>3, <2>4, <3>1
  <2>6. \A c \in DOMAIN Interval : Interval[c] # Disarmed
    BY DEF Interval, Disarmed
  <2>7. "transient" \in Deadlines /\ "pulse" \in Deadlines /\ "resize" \in Deadlines
    BY DEF Deadlines
  <2>8. CASE ThreadStep
    BY <2>1, <2>8 DEF ThreadStep, ThreadLoops, TimerEnds, PostTick, ThreadKeeps, uiVars
  <2>9. ASSUME NEW d \in Deadlines, DeadlinePasses(d) PROVE TicksAsNeeded'
    <3>1. {c \in Deadlines : deadline'[c] # "none"} = {c \in Deadlines : deadline[c] # "none"}
      BY <2>9 DEF DeadlinePasses, TypeOK
    <3>2. UNCHANGED <<runState, tick, ended>>
      BY <2>9 DEF DeadlinePasses, tickVars
    <3>3. Needs(runState', deadline') = Needs(runState, deadline)
      BY <3>1, <3>2 DEF Needs
    <3>4. Quiet(runState', deadline') => Quiet(runState, deadline)
      BY <2>7, <3>1, <3>2
    <3> QED BY <3>2, <3>3, <3>4 DEF TicksAsNeeded
  <2>10. ASSUME NEW r \in Runs, GateOpens(r) \/ OnOutput(r) \/ RunReturns(r) \/ TaskEnds(r)
        PROVE  TicksAsNeeded'
    BY <2>1, <2>10 DEF GateOpens, OnOutput, RunReturns, TaskEnds, FinishFlushes, PostFinished,
                      RunKeeps, uiVars, tickVars
  <2>11. CASE HandleEvent
    <3>1. CASE OnRunOutput
      BY <2>1, <3>1 DEF OnRunOutput, tickVars
    <3>2. CASE OnTransient
      BY <2>5, <2>7, <3>2 DEF OnTransient
    <3>3. CASE OnTick \/ OnRunFinished
      <4>1. ArmOrStop
        BY <3>3 DEF OnTick, OnRunFinished
      <4> QED BY <2>3, <4>1
    <3> QED BY <2>11, <3>1, <3>2, <3>3 DEF HandleEvent
  <2>12. ASSUME NEW d \in {"pulse", "resize"}, Drop(d), ~ended PROVE TicksAsNeeded'
    <3>1. /\ UNCHANGED <<runState, tick>> /\ deadline'["transient"] = deadline["transient"]
          /\ \A c \in Deadlines : deadline'[c] # "none" => deadline[c] # "none"
      BY <2>7, <2>12 DEF Drop, tickVars, TypeOK
    <3>2. Needs(runState', deadline') \subseteq Needs(runState, deadline)
      BY <3>1 DEF Needs
    <3> QED BY <2>12, <3>1, <3>2 DEF TicksAsNeeded
  <2>13. CASE PressKey
    <3>1. CASE PressRun
      <4>1. CASE StartRun
        <5>1. runState' = "running" /\ tick' = Interval["run"]
          BY <4>1 DEF StartRun, SetTick
        <5> QED BY <2>6, <5>1 DEF TicksAsNeeded, Interval
      <4> QED BY <2>5, <2>7, <3>1, <4>1 DEF PressRun
    <3>2. CASE PressCancel \/ PressClear
      BY <2>1, <3>2 DEF PressCancel, PressClear, tickVars
    <3>3. CASE PressOther
      BY <2>5, <3>3 DEF PressOther
    <3>4. CASE PressEditor
      <4>1. deadline'["transient"] = "set" /\ tick' = Interval["transient"]
        BY <2>7, <3>4 DEF PressEditor, SetTick, TypeOK
      <4> QED BY <2>6, <4>1 DEF TicksAsNeeded, Interval
    <3>5. CASE PressSelect
      BY <2>12, <3>5 DEF PressSelect, Press
    <3>6. CASE EditorEnds
      <4>1. CASE Drop("resize")
        BY <2>12, <3>6, <4>1 DEF EditorEnds, Press
      <4>2. CASE ~Drop("resize")
        <5>1. deadline'["transient"] = "set" /\ ArmIfNeeded
          BY <2>7, <3>6, <4>2 DEF EditorEnds, TypeOK
        <5> QED BY <2>3, <2>4, <2>7, <5>1
      <4> QED BY <4>1, <4>2
    <3>7. CASE SourceArrives
      <4>1. CASE Needs(runState', deadline') # {}
        BY <2>3, <3>7, <4>1 DEF SourceArrives
      <4>2. CASE Needs(runState', deadline') = {}
        BY <2>1, <3>7, <4>2 DEF SourceArrives, Press, ArmIfNeeded, tickVars
      <4> QED BY <4>1, <4>2
    <3>8. ~PressQuit
      BY DEF PressQuit
    <3> QED BY <2>13, <3>1, <3>2, <3>3, <3>4, <3>5, <3>6, <3>7, <3>8 DEF PressKey
  <2>14. CASE UNCHANGED vars
    BY <2>1, <2>14 DEF vars, uiVars, tickVars
  <2> QED BY <2>8, <2>9, <2>10, <2>11, <2>13, <2>14 DEF Next
<1> QED BY <1>1, <1>2, RunTypesAreKept, PTL DEF Spec
-----------------------------------------------------------------------------
(* The lines of the run.                                                   *)

(* Where the lines of the last run are, in every reachable state.          *)
THEOREM RunInvariant == Spec => []RunInv
<1>1. Init /\ TypeOK => RunInv
  <2> SUFFICES ASSUME Init, TypeOK PROVE RunInv
    OBVIOUS
  <2>1. Len(<<>>) = 0 /\ 0 - 0 = 0
    OBVIOUS
  <2>2. /\ runNumber = 0 /\ shown = <<>> /\ channel = <<>> /\ Len(channel) = 0 /\ Len(shown) = 0
        /\ PrintedOf(runNumber) = 0 /\ PendingOf(runNumber) = <<>>
    BY <2>1 DEF Init, PrintedOf, PendingOf
  <2>3. Posted = 0
    BY <2>1, <2>2 DEF Posted
  <2>4. Delivers(channel, runNumber, 0, 0)
    <3> DEFINE pos == [i \in 0..0 |-> 0]
    <3>1. pos \in [0..Len(channel) -> 0..0] /\ pos[0] = 0 /\ 1..Len(channel) = {}
      BY <2>2
    <3> HIDE DEF pos
    <3> QED BY <2>2, <3>1 DEF Delivers
  <2>5. LinesInOrder
    BY <2>2, <2>3, <2>4 DEF LinesInOrder, Stretch
  <2>6. EndIsLast /\ NoneOf(channel)
    BY <2>2 DEF EndIsLast, NoneOf
  <2>7. OneRunAtATime
    BY <2>2, <2>3, <2>6 DEF OneRunAtATime, Init, Runs
  <2> QED BY <2>5, <2>6, <2>7 DEF RunInv
(* One step per action that concerns the run; the others stay beside it.   *)
<1>3. RunInv /\ [Next]_vars => RunInv'
  <2> SUFFICES ASSUME RunInv, [Next]_vars PROVE RunInv'
    OBVIOUS
  <2>1. TypeOK /\ LinesInOrder /\ EndIsLast /\ OneRunAtATime
    BY DEF RunInv
  <2>2. TypeOK'
    BY <2>1, TypesAreKept
  <2>3. /\ \A t \in {"tick", "transient"} : Neutral(Plain(t)) /\ Plain(t) \in Event
        /\ Len(shown) \in Nat /\ Posted \in Nat /\ channel \in Seq(Event)
    BY <2>1 DEF Neutral, Plain, Event, TypeOK, LinesInOrder
  (* A step beside the run: the channel at most loses or gains an event that *)
  (* has nothing to do with it.                                              *)
  <2>13. ASSUME RunInv, TypeOK',
                UNCHANGED <<runState, runNumber, active, task, printed, pending, shown>>,
                \/ channel' = channel
                \/ \E e \in Event : Neutral(e) /\ channel' = Append(channel, e)
                \/ channel # <<>> /\ Neutral(Head(channel)) /\ channel' = Tail(channel)
         PROVE  RunInv'
    <3> USE <2>13
    <3>1. TypeOK /\ LinesInOrder /\ EndIsLast /\ OneRunAtATime
      BY DEF RunInv
    <3>2. /\ Posted' = Posted /\ Len(shown') = Len(shown) /\ Len(shown) \in Nat /\ Posted \in Nat
          /\ PendingOf(runNumber)' = PendingOf(runNumber) /\ channel \in Seq(Event)
      BY <3>1 DEF Posted, PrintedOf, PendingOf, LinesInOrder, TypeOK
    <3>3. /\ Delivers(channel', runNumber, Len(shown), Posted)
          /\ EndIsLast'
          /\ NoneOf(channel) => NoneOf(channel')
      <4>1. CASE channel' = channel
        BY <3>1, <4>1 DEF LinesInOrder, EndIsLast
      <4>2. ASSUME NEW e \in Event, Neutral(e), channel' = Append(channel, e)
            PROVE  /\ Delivers(channel', runNumber, Len(shown), Posted)
                   /\ EndIsLast'
                   /\ NoneOf(channel) => NoneOf(channel')
        <5>1. Delivers(channel', runNumber, Len(shown), Posted)
          BY <3>1, <3>2, <4>2, Deliveries DEF LinesInOrder, Neutral
        <5>2. /\ Len(channel') = Len(channel) + 1 /\ channel'[Len(channel) + 1] = e
              /\ \A i \in 1..Len(channel) : channel'[i] = channel[i] /\ Len(channel) \in Nat
          BY <3>2, <4>2
        <5> QED BY <3>1, <3>2, <4>2, <5>1, <5>2 DEF EndIsLast, NoneOf, Neutral
      <4>3. CASE channel # <<>> /\ Neutral(Head(channel)) /\ channel' = Tail(channel)
        <5>1. Delivers(channel', runNumber, Len(shown), Posted)
          BY <3>1, <3>2, <4>3, Deliveries DEF LinesInOrder, Neutral
        <5>2. /\ Len(channel') = Len(channel) - 1 /\ Len(channel) \in Nat
              /\ \A i \in 1..Len(channel') : channel'[i] = channel[i + 1]
          BY <3>2, <4>3
        <5>3. NoneOf(channel) => NoneOf(channel')
          BY <5>2 DEF NoneOf
        <5>4. ASSUME NEW i \in 1..Len(channel'), channel'[i].type = "finished"
              PROVE  /\ runState = "running" /\ task[runNumber] = "gone"
                     /\ \A j \in i + 1 .. Len(channel') : Neutral(channel'[j])
          <6>1. i + 1 \in 1..Len(channel) /\ channel[i + 1].type = "finished"
            BY <5>2, <5>4
          <6>2. \A j \in i + 1 .. Len(channel') :
                  channel'[j] = channel[j + 1] /\ j + 1 \in (i + 1) + 1 .. Len(channel)
            BY <5>2
          <6> QED BY <3>1, <6>1, <6>2 DEF EndIsLast
        <5> QED BY <5>1, <5>3, <5>4 DEF EndIsLast
      <4> QED BY <4>1, <4>2, <4>3
    <3>4. LinesInOrder'
      BY <3>1, <3>2, <3>3 DEF LinesInOrder
    <3>5. OneRunAtATime'
      BY <3>1, <3>2, <3>3 DEF OneRunAtATime
    <3> QED BY <3>3, <3>4, <3>5 DEF RunInv
  (* The Coalescer hands what is pending, and what was printed just now, to  *)
  (* the channel behind the events in q.                                     *)
  <2>14. ASSUME RunInv, TypeOK', UNCHANGED <<runState, runNumber, active, shown>>,
                runState = "running", task[runNumber] \notin {"flushed", "gone"},
                NEW lines \in Seq(Line), lines # <<>>, Stretch(lines, runNumber, Posted),
                NEW q \in Seq(Event), Delivers(q, runNumber, Len(shown), Posted),
                \A i \in 1..Len(q) : q[i].type # "finished",
                channel' = Append(q, Output(lines)),
                pending' = [pending EXCEPT ![runNumber] = <<>>],
                NEW t \in {"evaluating", "returned", "flushed"},
                task' = [task EXCEPT ![runNumber] = t],
                printed' = [printed EXCEPT ![runNumber] = Posted + Len(lines)]
         PROVE  RunInv'
    <3> USE <2>14
    <3>1. TypeOK /\ LinesInOrder /\ EndIsLast /\ OneRunAtATime
      BY DEF RunInv
    <3>2. runNumber \in Runs /\ runNumber # 0
      BY <3>1 DEF TypeOK, OneRunAtATime, Runs
    <3>3. /\ task'[runNumber] = t /\ pending'[runNumber] = <<>>
          /\ printed'[runNumber] = Posted + Len(lines)
          /\ \A r \in Runs : r # runNumber =>
               task'[r] = task[r] /\ pending'[r] = pending[r] /\ printed'[r] = printed[r]
      BY <3>1, <3>2 DEF TypeOK
    <3>4. /\ Posted' = Posted + Len(lines) /\ PendingOf(runNumber)' = <<>> /\ Posted \in Nat
          /\ Len(lines) \in Nat /\ Len(shown) \in Nat
      <4>1. PendingOf(runNumber)' = <<>> /\ PrintedOf(runNumber)' = Posted + Len(lines)
        BY <3>2, <3>3 DEF PrintedOf, PendingOf
      <4>2. Posted \in Nat
        BY <3>1 DEF LinesInOrder
      <4>3. Len(lines) \in Nat /\ Len(shown) \in Nat
        BY <3>1 DEF TypeOK
      <4>4. Posted' = printed'[runNumber] - Len(pending'[runNumber])
        BY <3>2 DEF Posted, PrintedOf, PendingOf
      <4> QED BY <3>3, <4>1, <4>2, <4>3, <4>4
    <3>5. Delivers(channel', runNumber, Len(shown), Posted + Len(lines))
      BY <3>4, Deliveries
    <3>6. LinesInOrder'
      BY <3>1, <3>4, <3>5 DEF LinesInOrder, Stretch
    <3>7. \A i \in 1..Len(channel') : channel'[i].type # "finished"
      <4>1. Len(channel') = Len(q) + 1 /\ channel'[Len(q) + 1] = Output(lines) /\ Len(q) \in Nat
            /\ \A i \in 1..Len(q) : channel'[i] = q[i]
        OBVIOUS
      <4>2. Output(lines).type # "finished"
        BY DEF Output
      <4> QED BY <4>1, <4>2
    <3>8. EndIsLast'
      BY <3>7 DEF EndIsLast
    <3>9. OneRunAtATime'
      BY <3>1, <3>2, <3>3 DEF OneRunAtATime, TypeOK, Runs
    <3> QED BY <3>6, <3>8, <3>9 DEF RunInv
  <2>4. CASE ThreadStep
    <3>1. UNCHANGED <<runState, runNumber, active, task, printed, pending, shown>>
      BY <2>4 DEF ThreadStep, ThreadLoops, TimerEnds, PostTick, ThreadKeeps, uiVars, runVars
    <3>2. channel' = channel \/ channel' = Append(channel, Plain("tick"))
      BY <2>4 DEF ThreadStep, ThreadLoops, TimerEnds, PostTick
    <3> QED BY <2>2, <2>3, <3>1, <3>2, <2>13
  <2>5. ASSUME NEW d \in Deadlines, DeadlinePasses(d) PROVE RunInv'
    BY <2>2, <2>5, <2>13 DEF DeadlinePasses, runVars
  <2>6. CASE PressKey
    <3>1. CASE StartRun /\ runState # "running"
      <4>1. /\ runNumber' = runNumber + 1 /\ runNumber \in Nat /\ runNumber' \in Runs
            /\ runState' = "running" /\ shown' = <<>> /\ active' = runNumber'
            /\ task' = [task EXCEPT ![runNumber'] = "evaluating"]
            /\ UNCHANGED <<printed, pending, channel>>
        BY <2>1, <3>1, RunOutputAssumption DEF StartRun, Runs, RunOutputAssumption, TypeOK
      <4>2. printed[runNumber'] = 0 /\ pending[runNumber'] = <<>>
        BY <2>1, <4>1 DEF OneRunAtATime
      <4>3. NoneOf(channel)
        BY <2>1, <3>1 DEF OneRunAtATime
      <4>4. Delivers(channel, runNumber', 0, 0)
        <5> DEFINE pos == [i \in 0..Len(channel) |-> 0]
        <5>1. pos \in [0..Len(channel) -> 0..0] /\ Len(channel) \in Nat
          BY <2>3
        <5>2. pos[0] = 0 /\ pos[Len(channel)] = 0
          BY <5>1
        <5>3. \A i \in 1..Len(channel) : channel[i].type # "output" /\ pos[i] = 0 /\ pos[i - 1] = 0
          BY <4>3, <5>1 DEF NoneOf, Neutral
        <5> HIDE DEF pos
        <5> QED BY <5>1, <5>2, <5>3 DEF Delivers
      <4>5. PendingOf(runNumber)' = <<>> /\ Posted' = 0
        <5>1. runNumber' # 0 /\ printed'[runNumber'] = 0 /\ pending'[runNumber'] = <<>>
          BY <4>1, <4>2
        <5>2. PendingOf(runNumber)' = <<>>
          BY <5>1 DEF PendingOf
        <5>3. PrintedOf(runNumber)' = 0
          BY <5>1 DEF PrintedOf
        <5>4. Len(<<>>) = 0 /\ 0 - 0 = 0
          OBVIOUS
        <5>5. Posted' = PrintedOf(runNumber)' - Len(PendingOf(runNumber)')
          BY DEF Posted
        <5> QED BY <5>2, <5>3, <5>4, <5>5
      <4>6. LinesInOrder'
        BY <4>1, <4>4, <4>5 DEF LinesInOrder, Stretch
      <4>7. EndIsLast'
        BY <4>1, <4>3 DEF EndIsLast, NoneOf, Neutral
      <4>8. OneRunAtATime'
        <5>1. \A r \in Runs : r # runNumber' => task'[r] = task[r]
          BY <2>1, <4>1 DEF TypeOK
        <5>2. task'[runNumber'] = "evaluating"
          BY <2>1, <4>1 DEF TypeOK
        <5>3. runNumber # 0 => runNumber \in Runs /\ task[runNumber] = "gone"
          BY <2>1, <3>1 DEF OneRunAtATime, TypeOK, Runs
        <5>4. ASSUME NEW r \in Runs
              PROVE  /\ r > runNumber' => task'[r] = "none" /\ printed'[r] = 0 /\ pending'[r] = <<>>
                     /\ r < runNumber' => task'[r] = "gone"
                     /\ r = runNumber' => task'[r] # "none"
                     /\ task'[r] \in {"flushed", "gone"} => pending'[r] = <<>>
          BY <2>1, <4>1, <5>1, <5>2, <5>3 DEF OneRunAtATime, Runs
        <5> QED BY <4>1, <5>4 DEF OneRunAtATime, Runs
      <4> QED BY <2>2, <4>6, <4>7, <4>8 DEF RunInv
    <3>2. ~(StartRun /\ runState # "running") =>
            /\ UNCHANGED <<runState, runNumber, active, task, printed, pending, shown>>
            /\ channel' = channel \/ channel' = Append(channel, Plain("transient"))
      BY <2>6 DEF PressKey, PressRun, PressCancel, PressClear, PressOther, PressEditor, PressQuit,
                  PressSelect, EditorEnds, SourceArrives, Drop, Begin, runVars
    <3> QED BY <2>2, <2>3, <3>1, <3>2, <2>13
  <2>7. CASE UNCHANGED vars
    BY <2>2, <2>7, <2>13 DEF vars, uiVars, runVars
  <2>8. \A i \in 1..Len(channel) : task[runNumber] # "gone" => channel[i].type # "finished"
    BY <2>1 DEF EndIsLast
  <2>9. ASSUME NEW r \in Runs, GateOpens(r) \/ OnOutput(r) \/ RunReturns(r) \/ TaskEnds(r)
        PROVE  RunInv'
    <3>1. UNCHANGED <<runState, runNumber, active, shown>>
      BY <2>9 DEF GateOpens, OnOutput, RunReturns, TaskEnds, FinishFlushes, PostFinished,
                  RunKeeps, uiVars
    <3>2. task[r] \in {"evaluating", "returned", "flushed"}
      BY <2>9 DEF GateOpens, OnOutput, RunReturns, TaskEnds, FinishFlushes, PostFinished
    <3>3. r = runNumber /\ r # 0 /\ runState = "running" /\ runNumber \in Runs
      BY <2>1, <3>2 DEF OneRunAtATime, TypeOK, Runs
    <3>4. /\ pending[r] \in Seq(Line) /\ PendingOf(runNumber) = pending[r]
          /\ Posted = printed[r] - Len(pending[r]) /\ printed[r] \in Nat
          /\ Stretch(pending[r], r, Posted)
          /\ Delivers(channel, runNumber, Len(shown), Posted)
      BY <2>1, <3>3 DEF TypeOK, PendingOf, PrintedOf, Posted, LinesInOrder
    <3>5. CASE GateOpens(r)
      BY <2>2, <3>1, <3>5, <2>13 DEF GateOpens
    <3>6. CASE OnOutput(r)
      <4> DEFINE lines == Append(pending[r], LineOf(r, printed'[r]))
      <4>1. task[r] = "evaluating" /\ printed'[r] = printed[r] + 1 /\ task' = task
            /\ printed' = [printed EXCEPT ![r] = printed[r] + 1]
        BY <2>1, <3>6 DEF OnOutput, TypeOK
      <4>2. LineOf(r, printed'[r]) \in Line
        BY <2>2, <3>3, <4>1, <3>4 DEF LineOf, Line, TypeOK
      <4>3. /\ lines \in Seq(Line) /\ lines # <<>> /\ Len(lines) = Len(pending[r]) + 1
            /\ lines[Len(lines)] = LineOf(r, printed'[r])
            /\ \A i \in 1..Len(pending[r]) : lines[i] = pending[r][i]
            /\ Len(pending[r]) \in Nat
        BY <3>4, <4>2
      <4>4. IF gateOpen[r] THEN Flush(r, lines, channel)
            ELSE pending' = [pending EXCEPT ![r] = lines] /\ UNCHANGED <<gateOpen, channel>>
        BY <3>6 DEF OnOutput
      <4> HIDE DEF lines
      <4>5. printed[r] = Posted + Len(pending[r]) /\ Posted + Len(lines) = printed[r] + 1
        BY <2>3, <3>4, <4>3
      <4>6. Stretch(lines, r, Posted)
        <5>1. \A j \in 1..Len(lines) : j \in 1..Len(pending[r]) \/ j = Len(lines)
          BY <4>3
        <5>2. lines[Len(lines)] = LineOf(r, Posted + Len(lines))
          BY <4>1, <4>3, <4>5
        <5> QED BY <3>4, <4>3, <5>1, <5>2 DEF Stretch
      <4>7. CASE gateOpen[r]
        <5>1. /\ channel' = Append(channel, Output(lines))
              /\ pending' = [pending EXCEPT ![r] = <<>>]
          BY <4>3, <4>4, <4>7 DEF Flush
        <5>2. task' = [task EXCEPT ![r] = "evaluating"]
          BY <2>1, <4>1 DEF TypeOK
        <5>3. printed' = [printed EXCEPT ![r] = Posted + Len(lines)]
          BY <4>1, <4>5
        <5> QED BY <2>2, <2>3, <2>8, <3>1, <3>3, <3>4, <4>1, <4>3, <4>6, <5>1, <5>2, <5>3, <2>14
      <4>8. CASE ~gateOpen[r]
        <5>1. /\ channel' = channel /\ pending'[r] = lines
              /\ \A p \in Runs : p # r => pending'[p] = pending[p] /\ printed'[p] = printed[p]
          BY <2>1, <4>1, <4>4, <4>8 DEF TypeOK
        <5>2. PendingOf(runNumber)' = lines /\ Posted' = Posted
          BY <2>3, <3>1, <3>3, <4>1, <4>3, <4>5, <5>1 DEF PendingOf, PrintedOf, Posted
        <5>3. LinesInOrder'
          BY <2>1, <3>1, <3>3, <4>6, <5>1, <5>2 DEF LinesInOrder
        <5>4. EndIsLast'
          BY <2>1, <3>1, <4>1, <5>1 DEF EndIsLast
        <5>5. OneRunAtATime'
          BY <2>1, <3>1, <3>3, <4>1, <5>1 DEF OneRunAtATime
        <5> QED BY <2>2, <5>3, <5>4, <5>5 DEF RunInv
      <4> QED BY <4>7, <4>8
    <3>7. CASE RunReturns(r) \/ (FinishFlushes(r) /\ pending[r] = <<>>) \/ PostFinished(r)
      <4>0. PICK t \in {"returned", "flushed", "gone"} :
              /\ task' = [task EXCEPT ![r] = t] /\ UNCHANGED <<printed, pending>>
              /\ t \in {"flushed", "gone"} => pending[r] = <<>>
              /\ \/ channel' = channel /\ t # "gone"
                 \/ channel' = Append(channel, Plain("finished")) /\ t = "gone"
        <5>1. CASE RunReturns(r)
          BY <5>1 DEF RunReturns
        <5>2. CASE FinishFlushes(r) /\ pending[r] = <<>>
          BY <5>2 DEF FinishFlushes, Flush
        <5>3. CASE PostFinished(r)
          BY <2>1, <5>3 DEF PostFinished, OneRunAtATime
        <5> QED BY <3>7, <5>1, <5>2, <5>3
      <4>1. task'[r] = t /\ \A p \in Runs : p # r => task'[p] = task[p]
        BY <2>1, <4>0 DEF TypeOK
      <4>2. PendingOf(runNumber)' = PendingOf(runNumber) /\ Posted' = Posted
        BY <3>1, <4>0 DEF PendingOf, PrintedOf, Posted
      <4>3. Plain("finished") \in Event /\ Plain("finished").type = "finished"
        BY DEF Plain, Event
      <4>4. Delivers(channel', runNumber, Len(shown), Posted)
        <5>1. Delivers(Append(channel, Plain("finished")), runNumber, Len(shown), Posted)
          BY <2>3, <3>4, <4>3, Deliveries
        <5> QED BY <3>4, <4>0, <5>1
      <4>5. LinesInOrder'
        BY <2>1, <3>1, <4>0, <4>2, <4>4 DEF LinesInOrder
      <4>6. EndIsLast'
        <5>1. CASE channel' = channel
          BY <2>8, <3>2, <3>3, <4>0, <5>1 DEF EndIsLast
        <5>2. CASE channel' = Append(channel, Plain("finished")) /\ t = "gone"
          <6>1. /\ Len(channel) \in Nat /\ Len(channel') = Len(channel) + 1
                /\ \A i \in 1..Len(channel) : channel'[i] = channel[i]
            BY <2>3, <5>2
          <6>2. \A i \in 1..Len(channel') : channel'[i].type = "finished" => i = Len(channel')
            BY <2>8, <3>2, <3>3, <4>0, <6>1
          <6>3. \A j \in Len(channel') + 1 .. Len(channel') : FALSE
            BY <6>1
          <6> QED BY <3>1, <3>3, <4>1, <5>2, <6>2, <6>3 DEF EndIsLast
        <5> QED BY <4>0, <5>1, <5>2
      <4>7. OneRunAtATime'
        BY <2>1, <3>1, <3>3, <4>0, <4>1 DEF OneRunAtATime
      <4> QED BY <2>2, <4>5, <4>6, <4>7 DEF RunInv
    <3>8. CASE FinishFlushes(r) /\ pending[r] # <<>>
      <4>1. /\ task[r] = "returned" /\ task' = [task EXCEPT ![r] = "flushed"]
            /\ channel' = Append(channel, Output(pending[r]))
            /\ pending' = [pending EXCEPT ![r] = <<>>] /\ printed' = printed
        BY <3>8 DEF FinishFlushes, Flush
      <4>2. printed' = [printed EXCEPT ![r] = Posted + Len(pending[r])]
        <5>1. printed[r] = Posted + Len(pending[r])
          BY <2>3, <3>4
        <5> QED BY <2>1, <4>1, <5>1 DEF TypeOK
      <4> QED BY <2>2, <2>3, <2>8, <3>1, <3>3, <3>4, <3>8, <4>1, <4>2, <2>14
    <3> QED BY <2>9, <3>5, <3>6, <3>7, <3>8 DEF TaskEnds
  <2>10. CASE HandleEvent
    <3>1. channel # <<>> /\ Head(channel) \in Event /\ Head(channel) = channel[1] /\ 1 \in 1..Len(channel)
      <4>1. channel # <<>>
        BY <2>10 DEF HandleEvent, OnTick, OnRunOutput, OnRunFinished, OnTransient, Took
      <4> QED BY <2>3, <4>1
    <3>2. /\ Len(Tail(channel)) = Len(channel) - 1 /\ Len(channel) \in Nat
          /\ Tail(channel) \in Seq(Event)
          /\ \A i \in 1..Len(Tail(channel)) : Tail(channel)[i] = channel[i + 1]
      BY <2>3, <3>1
    <3>3. Delivers(channel, runNumber, Len(shown), Posted)
      BY <2>1 DEF LinesInOrder
    <3>4. CASE OnTransient
      BY <2>2, <3>4, <3>1, <2>13 DEF OnTransient, Took, Begin, runVars, Neutral
    <3>5. CASE OnTick
      <4>1. /\ Head(channel).type = "tick" /\ UNCHANGED <<runState, runNumber, active, shown, task, printed>>
        BY <3>5 DEF OnTick, Took
      <4>2. Neutral(Head(channel))
        BY <4>1 DEF Neutral
      <4>3. CASE active = 0 \/ pending[active] = <<>>
        <5>1. channel' = Tail(channel) /\ pending' = pending
          BY <3>5, <4>3 DEF OnTick, Flush
        <5> QED BY <2>2, <3>1, <4>1, <4>2, <5>1, <2>13
      <4>4. CASE active # 0 /\ pending[active] # <<>>
        <5>1. /\ runState = "running" /\ active = runNumber /\ runNumber \in Runs
              /\ task[runNumber] \notin {"flushed", "gone"}
              /\ pending[runNumber] \in Seq(Line)
          BY <2>1, <4>4 DEF OneRunAtATime, TypeOK, Runs
        <5>2. /\ channel' = Append(Tail(channel), Output(pending[runNumber]))
              /\ pending' = [pending EXCEPT ![runNumber] = <<>>]
          BY <3>5, <4>4, <5>1 DEF OnTick, Flush
        <5>3. /\ PendingOf(runNumber) = pending[runNumber]
              /\ Posted = printed[runNumber] - Len(pending[runNumber])
              /\ printed[runNumber] \in Nat /\ Len(pending[runNumber]) \in Nat
          BY <2>1, <5>1 DEF TypeOK, PendingOf, PrintedOf, Posted, Runs
        <5>4. Stretch(pending[runNumber], runNumber, Posted)
          BY <2>1, <5>3 DEF LinesInOrder
        <5>5. Delivers(Tail(channel), runNumber, Len(shown), Posted)
          BY <2>3, <3>1, <3>3, <4>1, Deliveries
        <5>6. \A i \in 1..Len(Tail(channel)) : Tail(channel)[i].type # "finished"
          BY <2>8, <3>2, <5>1
        <5>7. task' = [task EXCEPT ![runNumber] = task[runNumber]]
          BY <2>1, <4>1 DEF TypeOK
        <5>8. task[runNumber] \in {"evaluating", "returned", "flushed"}
          BY <2>1, <5>1 DEF TypeOK, OneRunAtATime
        <5>9. printed' = [printed EXCEPT ![runNumber] = Posted + Len(pending[runNumber])]
          <6>1. printed[runNumber] = Posted + Len(pending[runNumber])
            BY <5>3
          <6> QED BY <2>1, <4>1, <6>1 DEF TypeOK
        <5> QED BY <2>2, <3>2, <4>1, <4>4, <5>1, <5>2, <5>4, <5>5, <5>6, <5>7, <5>8, <5>9, <2>14
      <4> QED BY <4>3, <4>4
    <3>6. CASE OnRunOutput
      <4> DEFINE lines == Head(channel).lines
      <4>1. /\ Head(channel).type = "output" /\ channel' = Tail(channel) /\ shown' = shown \o lines
            /\ UNCHANGED <<runState, runNumber, active, task, printed, pending>>
        BY <3>6 DEF OnRunOutput, Took, runVars
      <4>2. runState = "running"
        BY <2>1, <3>1, <4>1 DEF OneRunAtATime, NoneOf, Neutral
      <4>3. lines \in Seq(Line) /\ shown \in Seq(Line)
        BY <2>1, <3>1, <4>1 DEF Event, Plain, TypeOK
      <4> HIDE DEF lines
      <4>4. /\ Len(shown') = Len(shown) + Len(lines) /\ Len(lines) \in Nat /\ Len(shown) \in Nat
            /\ \A i \in 1..Len(shown) : shown'[i] = shown[i]
            /\ \A i \in 1..Len(lines) : shown'[Len(shown) + i] = lines[i]
        BY <4>1, <4>3
      <4>5. /\ Stretch(lines, runNumber, Len(shown))
            /\ Delivers(Tail(channel), runNumber, Len(shown) + Len(lines), Posted)
        BY <2>3, <3>1, <3>3, <4>1, Deliveries DEF lines
      <4>6. Stretch(shown', runNumber, 0)
        <5>1. ASSUME NEW j \in 1..Len(shown') PROVE shown'[j] = LineOf(runNumber, 0 + j)
          <6>1. CASE j \in 1..Len(shown)
            BY <2>1, <4>4, <6>1 DEF LinesInOrder, Stretch
          <6>2. CASE j \notin 1..Len(shown)
            <7>1. j - Len(shown) \in 1..Len(lines) /\ j = Len(shown) + (j - Len(shown)) /\ 0 + j = j
              BY <4>4, <6>2
            <7> QED BY <4>4, <4>5, <7>1 DEF Stretch
          <6> QED BY <6>1, <6>2
        <5> QED BY <5>1 DEF Stretch
      <4>7. PendingOf(runNumber)' = PendingOf(runNumber) /\ Posted' = Posted
        BY <4>1 DEF PendingOf, PrintedOf, Posted
      <4>8. LinesInOrder'
        BY <2>1, <4>1, <4>4, <4>5, <4>6, <4>7 DEF LinesInOrder
      <4>9. EndIsLast'
        <5>1. ASSUME NEW i \in 1..Len(channel'), channel'[i].type = "finished"
              PROVE  /\ task[runNumber] = "gone"
                     /\ \A j \in i + 1 .. Len(channel') : Neutral(channel'[j])
          <6>1. i + 1 \in 1..Len(channel) /\ channel[i + 1].type = "finished"
            BY <3>2, <4>1, <5>1
          <6>2. \A j \in i + 1 .. Len(channel') :
                  channel'[j] = channel[j + 1] /\ j + 1 \in (i + 1) + 1 .. Len(channel)
            BY <3>2, <4>1
          <6> QED BY <2>1, <6>1, <6>2 DEF EndIsLast
        <5> QED BY <4>1, <4>2, <5>1 DEF EndIsLast
      <4>10. OneRunAtATime'
        BY <2>1, <4>1, <4>2 DEF OneRunAtATime
      <4> QED BY <2>2, <4>8, <4>9, <4>10 DEF RunInv
    <3>7. CASE OnRunFinished
      <4>1. /\ Head(channel).type = "finished" /\ channel' = Tail(channel) /\ active' = 0
            /\ runState' = "completed" /\ UNCHANGED <<runNumber, shown, task, printed, pending>>
        BY <3>7 DEF OnRunFinished, Took, runVars
      <4>2. /\ runState = "running" /\ task[runNumber] = "gone"
            /\ \A j \in 2..Len(channel) : Neutral(channel[j])
        BY <2>1, <3>1, <4>1 DEF EndIsLast
      <4>3. Len(shown) = Posted /\ Delivers(Tail(channel), runNumber, Len(shown), Posted)
        BY <2>3, <3>1, <3>3, <4>1, Deliveries
      <4>4. NoneOf(channel')
        BY <3>2, <4>1, <4>2 DEF NoneOf
      <4>5. PendingOf(runNumber)' = PendingOf(runNumber) /\ Posted' = Posted
        BY <4>1 DEF PendingOf, PrintedOf, Posted
      <4>6. LinesInOrder'
        BY <2>1, <4>1, <4>3, <4>5 DEF LinesInOrder
      <4>7. EndIsLast'
        BY <4>4 DEF EndIsLast, NoneOf, Neutral
      <4>8. OneRunAtATime'
        BY <2>1, <4>1, <4>2, <4>3, <4>4, <4>5 DEF OneRunAtATime
      <4> QED BY <2>2, <4>6, <4>7, <4>8 DEF RunInv
    <3> QED BY <2>10, <3>4, <3>5, <3>6, <3>7 DEF HandleEvent
  <2> QED BY <2>4, <2>5, <2>6, <2>7, <2>9, <2>10 DEF Next
<1>2. Spec => Init /\ [][Next]_vars
  BY DEF Spec
<1> QED BY <1>1, <1>2, <1>3, RunTypesAreKept, PTL

(* ARCHITECTURE 3c, step by step: a run that is started starts the promise *)
(* anew, a line printed by the script is printed, an output event handled  *)
(* by the reducer shows the next lines of what was printed, none repeated  *)
(* and none left out, and the run is reported over when all are shown; the *)
(* ticks, keys and timers, the Coalescer's batching with them, are nothing *)
(* the user could notice.                                                  *)
THEOREM RunKeepsItsPromise == Spec => KeepsPromise
<1>1. Init => Promise!Init
  BY DEF Init, Promise!Init, PrintedBy
<1>2. RunInv /\ [Next]_vars => [Promise!Next]_(Promise!vars)
  <2> SUFFICES ASSUME RunInv, [Next]_vars PROVE [Promise!Next]_(Promise!vars)
    OBVIOUS
  <2>1. TypeOK /\ LinesInOrder /\ EndIsLast /\ OneRunAtATime
    BY DEF RunInv
  <2>2. ASSUME UNCHANGED <<runState, runNumber, shown, printed>> PROVE [Promise!Next]_(Promise!vars)
    BY <2>2 DEF Promise!vars, PrintedBy
  <2>3. CASE ThreadStep
    BY <2>2, <2>3 DEF ThreadStep, ThreadLoops, TimerEnds, PostTick, ThreadKeeps, uiVars, runVars
  <2>4. ASSUME NEW d \in Deadlines, DeadlinePasses(d) PROVE [Promise!Next]_(Promise!vars)
    BY <2>2, <2>4 DEF DeadlinePasses, runVars
  <2>5. ASSUME NEW r \in Runs, GateOpens(r) \/ RunReturns(r) \/ TaskEnds(r)
        PROVE  [Promise!Next]_(Promise!vars)
    BY <2>2, <2>5 DEF GateOpens, RunReturns, TaskEnds, FinishFlushes, PostFinished, RunKeeps, uiVars
  <2>6. ASSUME NEW r \in Runs, OnOutput(r) PROVE Promise!PrintLine
    <3>1. /\ task[r] = "evaluating" /\ printed[r] < MaxLines
          /\ printed' = [printed EXCEPT ![r] = printed[r] + 1]
          /\ UNCHANGED <<runState, runNumber, shown>>
      BY <2>6 DEF OnOutput, RunKeeps, uiVars
    <3>2. r = runNumber /\ r # 0 /\ runState = "running"
      BY <2>1, <3>1 DEF OneRunAtATime, TypeOK, Runs
    <3>3. /\ printed[r] \in Nat /\ printed'[r] = printed[r] + 1
          /\ LineOf(r, printed[r] + 1) \in Line
      BY <2>1, <3>1, RunOutputAssumption DEF TypeOK, Line, LineOf, RunOutputAssumption
    <3>4. PrintedBy(runNumber)' = Append(PrintedBy(runNumber), LineOf(r, printed[r] + 1))
      <4>1. PrintedBy(runNumber) = [i \in 1..printed[r] |-> LineOf(r, i)]
        BY <3>2 DEF PrintedBy
      <4>2. PrintedBy(runNumber)' = [i \in 1..printed[r] + 1 |-> LineOf(r, i)]
        BY <3>1, <3>2, <3>3 DEF PrintedBy
      <4> QED BY <3>3, <4>1, <4>2
    <3> QED BY <3>1, <3>2, <3>3, <3>4 DEF Promise!PrintLine
  <2>7. CASE OnTick \/ OnTransient
    BY <2>2, <2>7 DEF OnTick, OnTransient, Begin, runVars
  <2>8. CASE OnRunOutput \/ OnRunFinished
    <3>1. /\ channel # <<>> /\ channel \in Seq(Event) /\ Head(channel) = channel[1]
          /\ 1 \in 1..Len(channel) /\ Head(channel) \in Event
          /\ Head(channel).type \in {"output", "finished"}
          /\ UNCHANGED <<runNumber, printed>>
      <4>1. channel # <<>> /\ channel \in Seq(Event) /\ Head(channel).type \in {"output", "finished"}
        BY <2>1, <2>8 DEF OnRunOutput, OnRunFinished, Took, TypeOK
      <4> QED BY <2>8, <4>1 DEF OnRunOutput, OnRunFinished, runVars
    <3>2. /\ runState = "running" /\ runNumber \in Runs /\ runNumber # 0
          /\ shown \in Seq(Line) /\ Len(shown) \in Nat /\ Posted \in Nat
          /\ Delivers(channel, runNumber, Len(shown), Posted)
      BY <2>1, <3>1 DEF OneRunAtATime, NoneOf, Neutral, TypeOK, LinesInOrder, Runs
    <3>3. /\ PrintedBy(runNumber) = [i \in 1..printed[runNumber] |-> LineOf(runNumber, i)]
          /\ Posted = printed[runNumber] - Len(pending[runNumber])
          /\ printed[runNumber] \in Nat /\ Len(pending[runNumber]) \in Nat
      BY <2>1, <3>2 DEF PrintedBy, TypeOK, Posted, PrintedOf, PendingOf
    <3>4. PrintedBy(runNumber)' = PrintedBy(runNumber)
      BY <3>1 DEF PrintedBy
    <3>5. CASE OnRunOutput
      <4> DEFINE lines == Head(channel).lines
                 n     == Len(shown) + Len(lines)
      <4>1. Head(channel).type = "output" /\ shown' = shown \o lines /\ runState' = runState
        BY <3>5 DEF OnRunOutput, Took
      <4>2. lines \in Seq(Line) /\ lines # <<>>
        <5>1. lines \in Seq(Line)
          BY <3>1, <4>1 DEF Event, Plain
        <5>2. lines # <<>>
          BY <3>1, <3>2, <4>1, Deliveries
        <5> QED BY <5>1, <5>2
      <4>3. Stretch(lines, runNumber, Len(shown)) /\ n <= Posted
        BY <3>1, <3>2, <4>1, Deliveries
      <4> HIDE DEF lines
      <4>4. /\ Len(lines) \in Nat \ {0} /\ n \in Len(shown) + 1 .. printed[runNumber]
            /\ n <= printed[runNumber]
        BY <3>2, <3>3, <4>2, <4>3
      <4>5. shown' = SubSeq(PrintedBy(runNumber), 1, n)
        <5>1. \A i \in 1..n : shown'[i] = LineOf(runNumber, i)
          <6>1. ASSUME NEW i \in 1..n PROVE shown'[i] = LineOf(runNumber, i)
            <7>1. CASE i \in 1..Len(shown)
              <8>1. shown'[i] = shown[i] /\ 0 + i = i
                BY <3>2, <4>1, <4>2, <7>1
              <8> QED BY <2>1, <7>1, <8>1 DEF LinesInOrder, Stretch
            <7>2. CASE i \notin 1..Len(shown)
              <8>1. /\ i - Len(shown) \in 1..Len(lines) /\ Len(shown) + (i - Len(shown)) = i
                    /\ shown'[i] = lines[i - Len(shown)]
                BY <3>2, <4>1, <4>2, <4>4, <7>2
              <8> QED BY <4>3, <8>1 DEF Stretch
            <7> QED BY <7>1, <7>2
          <6> QED BY <6>1
        <5>2. shown' \in Seq(Line) /\ Len(shown') = n
          BY <3>2, <4>1, <4>2
        <5>3. /\ SubSeq(PrintedBy(runNumber), 1, n) = [i \in 1..n |-> LineOf(runNumber, i)]
          BY <3>3, <4>4
        <5> HIDE DEF n
        <5> QED BY <5>1, <5>2, <5>3
      <4>6. Len(PrintedBy(runNumber)) = printed[runNumber]
        BY <3>3
      <4>7. Promise!Show
        BY <3>2, <3>4, <4>1, <4>4, <4>5, <4>6 DEF Promise!Show
      <4> QED BY <4>7 DEF Promise!Next
    <3>6. CASE OnRunFinished
      <4>1. /\ Head(channel).type = "finished" /\ shown' = shown /\ runState' = "completed"
        BY <3>6 DEF OnRunFinished, Took
      <4>2. Len(shown) = Posted /\ task[runNumber] = "gone"
        <5>1. Len(shown) = Posted
          BY <3>1, <3>2, <4>1, Deliveries
        <5> QED BY <2>1, <3>1, <4>1, <5>1 DEF EndIsLast
      <4>3. pending[runNumber] = <<>> /\ Len(<<>>) = 0
        BY <2>1, <3>2, <4>2 DEF OneRunAtATime
      <4>4. Len(shown) = printed[runNumber]
        BY <3>3, <4>2, <4>3
      <4>5. \A i \in 1..Len(shown) : shown[i] = LineOf(runNumber, i)
        <5>1. \A i \in 1..Len(shown) : 0 + i = i
          BY <3>2
        <5> QED BY <2>1, <5>1 DEF LinesInOrder, Stretch
      <4>6. shown = PrintedBy(runNumber)
        BY <3>2, <3>3, <4>4, <4>5
      <4>7. Promise!Complete
        BY <3>2, <3>4, <4>1, <4>6 DEF Promise!Complete
      <4> QED BY <4>7 DEF Promise!Next
    <3> QED BY <2>8, <3>5, <3>6
  <2>9. CASE StartRun /\ runState # "running"
    <3>1. /\ runNumber' = runNumber + 1 /\ runNumber \in Nat /\ runNumber' \in Runs
          /\ runState' = "running" /\ shown' = <<>> /\ printed' = printed
      BY <2>1, <2>9, RunOutputAssumption DEF StartRun, Runs, RunOutputAssumption, TypeOK
    <3>2. printed'[runNumber'] = 0
      BY <2>1, <3>1 DEF OneRunAtATime
    <3>3. PrintedBy(runNumber)' = <<>>
      BY <3>1, <3>2 DEF PrintedBy
    <3>4. Promise!Start
      BY <2>9, <3>1, <3>3 DEF Promise!Start
    <3> QED BY <3>4 DEF Promise!Next
  <2>10. CASE PressKey /\ ~(StartRun /\ runState # "running")
    BY <2>2, <2>10 DEF PressKey, PressRun, PressCancel, PressClear, PressOther, PressEditor,
                       PressQuit, PressSelect, EditorEnds, SourceArrives, Drop, Begin, runVars
  <2>11. CASE UNCHANGED vars
    BY <2>2, <2>11 DEF vars, uiVars, runVars
  <2> QED BY <2>3, <2>4, <2>5, <2>6, <2>7, <2>8, <2>9, <2>10, <2>11
          DEF Next, HandleEvent, PressKey, PressRun, Promise!Next
<1> QED BY <1>1, <1>2, RunInvariant, PTL DEF Spec, KeepsPromise, Promise!Spec
-----------------------------------------------------------------------------
(* The newest lines.                                                       *)

(* ux-spec 6.4: however the user clears the pane, however large a batch    *)
(* arrives and whatever a report or a notice takes of the room, the lines  *)
(* left in the buffer are the newest of those given, in their order and    *)
(* without a gap.                                                          *)
THEOREM BufferKeepsNewest == Spec => []BufferHasNewest
<1>1. Init => BufferInv
  <2> SUFFICES ASSUME Init PROVE BufferInv
    OBVIOUS
  <2>1. buffer = <<>> /\ Len(buffer) = 0 /\ shown = <<>> /\ Len(shown) = 0 /\ 0 \in 0..Cap
    BY RunOutputAssumption DEF Init, RunOutputAssumption
  <2>2. NewestLines(buffer, shown, 0, 0)
    BY <2>1 DEF NewestLines
  <2> QED BY <2>1, <2>2 DEF BufferInv
(* What appending does to the block of lines, be it of other entries or of *)
(* more lines at its end: evictions move it down, from its oldest lines on.*)
<1>4. ASSUME NEW buf \in Seq(Entries), Len(buf) <= Cap, NEW es \in Seq(Entries),
             NEW given \in Seq(Line), NEW lo \in 0..Cap, NEW hi \in 0..Cap,
             NewestLines(buf, given, lo, hi)
      PROVE  LET res == AppendEntries(buf, es)
             IN  /\ (\A i \in 1..Len(es) : es[i][1] # "line") =>
                      \E l, h \in 0..Cap : NewestLines(res, given, l, h)
                 /\ \A ls \in Seq(Line) :
                      /\ Len(es) = Len(ls) /\ \A i \in 1..Len(ls) : es[i] = Entry("line", ls[i])
                      /\ hi = Len(buf)
                      => \E l \in 0..Cap : NewestLines(res, given \o ls, l, Len(res))
  <2> USE <1>4
  <2> DEFINE all == buf \o es
             k   == Len(all) - Cap
             res == AppendEntries(buf, es)
             Moved(p) == IF p - k > 1 THEN p - k ELSE 1
  <2>1. /\ Cap \in Nat \ {0} /\ lo \in Nat /\ hi \in Nat /\ lo <= hi /\ hi <= Len(buf)
        /\ Len(buf) \in Nat /\ Len(es) \in Nat /\ Len(given) \in Nat
        /\ all \in Seq(Entries) /\ Len(all) = Len(buf) + Len(es)
        /\ \A i \in 1..Len(buf) : all[i] = buf[i]
        /\ \A i \in 1..Len(es) : all[Len(buf) + i] = es[i]
    <3>1. Cap \in Nat \ {0} /\ lo <= hi /\ hi <= Len(buf)
      BY RunOutputAssumption DEF RunOutputAssumption, NewestLines
    <3>2. /\ all \in Seq(Entries) /\ Len(all) = Len(buf) + Len(es)
          /\ \A i \in 1..Len(buf) : all[i] = buf[i]
          /\ \A i \in 1..Len(es) : all[Len(buf) + i] = es[i]
      OBVIOUS
    <3>3. Len(buf) \in Nat /\ Len(es) \in Nat /\ Len(given) \in Nat
      OBVIOUS
    <3> QED BY <3>1, <3>2, <3>3
  <2>2. /\ Len(all) <= Cap => res = all
        /\ Len(all) > Cap => /\ Len(res) = Cap /\ res[1] = Entry("notice", k + 1)
                             /\ \A i \in 2..Cap : res[i] = all[i + k]
    BY BufferAppend
  <2> HIDE DEF all, res
  <2>3. ASSUME NEW g, Len(g) \in Nat, NEW h \in Nat, lo <= h, h <= Len(all), h - lo <= Len(g),
               \A i \in 1..Len(all) : all[i][1] = "line" <=> lo < i /\ i <= h,
               \A i \in lo + 1 .. h : all[i][2] = g[Len(g) - (h - i)]
        PROVE  \E l, m \in 0..Cap : /\ NewestLines(res, g, l, m)
                                    /\ h = Len(all) => m = Len(res)
    <3>1. CASE Len(all) <= Cap
      <4>1. lo \in 0..Cap /\ h \in 0..Cap /\ NewestLines(res, g, lo, h)
        BY <2>1, <2>2, <2>3, <3>1 DEF NewestLines
      <4> QED BY <2>2, <3>1, <4>1
    <3>2. CASE Len(all) > Cap
      <4>0. Cap \in Nat /\ k \in Nat \ {0} /\ Len(all) = Cap + k
        BY <2>1, <3>2
      <4>1. /\ k \in Nat \ {0} /\ Moved(lo) \in 1..Cap /\ Moved(h) \in 1..Cap
            /\ Moved(lo) <= Moved(h) /\ Moved(h) - Moved(lo) <= h - lo
            /\ \A i \in 2..Cap : Moved(lo) < i <=> lo < i + k
            /\ \A i \in 2..Cap : i <= Moved(h) <=> i + k <= h
            /\ \A i \in 2..Cap : i <= Moved(h) => Moved(h) - i = h - (i + k)
            /\ h = Len(all) => Moved(h) = Cap
        <5> HIDE DEF k
        <5>1. k \in Nat \ {0} /\ Len(all) = Cap + k
          BY <4>0
        <5>2. Moved(lo) \in 1..Cap /\ Moved(h) \in 1..Cap
          <6>1. ASSUME NEW p \in Nat, p <= Cap + k PROVE Moved(p) \in 1..Cap
            BY <2>1, <5>1, <6>1
          <6>2. lo <= Cap + k /\ h <= Cap + k
            BY <2>1, <2>3, <5>1
          <6> HIDE DEF Moved
          <6> QED BY <2>1, <2>3, <6>1, <6>2
        <5>3. Moved(lo) <= Moved(h) /\ Moved(h) - Moved(lo) <= h - lo
          BY <2>1, <2>3, <5>1
        <5>4. ASSUME NEW i \in 2..Cap
              PROVE  /\ Moved(lo) < i <=> lo < i + k
                     /\ i <= Moved(h) <=> i + k <= h
                     /\ i <= Moved(h) => Moved(h) - i = h - (i + k)
          BY <2>1, <2>3, <5>1
        <5>5. h = Len(all) => Moved(h) = Cap
          BY <2>1, <5>1
        <5> QED BY <5>1, <5>2, <5>3, <5>4, <5>5
      <4> HIDE DEF Moved
      <4>2. \A i \in 1..Len(res) : res[i][1] = "line" <=> Moved(lo) < i /\ i <= Moved(h)
        <5>1. ASSUME NEW i \in 1..Cap
              PROVE  res[i][1] = "line" <=> Moved(lo) < i /\ i <= Moved(h)
          <6>1. CASE i = 1
            <7>1. Moved(lo) \in Nat /\ Moved(lo) >= 1
              BY <2>1, <4>1
            <7>2. ~(Moved(lo) < i)
              BY <6>1, <7>1
            <7>3. res[i][1] # "line"
              BY <2>2, <3>2, <6>1 DEF Entry
            <7> QED BY <7>2, <7>3
          <6>2. CASE i # 1
            <7>1. i \in 2..Cap /\ i + k \in 1..Len(all)
              <8> HIDE DEF k
              <8> QED BY <4>0, <5>1, <6>2
            <7> QED BY <2>2, <2>3, <3>2, <4>1, <7>1
          <6> QED BY <6>1, <6>2
        <5> QED BY <2>2, <3>2, <5>1
      <4>3. \A i \in Moved(lo) + 1 .. Moved(h) : res[i][2] = g[Len(g) - (Moved(h) - i)]
        <5>1. ASSUME NEW i \in Moved(lo) + 1 .. Moved(h)
              PROVE  res[i][2] = g[Len(g) - (Moved(h) - i)]
          <6>0. Moved(lo) \in 1..Cap /\ Moved(h) \in 1..Cap /\ Cap \in Nat
            BY <2>1, <4>1
          <6>1. i \in 2..Cap /\ Moved(lo) < i /\ i <= Moved(h)
            BY <6>0
          <6>2. i + k \in lo + 1 .. h /\ Moved(h) - i = h - (i + k)
            BY <2>1, <4>1, <6>1
          <6> QED BY <2>2, <2>3, <3>2, <6>1, <6>2
        <5> QED BY <5>1
      <4>4. NewestLines(res, g, Moved(lo), Moved(h))
        <5>1. /\ Moved(lo) <= Moved(h) /\ Moved(h) <= Len(res)
              /\ Moved(h) - Moved(lo) <= Len(g)
          <6>1. Len(res) = Cap
            BY <2>2, <3>2
          <6>2. /\ Moved(lo) \in 1..Cap /\ Moved(h) \in 1..Cap /\ Moved(lo) <= Moved(h)
                /\ Moved(h) - Moved(lo) <= h - lo
            BY <4>1
          <6> QED BY <2>1, <2>3, <4>0, <6>1, <6>2
        <5> QED BY <4>2, <4>3, <5>1 DEF NewestLines
      <4>5. Moved(lo) \in 0..Cap /\ Moved(h) \in 0..Cap /\ (h = Len(all) => Moved(h) = Len(res))
        <5>1. Len(res) = Cap
          BY <2>2, <3>2
        <5>2. \A p \in 1..Cap : p \in 0..Cap
          OBVIOUS
        <5> QED BY <4>1, <5>1, <5>2
      <4> QED BY <4>4, <4>5
    <3> QED BY <2>1, <3>1, <3>2
  <2>4. ASSUME \A i \in 1..Len(es) : es[i][1] # "line"
        PROVE  \E l, h \in 0..Cap : NewestLines(res, given, l, h)
    <3>1. \A i \in 1..Len(all) : all[i][1] = "line" <=> lo < i /\ i <= hi
      <4>1. ASSUME NEW i \in 1..Len(all) PROVE all[i][1] = "line" <=> lo < i /\ i <= hi
        <5>1. CASE i \in 1..Len(buf)
          BY <2>1, <5>1 DEF NewestLines
        <5>2. CASE i \notin 1..Len(buf)
          <6>1. i - Len(buf) \in 1..Len(es) /\ Len(buf) + (i - Len(buf)) = i /\ ~(i <= hi)
            BY <2>1, <5>2
          <6>2. all[i] = es[i - Len(buf)]
            BY <2>1, <6>1
          <6> QED BY <2>4, <6>1, <6>2
        <5> QED BY <5>1, <5>2
      <4> QED BY <4>1
    <3>2. ASSUME NEW i \in lo + 1 .. hi PROVE all[i][2] = given[Len(given) - (hi - i)]
      <4>1. i \in 1..Len(buf) /\ all[i] = buf[i]
        BY <2>1
      <4> QED BY <4>1 DEF NewestLines
    <3>3. hi - lo <= Len(given) /\ hi <= Len(all)
      BY <2>1 DEF NewestLines
    <3> QED BY <2>1, <2>3, <3>1, <3>2, <3>3
  <2>5. ASSUME NEW ls \in Seq(Line), Len(es) = Len(ls),
               \A i \in 1..Len(ls) : es[i] = Entry("line", ls[i]), hi = Len(buf)
        PROVE  \E l \in 0..Cap : NewestLines(res, given \o ls, l, Len(res))
    <3> DEFINE g == given \o ls
    <3>1. /\ Len(g) = Len(given) + Len(ls) /\ Len(ls) \in Nat
          /\ \A i \in 1..Len(given) : g[i] = given[i]
          /\ \A i \in 1..Len(ls) : g[Len(given) + i] = ls[i]
      OBVIOUS
    <3> HIDE DEF g
    <3>2. \A i \in 1..Len(all) : all[i][1] = "line" <=> lo < i /\ i <= Len(all)
      <4>1. ASSUME NEW i \in 1..Len(all) PROVE all[i][1] = "line" <=> lo < i
        <5>1. CASE i \in 1..Len(buf)
          BY <2>1, <2>5, <5>1 DEF NewestLines
        <5>2. CASE i \notin 1..Len(buf)
          <6>1. i - Len(buf) \in 1..Len(es) /\ Len(buf) + (i - Len(buf)) = i /\ lo < i
            BY <2>1, <5>2
          <6>2. all[i] = Entry("line", ls[i - Len(buf)])
            BY <2>1, <2>5, <6>1
          <6> QED BY <6>1, <6>2 DEF Entry
        <5> QED BY <5>1, <5>2
      <4> QED BY <4>1
    <3>3. ASSUME NEW i \in lo + 1 .. Len(all) PROVE all[i][2] = g[Len(g) - (Len(all) - i)]
      <4>1. CASE i \in 1..Len(buf)
        <5>1. /\ i \in lo + 1 .. hi /\ Len(given) - (hi - i) \in 1..Len(given)
              /\ Len(g) - (Len(all) - i) = Len(given) - (hi - i)
          BY <2>1, <2>5, <3>1, <4>1 DEF NewestLines
        <5>2. all[i] = buf[i] /\ buf[i][2] = given[Len(given) - (hi - i)]
          BY <2>1, <4>1, <5>1 DEF NewestLines
        <5> QED BY <3>1, <5>1, <5>2
      <4>2. CASE i \notin 1..Len(buf)
        <5>1. /\ i - Len(buf) \in 1..Len(ls) /\ Len(buf) + (i - Len(buf)) = i
              /\ Len(g) - (Len(all) - i) = Len(given) + (i - Len(buf))
          BY <2>1, <2>5, <3>1, <4>2
        <5>2. all[i] = Entry("line", ls[i - Len(buf)])
          BY <2>1, <2>5, <5>1
        <5>3. all[i][2] = ls[i - Len(buf)]
          BY <5>2 DEF Entry
        <5>4. g[Len(given) + (i - Len(buf))] = ls[i - Len(buf)]
          BY <3>1, <5>1
        <5> QED BY <5>1, <5>3, <5>4
      <4> QED BY <4>1, <4>2
    <3>4. Len(all) - lo <= Len(g) /\ Len(g) \in Nat /\ Len(all) \in Nat /\ lo <= Len(all)
      BY <2>1, <2>5, <3>1 DEF NewestLines
    <3>5. PICK l \in 0..Cap, m \in 0..Cap : NewestLines(res, g, l, m) /\ m = Len(res)
      <4>1. \E l, m \in 0..Cap : /\ NewestLines(res, g, l, m)
                                 /\ Len(all) = Len(all) => m = Len(res)
        <5> DEFINE h == Len(all)
        <5>1. h \in Nat /\ lo <= h /\ h <= Len(all) /\ h - lo <= Len(g) /\ Len(g) \in Nat
          BY <3>4
        <5>2. \A i \in 1..Len(all) : all[i][1] = "line" <=> lo < i /\ i <= h
          BY <3>2
        <5>3. \A i \in lo + 1 .. h : all[i][2] = g[Len(g) - (h - i)]
          BY <3>3
        <5>4. h = Len(all)
          OBVIOUS
        <5> HIDE DEF h
        <5>5. \E l, m \in 0..Cap : NewestLines(res, g, l, m) /\ (h = Len(all) => m = Len(res))
          BY <2>3, <5>1, <5>2, <5>3
        <5> QED BY <5>4, <5>5
      <4> QED BY <4>1
    <3> QED BY <3>5 DEF g
  <2> QED BY <2>4, <2>5 DEF res
<1>2. RunInv /\ BufferInv /\ [Next]_vars => BufferInv'
  <2> SUFFICES ASSUME RunInv, BufferInv, [Next]_vars PROVE BufferInv'
    OBVIOUS
  <2>1. /\ TypeOK /\ OneRunAtATime
        /\ buffer \in Seq(Entries) /\ Len(buffer) <= Cap /\ shown \in Seq(Line)
        /\ Cap \in Nat \ {0}
    BY RunOutputAssumption DEF RunInv, TypeOK, RunOutputAssumption
  <2>2. PICK lo \in 0..Cap, hi \in 0..Cap :
          /\ NewestLines(buffer, shown, lo, hi)
          /\ runState # "completed" => hi = Len(buffer)
    BY DEF BufferInv
  <2>3. CASE UNCHANGED <<buffer, shown, runState>>
    BY <2>2, <2>3 DEF BufferInv
  <2>4. CASE StartRun
    <3>1. /\ buffer' = <<>> /\ Len(buffer') = 0 /\ shown' = <<>> /\ Len(shown') = 0
          /\ 0 \in 0..Cap
      BY <2>1, <2>4 DEF StartRun
    <3>2. NewestLines(buffer', shown', 0, 0)
      BY <3>1 DEF NewestLines
    <3> QED BY <3>1, <3>2 DEF BufferInv
  <2>5. CASE PressClear
    <3>1. /\ buffer' = <<Entry("cleared", 0)>> /\ Len(buffer') = 1 /\ 1 \in 0..Cap
          /\ buffer'[1] = Entry("cleared", 0) /\ UNCHANGED <<shown, runState>>
      BY <2>1, <2>5 DEF PressClear
    <3>2. NewestLines(buffer', shown', 1, 1)
      BY <2>1, <3>1 DEF NewestLines, Entry
    <3> QED BY <3>1, <3>2 DEF BufferInv
  <2>6. CASE OnRunOutput
    <3> DEFINE lines == Head(channel).lines
               es    == [i \in DOMAIN lines |-> Entry("line", lines[i])]
    <3>1. /\ channel # <<>> /\ Head(channel).type = "output" /\ runState' = runState
          /\ buffer' = AppendEntries(buffer, es) /\ shown' = shown \o lines
      BY <2>6 DEF OnRunOutput, Took
    <3>2. Head(channel) \in Event /\ Head(channel) = channel[1] /\ 1 \in 1..Len(channel)
      BY <2>1, <3>1 DEF TypeOK
    <3>3. lines \in Seq(Line) /\ runState # "completed"
      BY <2>1, <3>1, <3>2 DEF Event, Plain, OneRunAtATime, NoneOf, Neutral
    <3>4. \A ls \in Seq(Line) : \A f : f = [i \in DOMAIN ls |-> Entry("line", ls[i])] =>
            f \in Seq(Entries) /\ Len(f) = Len(ls) /\ \A i \in 1..Len(ls) : f[i] = Entry("line", ls[i])
      BY DEF Entry, Entries
    <3>5. es \in Seq(Entries) /\ Len(es) = Len(lines) /\ \A i \in 1..Len(lines) : es[i] = Entry("line", lines[i])
      BY <3>3, <3>4
    <3> HIDE DEF es, lines
    <3>6. PICK l \in 0..Cap : NewestLines(buffer', shown', l, Len(buffer'))
      BY <2>1, <2>2, <3>1, <3>3, <3>5, <1>4
    <3>7. Len(buffer') \in 0..Cap
      BY <2>1, <3>1, <3>5, BufferAppend
    <3> QED BY <3>1, <3>6, <3>7 DEF BufferInv
  <2>7. CASE OnRunFinished
    <3>1. PICK value \in {<<>>, <<Entry("value", runNumber)>>} :
            buffer' = AppendEntries(AppendEntries(buffer, value), <<Entry("footer", runNumber)>>)
      BY <2>7 DEF OnRunFinished
    <3>2. shown' = shown /\ runState' = "completed"
      BY <2>7 DEF OnRunFinished
    <3>3. Entry("footer", runNumber) \in Entries /\ Entry("value", runNumber) \in Entries
      BY <2>1 DEF Entry, Entries, TypeOK
    <3>4. /\ value \in Seq(Entries) /\ \A i \in 1..Len(value) : value[i][1] # "line"
          /\ <<Entry("footer", runNumber)>> \in Seq(Entries)
          /\ \A i \in 1..Len(<<Entry("footer", runNumber)>>) :
               <<Entry("footer", runNumber)>>[i][1] # "line"
      <4>1. ASSUME NEW e \in Entries, e[1] # "line"
            PROVE  <<e>> \in Seq(Entries) /\ \A i \in 1..Len(<<e>>) : <<e>>[i][1] # "line"
        BY <4>1
      <4>2. <<>> \in Seq(Entries) /\ \A i \in 1..Len(<<>>) : <<>>[i][1] # "line"
        OBVIOUS
      <4>3. Entry("footer", runNumber)[1] # "line" /\ Entry("value", runNumber)[1] # "line"
        BY DEF Entry
      <4>4. value = <<>> \/ value = <<Entry("value", runNumber)>>
        BY <3>1
      <4> QED BY <3>3, <4>1, <4>2, <4>3, <4>4
    <3> DEFINE buf == AppendEntries(buffer, value)
    <3>5. buf \in Seq(Entries) /\ Len(buf) <= Cap
      BY <2>1, <3>4, BufferAppend
    <3>6. PICK l \in 0..Cap, h \in 0..Cap : NewestLines(buf, shown, l, h)
      BY <2>1, <2>2, <3>4, <1>4
    <3> HIDE DEF buf
    <3>7. \E m, n \in 0..Cap :
            NewestLines(AppendEntries(buf, <<Entry("footer", runNumber)>>), shown, m, n)
      BY <2>1, <3>4, <3>5, <3>6, <1>4
    <3> QED BY <3>1, <3>2, <3>7 DEF BufferInv, buf
  <2>8. \/ UNCHANGED <<buffer, shown, runState>> \/ StartRun \/ PressClear
        \/ OnRunOutput \/ OnRunFinished
    BY DEF Next, ThreadStep, ThreadLoops, TimerEnds, PostTick, ThreadKeeps, HandleEvent, OnTick,
           OnTransient, PressKey, PressRun, PressCancel, PressOther, PressEditor, PressQuit,
           PressSelect, EditorEnds, SourceArrives, Drop, Begin, DeadlinePasses, GateOpens, OnOutput, RunReturns, TaskEnds, FinishFlushes, PostFinished,
           RunKeeps, uiVars, vars
  <2> QED BY <2>3, <2>4, <2>5, <2>6, <2>7, <2>8
<1>3. TypeOK /\ BufferInv => BufferHasNewest
  <2> SUFFICES ASSUME TypeOK, BufferInv PROVE BufferHasNewest
    OBVIOUS
  <2>1. PICK lo \in 0..Cap, hi \in 0..Cap : NewestLines(buffer, shown, lo, hi)
    BY DEF BufferInv
  <2> DEFINE lines == {i \in DOMAIN buffer : buffer[i][1] = "line"}
  <2>2. /\ DOMAIN buffer = 1..Len(buffer) /\ Len(buffer) \in Nat /\ Len(shown) \in Nat
        /\ lo \in Nat /\ hi \in Nat
    BY RunOutputAssumption DEF TypeOK, RunOutputAssumption
  <2>3. lines = lo + 1 .. hi
    BY <2>1, <2>2 DEF NewestLines
  <2> HIDE DEF lines
  <2>4. ASSUME NEW i \in lines
        PROVE  LET newer == Cardinality({j \in lines : j > i})
               IN  newer < Len(shown) /\ buffer[i][2] = shown[Len(shown) - newer]
    <3>1. {j \in lines : j > i} = i + 1 .. hi /\ i \in Int /\ i + 1 \in Int /\ lo < i /\ i <= hi
      BY <2>2, <2>3
    <3>2. Cardinality(i + 1 .. hi) = hi - i
      <4>1. Cardinality(i + 1 .. hi) = IF i + 1 > hi THEN 0 ELSE hi - (i + 1) + 1
        BY <2>2, <3>1, FS_Interval
      <4> QED BY <2>2, <3>1, <4>1
    <3>3. Cardinality({j \in lines : j > i}) = hi - i
      BY <3>1, <3>2
    <3>4. hi - i < Len(shown) /\ buffer[i][2] = shown[Len(shown) - (hi - i)]
      BY <2>1, <2>2, <2>3, <3>1 DEF NewestLines
    <3> QED BY <3>3, <3>4
  <2> QED BY <2>4 DEF BufferHasNewest, lines
<1> QED BY <1>1, <1>2, <1>3, RunInvariant, RunTypesAreKept, PTL DEF Spec
=============================================================================
