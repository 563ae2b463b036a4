------------------------- MODULE TerminalScreen_proofs -------------------------
(***************************************************************************)
(* Who has the terminal, and what it shows, proved for any size, any       *)
(* frames and any number of failures.                                      *)
(*                                                                         *)
(* The modes come first; ModeInv does not look at the cells.  Then the     *)
(* draw: DrawIsRight says, column by column, what is on the screen after   *)
(* the updates so far, and ShadowInv carries its result from one draw to   *)
(* the next, over everything that happens to the terminal in between.      *)
(* The types come last: ShadowInv needs those of the buffers, not those of *)
(* the modes.                                                              *)
(***************************************************************************)
EXTENDS TerminalScreen, WellFoundedInduction, TLAPS

(* The two states of the modes that every step lies between: the program   *)
(* has the terminal (with the cursor c), or the shell has it.              *)
Taken(c) == raw /\ alt /\ prior = "cooked" /\ cursor = c
Released == ~raw /\ ~alt /\ prior = "none" /\ cursor = "shown"

(* Which half-way state belongs to which step, if no call has failed.      *)
TakingModes ==
  /\ pc \in Taking =>
       /\ call \in {"init", "reinit", "resume"} /\ ~belowMin
       /\ handle = (IF call = "resume" THEN "live" ELSE "nil")
       /\ armed <=> call # "init"
  /\ pc = "raw" => Released
  /\ pc = "alt" => raw /\ ~alt /\ prior = "cooked" /\ cursor = "shown"
  /\ pc \in {"new", "hide"} => Taken("shown")
  /\ pc \in {"wipe", "arm"} => Taken("hidden")
  /\ pc \in {"new", "arm"} => call # "resume"

DrawingModes ==
  /\ pc \notin Taking \cup {"end"} => armed
  /\ pc \in Drawing \cup {"write", "log"} => ~belowMin /\ handle = "live" /\ Taken("hidden")
  /\ pc = "loop" => /\ belowMin <=> handle = "nil"
                    /\ IF belowMin THEN Released ELSE Taken("hidden")

LeavingModes ==
  /\ pc \in Leaving => call \in {"below", "quit", "suspend"}
  /\ pc = "show" /\ call = "below" => handle = "live" /\ Taken("hidden") /\ belowMin
  /\ pc = "show" /\ call # "below" => /\ belowMin <=> handle = "nil"
                                      /\ ~belowMin => Taken("hidden")
  /\ pc \in {"leave", "cook"} =>
       /\ belowMin <=> call = "below"
       /\ handle = (IF call = "suspend" THEN "live" ELSE "nil")
  /\ pc = "leave" => Taken("shown")
  /\ pc = "cook" => raw /\ ~alt /\ prior = "cooked" /\ cursor = "shown"
  /\ pc = "edit" => Released /\ handle = "live" /\ ~belowMin /\ call = "suspend"

ModeInv ==
  /\ faults \in Nat /\ belowMin \in BOOLEAN /\ raw \in BOOLEAN /\ alt \in BOOLEAN
  /\ handle \in {"nil", "live"}
  /\ faults = 0 /\ proc = "run" => TakingModes /\ DrawingModes /\ LeavingModes
  /\ faults = 0 /\ proc # "run" /\ armed => ~raw /\ ~alt /\ cursor = "shown"

(* The modes are as the step of the UI thread says, from the launch on.    *)
THEOREM ModesAreConsistent == Spec => []ModeInv
<1>1. ASSUME Init PROVE ModeInv
  <2>1. /\ raw = FALSE /\ alt = FALSE /\ prior = "none" /\ cursor = "shown"
        /\ armed = FALSE /\ belowMin = FALSE /\ handle = "nil"
        /\ pc = "raw" /\ call = "init" /\ proc = "run" /\ faults = 0
    BY <1>1 DEF Init
  <2>2. TakingModes
    BY <2>1 DEF TakingModes, Taking, Released
  <2>3. DrawingModes /\ LeavingModes
    BY <2>1 DEF DrawingModes, LeavingModes, Taking, Drawing, Leaving
  <2> QED
    BY <2>1, <2>2, <2>3 DEF ModeInv
(* Every step keeps the invariant: one step per action.                    *)
<1>2. ModeInv /\ [Next]_vars => ModeInv'
  <2> SUFFICES ASSUME ModeInv, [Next]_vars PROVE ModeInv'
    OBVIOUS
  <2> USE DEF ModeInv, TakingModes, DrawingModes, LeavingModes, Taken, Released,
              Taking, Drawing, Leaving, Fault
  <2>1. CASE EnableRawMode
    <3>1. CASE Fault
      BY <2>1, <3>1 DEF EnableRawMode, owner
    <3>2. CASE ~Fault
      BY <2>1, <3>2 DEF EnableRawMode, owner
    <3> QED
      BY <3>1, <3>2
  <2>2. CASE EnterAlternateScreen
    <3>1. CASE Fault
      <4>1. faults' \in Nat /\ faults' # 0
        BY <3>1
      <4>2. /\ raw' \in BOOLEAN /\ alt' \in BOOLEAN
            /\ belowMin' = belowMin /\ handle' = handle
        BY <2>2 DEF EnterAlternateScreen, owner
      <4> QED
        BY <4>1, <4>2
    <3>2. CASE ~Fault
      BY <2>2, <3>2 DEF EnterAlternateScreen, owner
    <3> QED
      BY <3>1, <3>2
  <2>3. CASE NewTerminal
    <3>1. CASE Fault
      <4>1. faults' \in Nat /\ faults' # 0
        BY <3>1
      <4>2. /\ raw' \in BOOLEAN /\ alt' \in BOOLEAN
            /\ belowMin' = belowMin /\ handle' = handle
        BY <2>3 DEF NewTerminal, owner
      <4> QED
        BY <4>1, <4>2
    <3>2. CASE ~Fault
      BY <2>3, <3>2 DEF NewTerminal, owner
    <3> QED
      BY <3>1, <3>2
  <2>4. CASE HideCursor
    BY <2>4 DEF HideCursor, owner
  <2>5. CASE Wipe
    BY <2>5 DEF Wipe, owner
  <2>6. CASE Arm
    BY <2>6 DEF Arm, tty
  <2>7. CASE ShowCursor
    BY <2>7 DEF ShowCursor
  <2>8. CASE LeaveAlternateScreen
    <3>1. CASE Fault
      BY <2>8, <3>1 DEF LeaveAlternateScreen, owner
    <3>2. CASE ~Fault
      BY <2>8, <3>2 DEF LeaveAlternateScreen, owner
    <3> QED
      BY <3>1, <3>2
  <2>9. CASE DisableRawMode
    <3>1. CASE Fault
      BY <2>9, <3>1 DEF DisableRawMode, owner
    <3>2. CASE ~Fault
      BY <2>9, <3>2 DEF DisableRawMode, Exit, owner
    <3> QED
      BY <3>1, <3>2
  <2>10. CASE EditorDone
    BY <2>10 DEF EditorDone, tty, owner
  <2>11. CASE HandleResize
    BY <2>11 DEF HandleResize, LoopKeeps, tty
  <2>12. CASE RenderBelowMinimum
    BY <2>12 DEF RenderBelowMinimum, LoopKeeps, tty
  <2>13. CASE RenderFrame
    BY <2>13 DEF RenderFrame, LoopKeeps, tty
  <2>14. CASE OpenEditor
    BY <2>14 DEF OpenEditor, LoopKeeps, tty
  <2>15. CASE Quit
    BY <2>15 DEF Quit, LoopKeeps, tty
  <2>16. CASE DrawBegin
    BY <2>16 DEF DrawBegin, owner
  <2>17. CASE DrawCannotBegin
    BY <2>17 DEF DrawCannotBegin, AfterDraw, tty, owner
  <2>18. CASE DrawWrite
    BY <2>18 DEF DrawWrite, AfterDraw, owner
  <2>19. CASE DrawWriteFails
    BY <2>19 DEF DrawWriteFails, AfterDraw, owner
  <2>20. CASE FlushDone
    BY <2>20 DEF FlushDone, tty, owner
  <2>21. CASE Log
    BY <2>21 DEF Log, tty, owner
  <2>22. CASE Resize
    BY <2>22 DEF Resize, owner
  <2>23. CASE PumpResize
    BY <2>23 DEF PumpResize, tty, owner
  <2>24. CASE Signal
    BY <2>24 DEF Signal, Die, EmergencyRestore, owner
  <2>25. CASE Trap
    BY <2>25 DEF Trap, Die, EmergencyRestore, owner
  <2>26. CASE UNCHANGED vars
    BY <2>26 DEF vars, tty, owner
  <2> QED
    BY <2>1, <2>2, <2>3, <2>4, <2>5, <2>6, <2>7, <2>8, <2>9, <2>10, <2>11, <2>12,
       <2>13, <2>14, <2>15, <2>16, <2>17, <2>18, <2>19, <2>20, <2>21, <2>22, <2>23,
       <2>24, <2>25, <2>26 DEF Next, Take, Leave, Loop, Frame
<1> QED
  BY <1>1, <1>2, PTL DEF Spec

(* Between frames the modes of the terminal, crossterm's memory of them,   *)
(* the Rust half of the Terminal and CommandInterpreter.isBelowMinimum     *)
(* agree, however many editors, prompts and resizes there were.            *)
THEOREM ModesTellOneStory == Spec => []ModesAgree
<1>1. ModeInv => ModesAgree
  BY DEF ModeInv, DrawingModes, Taken, Released, ModesAgree, Taking
<1> QED
  BY <1>1, ModesAreConsistent, PTL

(* Whatever ends the armed process, between whichever two calls, the shell *)
(* has its terminal back.                                                  *)
THEOREM TerminalIsGivenBack == Spec => []RestoredWhenDead
<1>1. ModeInv => RestoredWhenDead
  BY DEF ModeInv, RestoredWhenDead
<1> QED
  BY <1>1, ModesAreConsistent, PTL

EditorInv == (pc = "cook" => ~alt) /\ EditorOwnsTerminal

(* An editor never runs in raw mode or on the alternate screen, also after *)
(* calls that failed: it is started only after both were left.             *)
THEOREM EditorHasTerminal == Spec => []EditorOwnsTerminal
<1>1. Init => EditorInv
  BY DEF Init, EditorInv, EditorOwnsTerminal
<1>2. EditorInv /\ [Next]_vars => EditorInv'
  <2> SUFFICES ASSUME EditorInv, [Next]_vars PROVE EditorInv'
    OBVIOUS
  <2> USE DEF EditorInv, EditorOwnsTerminal
  <2>1. CASE Take
    BY <2>1 DEF Take, EnableRawMode, EnterAlternateScreen, NewTerminal, HideCursor,
                Wipe, Arm, Throw, Exit
  <2>2. CASE Leave
    BY <2>2 DEF Leave, ShowCursor, LeaveAlternateScreen, DisableRawMode, EditorDone,
                Throw, Exit
  <2>3. CASE Loop
    BY <2>3 DEF Loop, HandleResize, RenderBelowMinimum, RenderFrame, OpenEditor, Quit
  <2>4. CASE Frame
    BY <2>4 DEF Frame, DrawBegin, DrawCannotBegin, DrawWrite, DrawWriteFails,
                FlushDone, Log, AfterDraw
  <2>5. CASE Resize \/ PumpResize
    BY <2>5 DEF Resize, PumpResize, tty
  <2>6. CASE Signal \/ Trap
    BY <2>6 DEF Signal, Trap, Die
  <2>7. CASE UNCHANGED vars
    BY <2>7 DEF vars, tty
  <2> QED
    BY <2>1, <2>2, <2>3, <2>4, <2>5, <2>6, <2>7 DEF Next
<1>3. EditorInv => EditorOwnsTerminal
  BY DEF EditorInv
<1> QED
  BY <1>1, <1>2, <1>3, PTL DEF Spec

(* What a taking of the terminal leaves, also after one that failed; the   *)
(* modes before a first failure come from ModeInv.                         *)
Undone ==
  /\ call = "reinit" /\ handle = "nil" => ~raw /\ ~alt /\ prior = "none"
  /\ call = "resume" => (raw <=> alt) /\ (raw <=> prior = "cooked")

UndoInv ==
  /\ faults \in Nat /\ (armed \/ (call = "init" /\ pc \in Taking \cup {"end"}))
  /\ proc = "run" =>
       /\ pc \in Leaving => call \in {"below", "quit", "suspend"}
       /\ pc = "edit" => call = "suspend"
       /\ pc = "alt" => raw /\ prior = "cooked"
       /\ pc \in {"new", "hide", "wipe", "arm"} => raw /\ alt /\ prior = "cooked"
       /\ faults <= 1 /\ pc \notin Taking => Undone
  /\ proc = "exited" /\ ~armed /\ faults <= 1 => ~raw /\ ~alt

(* The first tty call that fails while the terminal is taken finds what    *)
(* was done so far undone, whichever of the six steps it is.               *)
THEOREM FailedTakesAreUndone == Spec => []FailedTakeIsUndone
<1>1. ASSUME Init PROVE UndoInv
  BY <1>1 DEF Init, UndoInv, Taking, Leaving
<1>2. ModeInv /\ UndoInv /\ [Next]_vars => UndoInv'
  <2> SUFFICES ASSUME ModeInv, UndoInv, [Next]_vars PROVE UndoInv'
    OBVIOUS
  <2> USE DEF UndoInv, Undone, Taking, Leaving, Drawing
  <2>1. CASE EnableRawMode
    <3>1. CASE raw' = TRUE /\ prior' = "cooked" /\ pc' = "alt" /\ proc' = "run" /\ faults' = faults
      BY <2>1, <3>1 DEF EnableRawMode, owner
    <3>2. CASE Fault /\ Throw /\ UNCHANGED <<raw, prior>>
      <4>1. faults = 0 => Released
        BY <2>1 DEF EnableRawMode, ModeInv, TakingModes
      <4>2. faults' = faults + 1
        BY <3>2 DEF Fault
      <4> QED BY <2>1, <3>2, <4>1, <4>2 DEF EnableRawMode, Throw, Exit, Released, owner
    <3> QED BY <2>1, <3>1, <3>2 DEF EnableRawMode
  <2>2. CASE EnterAlternateScreen
    <3>1. CASE alt' = TRUE /\ pc' \in {"hide", "new"} /\ UNCHANGED <<raw, prior, failed, proc, faults>>
      BY <2>2, <3>1 DEF EnterAlternateScreen, owner
    <3>2. CASE Fault /\ Throw /\ raw' = FALSE /\ prior' = "none" /\ UNCHANGED alt
      <4>1. faults = 0 => ~alt
        BY <2>2 DEF EnterAlternateScreen, ModeInv, TakingModes
      <4>2. faults' = faults + 1
        BY <3>2 DEF Fault
      <4> QED BY <2>2, <3>2, <4>1, <4>2 DEF EnterAlternateScreen, Throw, Exit, owner
    <3> QED BY <2>2, <3>1, <3>2 DEF EnterAlternateScreen
  <2>3. CASE NewTerminal
    <3>1. CASE pc' = "hide" /\ UNCHANGED <<raw, prior, alt, proc, faults>>
      BY <2>3, <3>1 DEF NewTerminal, owner
    <3>2. CASE Fault /\ Throw /\ raw' = FALSE /\ prior' = "none" /\ alt' = FALSE
      BY <2>3, <3>2 DEF NewTerminal, Fault, Throw, Exit, owner
    <3> QED BY <2>3, <3>1, <3>2 DEF NewTerminal
  <2>4. CASE HideCursor
    BY <2>4 DEF HideCursor, Fault, owner
  <2>5. CASE Wipe
    BY <2>5 DEF Wipe, Fault, owner
  <2>6. CASE Arm
    BY <2>6 DEF Arm, tty
  <2>7. CASE ShowCursor
    BY <2>7 DEF ShowCursor, Fault
  <2>8. CASE LeaveAlternateScreen
    BY <2>8 DEF LeaveAlternateScreen, Fault, Throw, Exit, owner
  <2>9. CASE DisableRawMode
    BY <2>9 DEF DisableRawMode, Fault, Throw, Exit, owner
  <2>10. CASE EditorDone
    BY <2>10 DEF EditorDone, tty, owner
  <2>11. CASE Loop
    BY <2>11 DEF Loop, HandleResize, RenderBelowMinimum, RenderFrame, OpenEditor, Quit,
                 LoopKeeps, tty
  <2>12. CASE DrawBegin \/ FlushDone \/ Log
    BY <2>12 DEF DrawBegin, FlushDone, Log, tty, owner
  <2>13. CASE DrawCannotBegin \/ DrawWrite \/ DrawWriteFails
    BY <2>13 DEF DrawCannotBegin, DrawWrite, DrawWriteFails, AfterDraw, Fault, tty, owner
  <2>14. CASE Resize \/ PumpResize
    BY <2>14 DEF Resize, PumpResize, tty, owner
  <2>15. CASE Signal \/ Trap
    BY <2>15 DEF Signal, Trap, Die, EmergencyRestore, owner
  <2>16. CASE UNCHANGED vars
    BY <2>16 DEF vars, tty, owner
  <2> QED BY <2>1, <2>2, <2>3, <2>4, <2>5, <2>6, <2>7, <2>8, <2>9, <2>10, <2>11, <2>12,
             <2>13, <2>14, <2>15, <2>16 DEF Next, Take, Leave, Frame
<1>3. UndoInv => FailedTakeIsUndone
  BY DEF UndoInv, Undone, FailedTakeIsUndone, Taking
<1> QED BY <1>1, <1>2, <1>3, ModesAreConsistent, PTL DEF Spec

-----------------------------------------------------------------------------
(* What the screen shows.                                                  *)

(* Induction, for a set of numbers.                                        *)
LEMMA NatSetInduction ==
  ASSUME NEW S, 0 \in S, \A n \in Nat : n \in S => n + 1 \in S
  PROVE  Nat \subseteq S
<1> DEFINE T == Nat \ S  R == {ss \in Nat \X Nat : ss[1] < ss[2]}
<1>1. SUFFICES ASSUME T # {} PROVE FALSE
  OBVIOUS
<1>2. IsWellFoundedOn(R, Nat)
  BY NatLessThanWellFounded, SMT DEF OpToRel
<1>3. \A x, y \in Nat : <<y, x>> \in R <=> y < x
  OBVIOUS
<1> HIDE DEF R
<1>4. PICK x \in T : \A y \in T : ~(<<y, x>> \in R)
  BY <1>1, <1>2, WFMin
<1>5. x # 0 /\ x - 1 \in Nat /\ x - 1 < x /\ (x - 1) + 1 = x
  BY <1>4, SMT
<1>6. x - 1 \notin T
  BY <1>3, <1>4, <1>5
<1> QED
  BY <1>4, <1>5, <1>6

(* On the screen a wide glyph and its second half come together, but for a *)
(* wide glyph in the last column.  The screen s shows the buffer b in the  *)
(* columns that are no second half.                                        *)
Paired(s) == \A c \in DOMAIN s : s[c] = Half <=> Covered(s, c)
Matches(s, b) ==
  /\ Paired(s)
  /\ \A c \in DOMAIN b \cap DOMAIN s : ~Covered(b, c) => s[c] = b[c]

(* That is enough: a second half that the buffer has is there too, behind  *)
(* the glyph it belongs to, unless that is hidden itself.                  *)
LEMMA HalvesFollow ==
  ASSUME NEW n \in Nat, NEW k \in Nat, NEW b \in [1..n -> Glyph],
         NEW s \in [1..k -> Glyph \cup {Half}], Matches(s, b),
         NEW c \in 1..n, c <= k, ~PassedOver(b, c)
  PROVE  s[c] = IF Covered(b, c) THEN Half ELSE b[c]
<1>1. CASE Covered(b, c)
  <2>1. c - 1 \in 1..n /\ c - 1 \in 1..k /\ b[c - 1] \in Wide /\ ~Covered(b, c - 1) /\ c \in 1..k
    BY <1>1 DEF Covered, PassedOver
  <2>2. s[c - 1] \in Wide
    BY <2>1 DEF Matches
  <2> QED BY <1>1, <2>1, <2>2 DEF Matches, Paired, Covered
<1>2. CASE ~Covered(b, c)
  BY <1>2 DEF Matches
<1> QED BY <1>1, <1>2

(* Writing a glyph keeps the halves together.                              *)
LEMMA PutKeepsPairs ==
  ASSUME NEW k \in Nat, NEW s \in [1..k -> Glyph \cup {Half}], Paired(s),
         NEW d \in 1..k, NEW g \in Glyph
  PROVE  Paired(Put(s, d, g))
<1>1. Half \notin Glyph /\ Blank \notin Wide /\ Wide \subseteq Glyph /\ Blank \in Glyph
  BY TerminalAssumption DEF Glyph
<1> DEFINE t == Put(s, d, g)
<1>2. \A x \in 1..k : s[x] = Half <=> x > 1 /\ s[x - 1] \in Wide
  BY DEF Paired, Covered
<1>3. /\ DOMAIN t = 1..k
      /\ \A x \in 1..k :
           t[x] = IF x = d THEN g
                  ELSE IF x = d + 1 /\ g \in Wide THEN Half
                  ELSE IF \/ x + 1 = d /\ s[d] = Half
                          \/ x = d + 1 /\ s[d] \in Wide
                          \/ x = d + 2 /\ g \in Wide /\ s[d + 1] \in Wide THEN Blank
                  ELSE s[x]
  BY DEF Put
<1> HIDE DEF t
<1>4. ASSUME NEW x \in 1..k PROVE t[x] = Half <=> x > 1 /\ t[x - 1] \in Wide
  <2>1. x > 1 => x - 1 \in 1..k
    OBVIOUS
  <2>2. CASE x < d
    BY <1>1, <1>2, <1>3, <2>1, <2>2
  <2>3. CASE x = d
    BY <1>1, <1>2, <1>3, <2>1, <2>3
  <2>4. CASE x = d + 1
    BY <1>1, <1>2, <1>3, <2>1, <2>4
  <2>5. CASE x = d + 2
    BY <1>1, <1>2, <1>3, <2>1, <2>5
  <2>6. CASE x > d + 2
    BY <1>1, <1>2, <1>3, <2>1, <2>6
  <2> QED BY <2>2, <2>3, <2>4, <2>5, <2>6
<1> QED BY <1>3, <1>4 DEF Paired, Covered, t

(* Buffer::diff is right: if the screen showed the old buffer, it shows    *)
(* the new one when all the updates are written.  Until then it is a       *)
(* screen, whatever it shows.                                              *)
LEMMA DrawIsRight ==
  ASSUME NEW n \in Nat, NEW k \in Nat, NEW old \in [1..n -> Glyph], NEW new \in [1..n -> Glyph],
         NEW last \in Nat, last <= n, cells \in [1..k -> Glyph \cup {Half}]
  PROVE  /\ Shown(new, Diff(old, new), last) \in [1..k -> Glyph \cup {Half}]
         /\ last = n /\ Matches(cells, old)
              => Matches(Shown(new, Diff(old, new), last), new)
<1> DEFINE updates == Diff(old, new)
           V == [1..k -> Glyph \cup {Half}]
           Step(c, s) == IF c \in updates /\ c <= k THEN Put(s, c, new[c]) ELSE s
           Steps(f, m) == f[0] = cells /\ \A c \in 1..m : f[c] = Step(c, f[c - 1])
           S == {i \in Nat : i <= last => \E f \in [0..i -> V] : Steps(f, i)}
           F(f) == [c \in 0..last |-> IF c = 0 THEN cells
                                     ELSE IF c \in updates /\ c <= Len(cells)
                                          THEN Put(f[c - 1], c, new[c]) ELSE f[c - 1]]
           up == CHOOSE f : f = F(f)
<1>1. Shown(new, updates, last) = up[last]
  BY DEF Shown
<1>2. cells \in V /\ Len(cells) = k
  OBVIOUS
<1>3. ASSUME NEW c \in 1..last, NEW s \in V PROVE Step(c, s) \in V
  <2>1. CASE c \in updates /\ c <= k
    <3>1. new[c] \in Glyph /\ Blank \in Glyph
      BY DEF Glyph
    <3> QED BY <2>1, <3>1 DEF Put
  <2> QED BY <2>1
<1> HIDE DEF V, Step, updates
(* The recursive function that Shown defines exists ...                    *)
<1>4. \E f \in [0..last -> V] : Steps(f, last)
  <2>1. 0 \in S
    <3> DEFINE f == [i \in 0..0 |-> cells]
    <3>1. f \in [0..0 -> V] /\ Steps(f, 0)
      BY <1>2
    <3> QED BY <3>1
  <2>2. ASSUME NEW m \in Nat, m \in S, m + 1 <= last PROVE m + 1 \in S
    <3>1. PICK f \in [0..m -> V] : Steps(f, m)
      BY <2>2
    <3>2. Step(m + 1, f[m]) \in V
      <4>1. f[m] \in V
        OBVIOUS
      <4>2. m + 1 \in 1..last
        BY <2>2
      <4> QED BY <4>1, <4>2, <1>3
    <3> DEFINE g == [i \in 0..(m + 1) |-> IF i = m + 1 THEN Step(m + 1, f[m]) ELSE f[i]]
    <3>3. g \in [0..(m + 1) -> V]
      BY <3>2
    <3>4. g[0] = cells
      BY <3>1
    <3>5. ASSUME NEW c \in 1..(m + 1) PROVE g[c] = Step(c, g[c - 1])
      <4>1. c - 1 \in 0..(m + 1) /\ c - 1 # m + 1 /\ c \in 0..(m + 1)
        OBVIOUS
      <4>2. g[c - 1] = f[c - 1]
        BY <4>1
      <4>3. CASE c = m + 1
        BY <4>1, <4>2, <4>3
      <4>4. CASE c # m + 1
        <5>1. c \in 1..m /\ g[c] = f[c]
          BY <4>1, <4>4
        <5> QED BY <3>1, <4>2, <5>1
      <4> QED BY <4>3, <4>4
    <3> HIDE DEF g
    <3>6. \E h \in [0..(m + 1) -> V] : Steps(h, m + 1)
      BY <3>3, <3>4, <3>5
    <3> HIDE DEF Steps
    <3> QED BY <3>6
  <2>3. last \in S
    <3>1. \A m \in Nat : ~(m + 1 <= last) => m + 1 \in S
      OBVIOUS
    <3> HIDE DEF S
    <3>2. \A m \in Nat : m \in S => m + 1 \in S
      BY <2>2, <3>1
    <3> QED BY <2>1, <3>2, NatSetInduction
  <2> QED BY <2>3
<1>5. \E f : f = F(f)
  <2>1. PICK f \in [0..last -> V] : Steps(f, last)
    BY <1>4
  <2>2. ASSUME NEW c \in 0..last
        PROVE  f[c] = IF c = 0 THEN cells
                      ELSE IF c \in updates /\ c <= Len(cells)
                           THEN Put(f[c - 1], c, new[c]) ELSE f[c - 1]
    <3>1. c = 0 \/ c \in 1..last
      OBVIOUS
    <3> QED BY <1>2, <2>1, <3>1 DEF Step
  <2>3. f = [c \in 0..last |-> f[c]]
    BY <2>1
  <2>4. f = F(f)
    BY <2>2, <2>3
  <2> QED BY <2>4
(* ... and is the screen after each of the updates.                        *)
<1>6. up = F(up)
  BY <1>5
<1>7. \A c \in 0..last :
        up[c] = IF c = 0 THEN cells
                ELSE IF c \in updates /\ c <= Len(cells)
                     THEN Put(up[c - 1], c, new[c]) ELSE up[c - 1]
  <2> HIDE DEF up
  <2> QED BY <1>6
<1> HIDE DEF up
<1>8. up[0] = cells /\ \A c \in 1..last : up[c] = Step(c, up[c - 1])
  BY <1>2, <1>7 DEF Step
<1>9. \A m \in 0..last : up[m] \in V
  <2> DEFINE T == {m \in Nat : m <= last => up[m] \in V}
  <2>1. 0 \in T
    BY <1>2, <1>8
  <2>2. ASSUME NEW m \in Nat, m \in T PROVE m + 1 \in T
    <3>1. CASE m + 1 <= last
      <4>1. m + 1 \in 1..last /\ up[m] \in V
        BY <2>2, <3>1
      <4>2. up[m + 1] = Step(m + 1, up[m])
        BY <4>1, <1>8
      <4> QED BY <4>1, <4>2, <1>3
    <3> QED BY <3>1
  <2>3. Nat \subseteq T
    <3> HIDE DEF T
    <3> QED BY <2>1, <2>2, NatSetInduction
  <2> QED BY <2>3
<1>10. up \in [0..last -> V]
  <2>1. up = [c \in 0..last |-> up[c]]
    BY <1>6, <1>7
  <2> QED BY <1>9, <2>1
<1>11. Shown(new, Diff(old, new), last) \in [1..k -> Glyph \cup {Half}]
  BY <1>1, <1>9 DEF V, updates
(* When the columns up to c are done, the screen shows the new buffer      *)
(* there, and right of c still the old one, but for the column that a wide *)
(* glyph in column c covers.                                               *)
<1> DEFINE Right(c) ==
      /\ Paired(up[c])
      /\ \A x \in 1..n : x <= k =>
           /\ x <= c /\ ~Covered(new, x) => up[c][x] = new[x]
           /\ x > c /\ ~Covered(old, x) /\ ~(x = c + 1 /\ Covered(new, x)) => up[c][x] = old[x]
<1> SUFFICES ASSUME last = n, Matches(cells, old)
             PROVE  Matches(Shown(new, Diff(old, new), n), new)
  BY <1>11
<1>12. /\ \A c \in 0..n : up[c] \in [1..k -> Glyph \cup {Half}]
       /\ up[0] = cells /\ up[n] = Shown(new, Diff(old, new), n)
       /\ \A c \in 1..n : up[c] = IF c \in Diff(old, new) /\ c <= k
                                  THEN Put(up[c - 1], c, new[c]) ELSE up[c - 1]
  BY <1>1, <1>8, <1>9 DEF V, Step, updates
<1>13. Half \notin Glyph /\ Wide \subseteq Glyph
  BY TerminalAssumption DEF Glyph
<1>14. Right(0)
  <2>1. up[0] = cells /\ DOMAIN cells = 1..k /\ DOMAIN old = 1..n
    BY <1>12
  <2> QED BY <2>1 DEF Matches
<1>15. ASSUME NEW c \in 0..(n - 1), Right(c) PROVE Right(c + 1)
  <2> DEFINE d == c + 1
             s == up[c]
  <2>0. /\ d \in 1..n /\ d - 1 = c /\ c \in 0..n
        /\ up[d] = IF d \in Diff(old, new) /\ d <= k THEN Put(s, d, new[d]) ELSE s
    BY <1>12
  <2>1. s \in [1..k -> Glyph \cup {Half}] /\ DOMAIN s = 1..k
    BY <1>12, <2>0
  <2>2. \A x \in 1..k : s[x] = Half <=> x > 1 /\ s[x - 1] \in Wide
    BY <1>15, <2>1 DEF Paired, Covered
  <2>3. \A x \in 1..n : x <= k =>
          /\ x <= c /\ ~Covered(new, x) => s[x] = new[x]
          /\ x > c /\ ~Covered(old, x) /\ ~(x = c + 1 /\ Covered(new, x)) => s[x] = old[x]
    BY <1>15
  <2>4. \A x \in 1..n : old[x] # Half
    BY <1>13
  <2>5. CASE d \in Diff(old, new) /\ d <= k
    <3>1. d \in 1..k /\ ~Covered(new, d) /\ up[d] = Put(s, d, new[d]) /\ new[d] \in Glyph
      BY <2>0, <2>5 DEF Diff
    <3>2. Paired(up[d])
      BY <1>15, <2>1, <3>1, PutKeepsPairs
    <3>3. ASSUME NEW x \in 1..n, x <= k
          PROVE  /\ x <= d /\ ~Covered(new, x) => up[d][x] = new[x]
                 /\ x > d /\ ~Covered(old, x) /\ ~(x = d + 1 /\ Covered(new, x))
                      => up[d][x] = old[x]
      <4>1. up[d][x] = IF x = d THEN new[d]
                      ELSE IF x = d + 1 /\ new[d] \in Wide THEN Half
                      ELSE IF \/ x + 1 = d /\ s[d] = Half
                              \/ x = d + 1 /\ s[d] \in Wide
                              \/ x = d + 2 /\ new[d] \in Wide /\ s[d + 1] \in Wide THEN Blank
                      ELSE s[x]
        BY <2>1, <3>1, <3>3 DEF Put
      <4>2. CASE x = d
        BY <2>0, <4>1, <4>2
      <4>3. CASE x < d /\ ~Covered(new, x)
        (* The glyph left of d is not the first half of what d shows.      *)
        <5>1. s[x] = new[x]
          BY <2>0, <2>3, <3>3, <4>3
        <5>2. ~(x + 1 = d /\ s[d] = Half)
          <6>1. SUFFICES ASSUME x + 1 = d, s[d] = Half PROVE FALSE
            OBVIOUS
          <6>2. d > 1 /\ d - 1 = x
            BY <6>1
          <6>3. s[x] \in Wide
            BY <2>2, <3>1, <6>1, <6>2
          <6> QED BY <3>1, <5>1, <6>2, <6>3 DEF Covered
        <5> QED BY <2>0, <4>1, <4>3, <5>1, <5>2
      <4>4. CASE x > d /\ ~Covered(old, x) /\ ~(x = d + 1 /\ Covered(new, x))
        (* What is there is no second half, so there is nothing to blank.  *)
        <5>1. s[x] = old[x] /\ s[x] # Half
          BY <2>0, <2>3, <2>4, <3>3, <4>4
        <5>2. s[x - 1] \notin Wide
          <6>1. x \in 1..k /\ x > 1
            BY <2>0, <3>3, <4>4
          <6> QED BY <2>2, <5>1, <6>1
        <5>3. x = d + 1 => new[d] \notin Wide
          <6>1. SUFFICES ASSUME x = d + 1, new[d] \in Wide PROVE FALSE
            OBVIOUS
          <6>2. x - 1 = d /\ x > 1
            BY <2>0, <6>1
          <6> QED BY <4>4, <6>1, <6>2 DEF Covered
        <5>4. (x = d + 1 => x - 1 = d) /\ (x = d + 2 => x - 1 = d + 1) /\ x # d /\ x + 1 # d
          BY <2>0, <4>4
        <5> QED BY <2>0, <4>1, <4>4, <5>1, <5>2, <5>3, <5>4
      <4> QED BY <2>0, <4>2, <4>3, <4>4
    <3> HIDE DEF d
    <3> QED BY <3>2, <3>3 DEF d
  <2>6. CASE ~(d \in Diff(old, new) /\ d <= k)
    <3>1. up[d] = s /\ Paired(up[d])
      BY <1>15, <2>0, <2>6
    <3>2. ASSUME d <= k, ~Covered(new, d) PROVE s[d] = new[d]
      <4>1. new[d] = old[d] /\ ~Covered(old, d)
        BY <2>0, <2>6, <3>2 DEF Diff
      <4> QED BY <2>0, <2>3, <3>2, <4>1
    <3>3. ASSUME NEW x \in 1..n, x <= k
          PROVE  /\ x <= d /\ ~Covered(new, x) => up[d][x] = new[x]
                 /\ x > d /\ ~Covered(old, x) /\ ~(x = d + 1 /\ Covered(new, x))
                      => up[d][x] = old[x]
      <4>1. CASE x = d
        BY <3>1, <3>2, <3>3, <4>1
      <4>2. CASE x < d
        BY <2>0, <2>3, <3>1, <3>3, <4>2
      <4>3. CASE x > d
        BY <2>0, <2>3, <3>1, <3>3, <4>3
      <4> QED BY <2>0, <4>1, <4>2, <4>3
    <3> HIDE DEF d
    <3> QED BY <3>1, <3>3 DEF d
  <2> QED BY <2>5, <2>6
<1>17. Right(n)
  <2> DEFINE Good == {c \in Nat : c <= n => Right(c)}
  <2>1. 0 \in Good
    BY <1>14
  <2>2. \A c \in Nat : c \in Good => c + 1 \in Good
    <3> HIDE DEF Right
    <3> QED BY <1>15
  <2> HIDE DEF Good
  <2>3. Nat \subseteq Good
    BY <2>1, <2>2, NatSetInduction
  <2> QED BY <2>3 DEF Good
<1> QED BY <1>12, <1>17 DEF Matches

ScreenTypes ==
  /\ size \in 1..MaxCols /\ faults \in Nat
  /\ \E k \in Nat : cells \in [1..k -> Glyph \cup {Half}]
  /\ \E n \in 0..MaxCols : cur \in [1..n -> Glyph] /\ prev \in [1..n -> Glyph]
  /\ frame \in Frames /\ runs \in Seq(Frames) /\ sent \in Nat

(* From the clear of the screen on, also before and after an editor.       *)
Shadowing == proc = "run" /\ alt /\ ~dirty /\ pc \notin {"new", "hide", "wipe"}

ShadowInv ==
  /\ ScreenTypes
  /\ faults = 0 => Len(cur) = area
  /\ Shadowing => Matches(cells, prev)

(* What ratatui believes is on the screen is there whenever it computes a  *)
(* diff, through resizes, failed writes, editors and episodes below the    *)
(* minimum size, whatever is drawn: also next to wide glyphs that hide     *)
(* each other, but for the column passed over behind them.                 *)
THEOREM ShadowIsTrue == Spec => []ShadowMatchesScreen
<1>0. Blank \in Glyph /\ Blank \notin Wide /\ Half \notin Glyph /\ Wide \subseteq Glyph /\ MaxCols \in Nat
  BY TerminalAssumption DEF Glyph
<1>1. Init => ShadowInv
  <2> SUFFICES ASSUME Init PROVE ShadowInv
    OBVIOUS
  <2>1. cells \in [1..0 -> Glyph \cup {Half}] /\ cur \in [1..0 -> Glyph] /\ prev \in [1..0 -> Glyph]
    BY DEF Init
  <2>2. ScreenTypes
    BY <1>0, <2>1 DEF Init, ScreenTypes
  <2>3. Matches(cells, prev) /\ Len(cur) = area
    BY DEF Init, Matches, Paired
  <2> QED BY <2>2, <2>3 DEF ShadowInv
<1>2. ASSUME ShadowInv, [Next]_vars PROVE ShadowInv'
  <2>0. PICK k \in Nat, n \in 0..MaxCols :
          /\ cells \in [1..k -> Glyph \cup {Half}]
          /\ cur \in [1..n -> Glyph] /\ prev \in [1..n -> Glyph]
    BY <1>2 DEF ShadowInv, ScreenTypes
  <2>1. /\ size \in 1..MaxCols /\ faults \in Nat /\ frame \in Frames
        /\ runs \in Seq(Frames) /\ sent \in Nat /\ n \in Nat /\ Len(cur) = n /\ Len(prev) = n
    BY <1>0, <1>2, <2>0 DEF ShadowInv, ScreenTypes
  <2>2. (faults = 0 => n = area) /\ (Shadowing => Matches(cells, prev))
    BY <1>2, <2>1 DEF ShadowInv
  (* The steps that touch neither the screen nor the buffers.                *)
  <2>3. ASSUME UNCHANGED <<cells, area, cur, prev, size>>, frame' \in Frames,
               runs' \in Seq(Frames), sent' \in Nat, faults' \in Nat,
               faults' = 0 => faults = 0, Shadowing' => Shadowing
        PROVE  ShadowInv'
    BY <1>2, <2>3 DEF ShadowInv, ScreenTypes, Paired, Matches, Covered
  (* A blank row has no wide glyphs.                                         *)
  <2>4. ASSUME NEW m \in Nat
        PROVE  /\ Row(m) \in [1..m -> Glyph] /\ Row(m) \in [1..m -> Glyph \cup {Half}]
               /\ Len(Row(m)) = m
               /\ \A j \in Nat : Matches(Row(j), Row(m))
    BY <1>0 DEF Row, Paired, Matches, Covered
  (* What a new size leaves of a row.                                        *)
  <2>5. ASSUME NEW m \in Nat, NEW G, Blank \in G, NEW j \in Nat, NEW b \in [1..j -> G]
        PROVE  Fit(b, m) \in [1..m -> G]
    <3>1. Len(b) = j
      OBVIOUS
    <3> QED BY <2>5, <3>1 DEF Fit
  (* A draw keeps the type of the screen and, when it is through, shows.    *)
  <2>6. ASSUME NEW last \in Nat, last <= n
        PROVE  /\ Shown(cur, Diff(prev, cur), last) \in [1..k -> Glyph \cup {Half}]
               /\ last = n /\ Matches(cells, prev) =>
                    Matches(Shown(cur, Diff(prev, cur), last), cur)
    <3>1. cells \in [1..k -> Glyph \cup {Half}]
      BY <2>0
    <3>2. prev \in [1..n -> Glyph]
      BY <2>0
    <3>3. cur \in [1..n -> Glyph]
      BY <2>0
    <3>4. n \in Nat
      BY <2>1
    <3> QED BY <2>2, <2>6, <3>1, <3>2, <3>3, <3>4, DrawIsRight
  <2>7. ASSUME NEW k2 \in Nat, cells' \in [1..k2 -> Glyph \cup {Half}],
               NEW n2 \in 0..MaxCols, cur' \in [1..n2 -> Glyph], prev' \in [1..n2 -> Glyph],
               size' \in 1..MaxCols, frame' \in Frames,
               runs' \in Seq(Frames), sent' \in Nat, faults' \in Nat,
               faults' = 0 => n2 = area', Shadowing' => Matches(cells', prev')
        PROVE  ShadowInv'
    <3>1. Len(cur') = n2 /\ n2 \in Nat
      BY <1>0, <2>7
    <3>2. ScreenTypes'
      BY <2>7 DEF ScreenTypes
    <3>3. Shadowing' => (Matches(cells, prev))'
      BY <2>7 DEF Matches, Paired, Covered
    <3> QED BY <2>7, <3>1, <3>2, <3>3 DEF ShadowInv
  <2>8. CASE EnableRawMode \/ HideCursor \/ Arm
    BY <2>1, <2>3, <2>8 DEF EnableRawMode, HideCursor, Arm, Fault, Throw, Exit, Shadowing,
       tty, term, env, ui
  <2>9. CASE EnterAlternateScreen
    <3>1. CASE Fault
      <4>1. UNCHANGED <<alt, cells, area, cur, prev, size, frame, runs, sent, dirty>>
        BY <2>1, <2>9, <3>1 DEF EnterAlternateScreen, Fault, term, env
      <4>2. pc = "alt" /\ proc = "run" /\ faults' = faults + 1
        BY <2>9, <3>1 DEF EnterAlternateScreen, Fault
      <4> QED BY <2>1, <2>3, <4>1, <4>2 DEF Shadowing
    <3>2. CASE ~Fault
      <4>1. /\ cells' = Row(size) /\ pc' \in {"hide", "new"}
            /\ UNCHANGED <<area, cur, prev, size, frame, runs, sent, faults>>
        BY <2>9, <3>2 DEF EnterAlternateScreen, term, env
      <4>2. cells' \in [1..size -> Glyph \cup {Half}] /\ size \in Nat
        BY <2>1, <2>4, <4>1
      <4> QED BY <2>0, <2>1, <2>2, <2>7, <4>1, <4>2 DEF Shadowing
    <3> QED BY <3>1, <3>2
  <2>10. CASE NewTerminal
    <3>1. CASE Fault
      <4>1. /\ UNCHANGED <<area, cur, prev, size, frame, runs, sent, dirty>>
            /\ cells' = <<>> /\ alt' = FALSE /\ faults' = faults + 1
        BY <2>1, <2>10, <3>1 DEF NewTerminal, Fault, term, env
      <4>2. cells' \in [1..0 -> Glyph \cup {Half}]
        BY <2>2, <4>1
      <4>3. faults' \in Nat /\ faults' # 0 /\ ~Shadowing'
        BY <2>1, <4>1 DEF Shadowing
      <4> QED BY <2>0, <2>1, <2>7, <4>1, <4>2, <4>3
    <3>2. CASE ~Fault
      <4>1. /\ area' = size /\ cur' = Row(size) /\ prev' = Row(size)
            /\ pc' = "hide" /\ UNCHANGED <<cells, size, frame, runs, sent, faults>>
        BY <2>10, <3>2 DEF NewTerminal, env
      <4>2. /\ size \in Nat /\ size \in 0..MaxCols
        BY <1>0, <2>1
      <4>3. cur' \in [1..size -> Glyph] /\ prev' \in [1..size -> Glyph]
        BY <2>4, <4>1, <4>2
      <4> QED BY <2>0, <2>1, <2>7, <4>1, <4>2, <4>3 DEF Shadowing
    <3> QED BY <3>1, <3>2
  <2>11. CASE Wipe
    <3>1. CASE Fault
      BY <2>1, <2>3, <2>11, <3>1 DEF Wipe, Fault, Shadowing, owner, env, ui
    <3>2. CASE ~Fault
      <4>1. /\ cells' = Row(size) /\ prev' = Row(n) /\ cur' = cur /\ area' = area
            /\ UNCHANGED <<size, frame, runs, sent, faults>>
        BY <2>1, <2>11, <3>2 DEF Wipe, env, ui
      <4>2. /\ cells' \in [1..size -> Glyph \cup {Half}] /\ size \in Nat
            /\ prev' \in [1..n -> Glyph] /\ Matches(cells', prev')
        BY <2>1, <2>4, <4>1
      <4> QED BY <2>0, <2>1, <2>2, <2>7, <4>1, <4>2
    <3> QED BY <3>1, <3>2
  <2>12. CASE ShowCursor \/ DisableRawMode \/ EditorDone
    BY <2>1, <2>3, <2>12 DEF ShowCursor, DisableRawMode, EditorDone, Fault, Throw, Exit, Shadowing,
       tty, term, owner, env, ui
  <2>13. CASE LeaveAlternateScreen
    <3>1. CASE Fault
      BY <2>1, <2>3, <2>13, <3>1 DEF LeaveAlternateScreen, Fault, Shadowing, term, env
    <3>2. CASE ~Fault
      <4>1. /\ cells' = <<>> /\ alt' = FALSE
            /\ UNCHANGED <<area, cur, prev, size, frame, runs, sent, faults>>
        BY <2>13, <3>2 DEF LeaveAlternateScreen, term, env
      <4>2. cells' \in [1..0 -> Glyph \cup {Half}]
        BY <4>1
      <4> QED BY <2>0, <2>1, <2>2, <2>7, <4>1, <4>2 DEF Shadowing
    <3> QED BY <3>1, <3>2
  <2>14. CASE Loop
    BY <2>1, <2>3, <2>14 DEF Loop, HandleResize, RenderBelowMinimum, RenderFrame, OpenEditor,
       Quit, LoopKeeps, Shadowing, tty, term
  <2>15. CASE DrawBegin
    <3> DEFINE m == IF area = size THEN n ELSE size
    <3>1. m \in Nat /\ m \in 0..MaxCols /\ size \in Nat
      BY <1>0, <2>1
    <3>2. Canvas \in [1..m -> Glyph]
      <4>1. cur \in [1..n -> Glyph]
        BY <2>0
      <4>2. Fit(cur, size) \in [1..size -> Glyph]
        BY <1>0, <2>1, <2>5, <3>1, <4>1
      <4> QED BY <4>1, <4>2 DEF Canvas
    <3>3. cur' \in [1..m -> Glyph]
      <4> DEFINE b == Canvas
      <4>1. b \in [1..m -> Glyph] /\ DOMAIN b = 1..m
        BY <3>2
      <4> HIDE DEF b, m
      <4>2. cur' = Rendered(pc, b) /\ pc \in {"begin", "para", "flush", "commit"}
            /\ (pc = "flush" => sent < Len(runs))
        BY <2>15 DEF DrawBegin, Drawing, b
      <4>3. CASE pc = "begin"
        BY <1>0, <4>1, <4>2, <4>3 DEF Rendered
      <4>4. CASE pc = "para"
        <5>1. \A c \in 1..m : frame.text[c] \in Glyph
          <6>1. frame.text \in [1..MaxCols -> Glyph]
            BY <2>1, TerminalAssumption
          <6>2. 1..m \subseteq 1..MaxCols
            BY <1>0, <3>1 DEF m
          <6> QED BY <6>1, <6>2
        <5> QED BY <4>1, <4>2, <4>4, <5>1 DEF Rendered
      <4>5. CASE pc = "flush"
        <5>1. runs[sent + 1] \in Frames
          BY <2>1, <4>2, <4>5
        <5>2. runs[sent + 1].run \in Seq(Glyph)
          BY <5>1, TerminalAssumption
        <5>3. \A i \in DOMAIN runs[sent + 1].run : runs[sent + 1].run[i] \in Glyph
          BY <5>2
        <5> QED BY <4>1, <4>2, <4>5, <5>3 DEF Rendered
      <4>6. CASE pc = "commit"
        BY <4>1, <4>2, <4>6 DEF Rendered
      <4> QED BY <4>2, <4>3, <4>4, <4>5, <4>6
    <3>4. /\ area' = size /\ pc' = "write" /\ pc \notin {"new", "hide", "wipe"}
          /\ UNCHANGED <<alt, size, proc, frame, runs, sent, faults>>
      BY <2>15 DEF DrawBegin, Drawing, env, ui
    <3>5. CASE area = size
      <4>1. UNCHANGED <<prev, cells, dirty>>
        BY <2>15, <3>5 DEF DrawBegin
      <4>2. cells' \in [1..k -> Glyph \cup {Half}] /\ prev' \in [1..n -> Glyph]
        BY <2>0, <2>2, <4>1
      <4>3. cur' \in [1..n -> Glyph]
        BY <3>3, <3>5
      <4>4. (faults' = 0 => n = area') /\ (Shadowing' => Matches(cells', prev'))
        BY <2>2, <3>4, <3>5, <4>1 DEF Shadowing
      <4> QED BY <2>0, <2>1, <2>7, <3>4, <4>2, <4>3, <4>4
    <3>6. CASE area # size
      <4>1. prev' = Row(size) /\ cells' = IF alt THEN Row(size) ELSE cells
        BY <2>15, <3>6 DEF DrawBegin
      <4>2. \E j \in Nat : cells' \in [1..j -> Glyph \cup {Half}]
        BY <2>0, <2>4, <3>1, <4>1
      <4>3. /\ prev' \in [1..size -> Glyph]
            /\ Shadowing' => Matches(cells', prev')
        BY <2>4, <3>1, <3>4, <4>1 DEF Shadowing
      <4>4. cur' \in [1..size -> Glyph] /\ size \in 0..MaxCols
        BY <3>1, <3>3, <3>6
      <4> QED BY <2>1, <2>7, <3>4, <4>2, <4>3, <4>4
    <3> QED BY <3>5, <3>6
  <2>16. CASE DrawCannotBegin
    <3>1. /\ size \in Nat /\ size \in 0..MaxCols /\ Blank \in Glyph
      BY <1>0, <2>1
    <3>2. /\ faults' = faults + 1 /\ UNCHANGED <<cells, size, frame>>
          /\ runs' \in {runs, Append(runs, frame)} /\ sent' \in {sent, sent + 1, 0}
      BY <2>16 DEF DrawCannotBegin, Fault, AfterDraw, tty, env
    <3>4. runs' \in Seq(Frames) /\ sent' \in Nat
      <4>1. Append(runs, frame) \in Seq(Frames) /\ sent + 1 \in Nat
        BY <2>1
      <4>2. runs' = runs \/ runs' = Append(runs, frame)
        BY <3>2
      <4>3. sent' = sent \/ sent' = sent + 1 \/ sent' = 0
        BY <3>2
      <4>4. runs' \in Seq(Frames)
        BY <2>1, <4>1, <4>2, Zenon
      <4> QED BY <2>1, <4>1, <4>3, <4>4
    <3>5. faults' \in Nat /\ faults' # 0
      BY <2>1, <3>2
    <3>6. CASE UNCHANGED <<cur, prev, dirty>>
      <4>1. UNCHANGED <<area, alt, proc>> /\ pc \notin {"new", "hide", "wipe"}
        BY <2>16 DEF DrawCannotBegin, Drawing, tty
      <4>2. Shadowing' => Shadowing
        BY <3>6, <4>1 DEF Shadowing
      <4> QED BY <2>1, <2>3, <3>2, <3>4, <3>5, <3>6, <4>1, <4>2
    <3>7. CASE cur' = Fit(cur, size) /\ prev' = Fit(prev, size) /\ dirty' = TRUE
      <4>1. cur' \in [1..size -> Glyph] /\ prev' \in [1..size -> Glyph]
        BY <2>0, <2>1, <2>5, <3>1, <3>7
      <4>2. ~Shadowing'
        BY <3>7 DEF Shadowing
      <4> QED BY <2>0, <2>1, <2>7, <3>1, <3>2, <3>4, <3>5, <4>1, <4>2
    <3> QED BY <2>16, <3>6, <3>7 DEF DrawCannotBegin
  <2>17. CASE DrawWrite
    <3>1. /\ cells' = Shown(cur, Diff(prev, cur), n) /\ prev' = cur /\ cur' = Row(n)
          /\ UNCHANGED <<area, size, frame, faults, proc, alt, dirty>>
          /\ runs' \in {runs, Append(runs, frame)} /\ sent' \in {sent, sent + 1, 0}
          /\ pc = "write"
      BY <2>1, <2>17 DEF DrawWrite, AfterDraw, env
    <3>2. runs' \in Seq(Frames) /\ sent' \in Nat
      <4>1. Append(runs, frame) \in Seq(Frames) /\ sent + 1 \in Nat
        BY <2>1
      <4>2. runs' = runs \/ runs' = Append(runs, frame)
        BY <3>1
      <4>3. sent' = sent \/ sent' = sent + 1 \/ sent' = 0
        BY <3>1
      <4>4. runs' \in Seq(Frames)
        BY <2>1, <4>1, <4>2, Zenon
      <4> QED BY <2>1, <4>1, <4>3, <4>4
    <3>3. cells' \in [1..k -> Glyph \cup {Half}] /\ (Shadowing' => Matches(cells', prev'))
      BY <2>1, <2>2, <2>6, <3>1 DEF Shadowing
    <3>4. cur' \in [1..n -> Glyph] /\ prev' \in [1..n -> Glyph]
      BY <2>0, <2>1, <2>2, <2>4, <3>1
    <3> QED BY <2>0, <2>1, <2>2, <2>7, <3>1, <3>2, <3>3, <3>4
  <2>18. CASE DrawWriteFails
    <3>1. PICK last \in 0..n : cells' = Shown(cur, Diff(prev, cur), last)
      BY <2>1, <2>18 DEF DrawWriteFails
    <3>2. /\ \/ prev' = prev /\ cur' = cur
             \/ prev' = cur /\ cur' = Row(n)
          /\ faults' = faults + 1 /\ dirty' = TRUE
          /\ UNCHANGED <<area, size, frame>>
          /\ runs' \in {runs, Append(runs, frame)} /\ sent' \in {sent, sent + 1, 0}
      BY <2>1, <2>18 DEF DrawWriteFails, Fault, AfterDraw, env
    <3>3. runs' \in Seq(Frames) /\ sent' \in Nat
      <4>1. Append(runs, frame) \in Seq(Frames) /\ sent + 1 \in Nat
        BY <2>1
      <4>2. runs' = runs \/ runs' = Append(runs, frame)
        BY <3>2
      <4>3. sent' = sent \/ sent' = sent + 1 \/ sent' = 0
        BY <3>2
      <4>4. runs' \in Seq(Frames)
        BY <2>1, <4>1, <4>2, Zenon
      <4> QED BY <2>1, <4>1, <4>3, <4>4
    <3>4. cells' \in [1..k -> Glyph \cup {Half}]
      BY <2>1, <2>6, <3>1
    <3>5. cur' \in [1..n -> Glyph] /\ prev' \in [1..n -> Glyph]
      BY <2>0, <2>1, <2>2, <2>4, <3>2
    <3>6. faults' \in Nat /\ faults' # 0 /\ ~Shadowing'
      BY <2>1, <3>2 DEF Shadowing
    <3> QED BY <2>0, <2>1, <2>7, <3>2, <3>3, <3>4, <3>5, <3>6
  <2>19. CASE FlushDone \/ Log \/ PumpResize
    <3>1. <<>> \in Seq(Frames)
      OBVIOUS
    <3>2. CASE FlushDone
      BY <2>1, <2>3, <3>1, <3>2 DEF FlushDone, Shadowing, tty, term, env
    <3>3. CASE Log
      BY <2>1, <2>3, <3>3 DEF Log, Shadowing, tty, term, env, ui
    <3>4. CASE PumpResize
      BY <2>1, <2>3, <3>4 DEF PumpResize, Shadowing, tty, term, ui
    <3> QED BY <2>19, <3>2, <3>3, <3>4
  <2>20. CASE Resize
    <3>1. PICK m \in 1..MaxCols : size' = m /\ cells' = IF alt THEN Fit(cells, m) ELSE cells
      BY <2>20 DEF Resize
    <3>2. dirty' = TRUE /\ UNCHANGED <<area, cur, prev, frame, runs, sent, faults>>
      BY <2>20 DEF Resize, term, ui
    <3>3. m \in Nat /\ Fit(cells, m) \in [1..m -> Glyph \cup {Half}]
      <4>1. cells \in [1..k -> Glyph \cup {Half}]
        BY <2>0
      <4>2. m \in Nat /\ Blank \in Glyph \cup {Half}
        BY <1>0
      <4> QED BY <2>5, <4>1, <4>2
    <3>4. \E j \in Nat : cells' \in [1..j -> Glyph \cup {Half}]
      BY <2>0, <3>1, <3>3
    <3> QED BY <2>0, <2>1, <2>2, <2>7, <3>1, <3>2, <3>4 DEF Shadowing
  <2>21. CASE Signal \/ Trap
    <3>1. /\ cells' \in {cells, <<>>} /\ proc' # "run"
          /\ UNCHANGED <<area, cur, prev, size, frame, runs, sent, faults>>
      BY <2>21 DEF Signal, Trap, Die, EmergencyRestore, term, env, ui
    <3>2. \E j \in Nat : cells' \in [1..j -> Glyph \cup {Half}]
      <4>1. <<>> \in [1..0 -> Glyph \cup {Half}]
        OBVIOUS
      <4> QED BY <2>0, <3>1, <4>1
    <3> QED BY <2>0, <2>1, <2>2, <2>7, <3>1, <3>2 DEF Shadowing
  <2>22. CASE UNCHANGED vars
    BY <2>1, <2>3, <2>22 DEF vars, tty, term, env, ui, Shadowing
  <2> QED
    BY <1>2, <2>8, <2>9, <2>10, <2>11, <2>12, <2>13, <2>14, <2>15, <2>16, <2>17, <2>18,
       <2>19, <2>20, <2>21, <2>22 DEF Next, Take, Leave, Frame
<1>3. ShadowInv => ShadowMatchesScreen
  <2> SUFFICES ASSUME ShadowInv, pc \in Drawing \cup {"loop", "log"}, proc = "run", alt, ~dirty
               PROVE  /\ \A c \in DOMAIN prev \cap DOMAIN cells :
                           PassedOver(prev, c) \/ cells[c] = IF Covered(prev, c) THEN Half ELSE prev[c]
                      /\ faults = 0 => Len(prev) = area
    BY DEF ShadowMatchesScreen
  <2>1. Shadowing
    BY DEF Shadowing, Drawing
  <2>2. Len(prev) = Len(cur)
    BY <1>0 DEF ShadowInv, ScreenTypes
  <2>3. PICK k \in Nat, n \in 0..MaxCols :
          cells \in [1..k -> Glyph \cup {Half}] /\ prev \in [1..n -> Glyph]
    BY DEF ShadowInv, ScreenTypes
  <2>4. n \in Nat /\ Matches(cells, prev) /\ DOMAIN prev = 1..n /\ DOMAIN cells = 1..k
    BY <1>0, <2>1, <2>3 DEF ShadowInv
  <2>5. ASSUME NEW c \in DOMAIN prev \cap DOMAIN cells, ~PassedOver(prev, c)
        PROVE  cells[c] = IF Covered(prev, c) THEN Half ELSE prev[c]
    <3>1. c \in 1..n /\ c <= k
      BY <2>4
    <3>2. cells \in [1..k -> Glyph \cup {Half}] /\ prev \in [1..n -> Glyph]
      BY <2>3
    <3> QED BY <2>4, <2>5, <3>1, <3>2, HalvesFollow
  <2> QED BY <2>1, <2>2, <2>5 DEF ShadowInv
<1>4. ShadowInv /\ [Next]_vars => ShadowInv'
  BY <1>2
<1> QED BY <1>1, <1>3, <1>4, PTL DEF Spec

-----------------------------------------------------------------------------
(* The types, a group of variables at a time.                              *)

OwnerTypes == handle \in {"nil", "live"} /\ shared \in BOOLEAN /\ belowMin \in BOOLEAN

SizeTypes ==
  /\ size \in 1..MaxCols /\ known \in 1..MaxCols
  /\ resizes \in 0..MaxCols /\ winch \in BOOLEAN

TtyTypes ==
  /\ raw \in BOOLEAN /\ alt \in BOOLEAN /\ cursor \in {"shown", "hidden"}
  /\ prior \in {"none", "cooked"} /\ armed \in BOOLEAN

StepTypes ==
  /\ pc \in Drawing \cup Taking \cup Leaving \cup {"loop", "write", "log", "edit", "end"}
  /\ call \in {"init", "reinit", "resume", "below", "quit", "suspend"}
  /\ after \in Drawing /\ proc \in {"run", "exited", "killed", "trapped"}

FaultTypes == failed \in BOOLEAN /\ faults \in 0..MaxFaults /\ dirty \in BOOLEAN

(* The two buffers have the same length.                                   *)
CellTypes ==
  /\ area \in 0..MaxCols
  /\ \E k \in 0..MaxCols : cells \in [1..k -> Glyph \cup {Half}]
  /\ \E n \in 0..MaxCols : cur \in [1..n -> Glyph] /\ prev \in [1..n -> Glyph]

(* A run that is being drawn is one that was not sent.                     *)
RunTypes ==
  /\ frame \in Frames /\ runs \in Seq(Frames) /\ sent \in 0..Len(runs)
  /\ pc = "write" /\ after = "flush" => sent < Len(runs)

(* Only Arm, a teardown and the frames change who owns the terminal.       *)
LEMMA OwnerTypesStep ==
  ASSUME OwnerTypes, [Next]_vars
  PROVE  OwnerTypes'
<1>1. CASE Take
  BY <1>1 DEF OwnerTypes, Take, EnableRawMode, EnterAlternateScreen, NewTerminal, HideCursor,
     Wipe, Arm, owner
<1>2. CASE Leave
  BY <1>2 DEF OwnerTypes, Leave, ShowCursor, LeaveAlternateScreen, DisableRawMode,
     EditorDone, owner
<1>3. CASE Loop
  BY <1>3 DEF OwnerTypes, Loop, HandleResize, RenderBelowMinimum, RenderFrame, OpenEditor,
     Quit, LoopKeeps
<1>4. CASE Frame
  BY <1>4 DEF OwnerTypes, Frame, DrawBegin, DrawCannotBegin, DrawWrite, DrawWriteFails,
     FlushDone, Log, owner
<1>5. CASE Resize \/ PumpResize
  BY <1>5 DEF OwnerTypes, Resize, PumpResize, owner
<1>6. CASE Signal \/ Trap
  BY <1>6 DEF OwnerTypes, Signal, Trap, Die, EmergencyRestore, owner
<1>7. CASE UNCHANGED vars
  BY <1>7 DEF OwnerTypes, vars, owner
<1> QED
  BY <1>1, <1>2, <1>3, <1>4, <1>5, <1>6, <1>7 DEF Next

(* Sizes come from the terminal, over the pump, to the driver.             *)
LEMMA SizeTypesStep ==
  ASSUME SizeTypes, [Next]_vars
  PROVE  SizeTypes'
<1>0. MaxCols \in Nat /\ (\A n \in 1..MaxCols : n \in 0..MaxCols)
  BY TerminalAssumption
<1>1. CASE Take
  BY <1>0, <1>1 DEF SizeTypes, Take, EnableRawMode, EnterAlternateScreen, NewTerminal,
     HideCursor, Wipe, Arm, env, ui
<1>2. CASE Leave
  BY <1>0, <1>2 DEF SizeTypes, Leave, ShowCursor, LeaveAlternateScreen, DisableRawMode,
     EditorDone, env, ui
<1>3. CASE Loop
  BY <1>0, <1>3 DEF SizeTypes, Loop, HandleResize, RenderBelowMinimum, RenderFrame,
     OpenEditor, Quit, LoopKeeps
<1>4. CASE Frame
  BY <1>0, <1>4 DEF SizeTypes, Frame, DrawBegin, DrawCannotBegin, DrawWrite, DrawWriteFails,
     FlushDone, Log, env, ui
<1>5. CASE Resize \/ PumpResize
  BY <1>0, <1>5 DEF SizeTypes, Resize, PumpResize, env, ui
<1>6. CASE Signal \/ Trap
  BY <1>0, <1>6 DEF SizeTypes, Signal, Trap, Die, EmergencyRestore, env, ui
<1>7. CASE UNCHANGED vars
  BY <1>0, <1>7 DEF SizeTypes, vars, env, ui
<1> QED
  BY <1>1, <1>2, <1>3, <1>4, <1>5, <1>6, <1>7 DEF Next

LEMMA TtyTypesStep ==
  ASSUME TtyTypes, [Next]_vars
  PROVE  TtyTypes'
<1>1. CASE Take
  BY <1>1 DEF TtyTypes, Take, EnableRawMode, EnterAlternateScreen, NewTerminal, HideCursor,
     Wipe, Arm, tty
<1>2. CASE Leave
  BY <1>2 DEF TtyTypes, Leave, ShowCursor, LeaveAlternateScreen, DisableRawMode, EditorDone, tty
<1>3. CASE Loop
  BY <1>3 DEF TtyTypes, Loop, HandleResize, RenderBelowMinimum, RenderFrame, OpenEditor,
     Quit, LoopKeeps, tty
<1>4. CASE Frame
  BY <1>4 DEF TtyTypes, Frame, DrawBegin, DrawCannotBegin, DrawWrite, DrawWriteFails,
     FlushDone, Log, tty
<1>5. CASE Resize \/ PumpResize
  BY <1>5 DEF TtyTypes, Resize, PumpResize, tty
<1>6. CASE Signal \/ Trap
  BY <1>6 DEF TtyTypes, Signal, Trap, Die, EmergencyRestore
<1>7. CASE UNCHANGED vars
  BY <1>7 DEF TtyTypes, vars, tty
<1> QED
  BY <1>1, <1>2, <1>3, <1>4, <1>5, <1>6, <1>7 DEF Next

(* Every step leads to a step of the same call or of the next one.         *)
LEMMA StepTypesStep ==
  ASSUME StepTypes, [Next]_vars
  PROVE  StepTypes'
<1>1. CASE Take
  BY <1>1 DEF StepTypes, Take, EnableRawMode, EnterAlternateScreen, NewTerminal, HideCursor,
     Wipe, Arm, Throw, Exit,
     Taking, Drawing
<1>2. CASE Leave
  BY <1>2 DEF StepTypes, Leave, ShowCursor, LeaveAlternateScreen, DisableRawMode, EditorDone,
     Throw, Exit, Leaving, Taking
<1>3. CASE Loop
  BY <1>3 DEF StepTypes, Loop, HandleResize, RenderBelowMinimum, RenderFrame, OpenEditor,
     Quit, LoopKeeps, Drawing, Taking, Leaving
<1>4. CASE Frame
  BY <1>4 DEF StepTypes, Frame, DrawBegin, DrawCannotBegin, DrawWrite, DrawWriteFails,
     FlushDone, Log, AfterDraw, Drawing
<1>5. CASE Resize \/ PumpResize
  BY <1>5 DEF StepTypes, Resize, PumpResize
<1>6. CASE Signal \/ Trap
  BY <1>6 DEF StepTypes, Signal, Trap, Die, EmergencyRestore
<1>7. CASE UNCHANGED vars
  BY <1>7 DEF StepTypes, vars
<1> QED
  BY <1>1, <1>2, <1>3, <1>4, <1>5, <1>6, <1>7 DEF Next

LEMMA FaultTypesStep ==
  ASSUME FaultTypes, [Next]_vars
  PROVE  FaultTypes'
<1>0. ASSUME Fault PROVE faults' \in 0..MaxFaults
  BY <1>0, TerminalAssumption DEF FaultTypes, Fault
<1>1. CASE Take
  BY <1>0, <1>1 DEF FaultTypes, Take, EnableRawMode, EnterAlternateScreen, NewTerminal,
     HideCursor, Wipe, Arm, Throw, ui
<1>2. CASE Leave
  BY <1>0, <1>2 DEF FaultTypes, Leave, ShowCursor, LeaveAlternateScreen, DisableRawMode,
     EditorDone, Throw, ui
<1>3. CASE Loop
  BY <1>0, <1>3 DEF FaultTypes, Loop, HandleResize, RenderBelowMinimum, RenderFrame,
     OpenEditor, Quit, LoopKeeps
<1>4. CASE Frame
  BY <1>0, <1>4 DEF FaultTypes, Frame, DrawBegin, DrawCannotBegin, DrawWrite, DrawWriteFails,
     FlushDone, Log, AfterDraw, ui
<1>5. CASE Resize \/ PumpResize
  BY <1>0, <1>5 DEF FaultTypes, Resize, PumpResize, ui
<1>6. CASE Signal \/ Trap
  BY <1>0, <1>6 DEF FaultTypes, Signal, Trap, Die, EmergencyRestore, ui
<1>7. CASE UNCHANGED vars
  BY <1>0, <1>7 DEF FaultTypes, vars, ui
<1> QED
  BY <1>1, <1>2, <1>3, <1>4, <1>5, <1>6, <1>7 DEF Next

(* Runs are appended, and sent counts them up to the last or starts anew.  *)
LEMMA RunTypesStep ==
  ASSUME RunTypes, [Next]_vars
  PROVE  RunTypes'
<1>1. Len(runs) \in Nat /\ sent \in Nat
  BY DEF RunTypes
<1>2. ASSUME UNCHANGED <<runs, sent>>, frame' \in Frames, pc' # "write" \/ UNCHANGED <<pc, after>>
      PROVE  RunTypes'
  BY <1>2 DEF RunTypes
<1>3. ASSUME Throw PROVE pc' # "write"
  BY <1>3 DEF Throw, Exit
<1>4. ASSUME NEW step, NEW ok \in BOOLEAN, AfterDraw(step, ok), frame' = frame,
             step = "flush" => sent < Len(runs)
      PROVE  RunTypes'
  <2>1. Append(runs, frame) \in Seq(Frames) /\ Len(Append(runs, frame)) = Len(runs) + 1
    BY DEF RunTypes
  <2>2. pc' # "write"
    BY <1>4 DEF AfterDraw
  <2>3. CASE step = "flush"
    <3>1. runs' = runs /\ sent' = IF ok THEN sent + 1 ELSE 0
      BY <1>4, <2>3 DEF AfterDraw
    <3> QED BY <1>1, <1>4, <2>2, <2>3, <3>1 DEF RunTypes
  <2>4. CASE step # "flush"
    <3>1. sent' = sent /\ runs' \in {runs, Append(runs, frame)}
      BY <1>4, <2>4 DEF AfterDraw
    <3> QED BY <1>1, <1>4, <2>1, <2>2, <3>1 DEF RunTypes
  <2> QED BY <2>3, <2>4
<1>5. CASE Take
  BY <1>2, <1>3, <1>5 DEF RunTypes, Take, EnableRawMode, EnterAlternateScreen, NewTerminal,
     HideCursor, Wipe, Arm, ui
<1>6. CASE Leave
  BY <1>2, <1>3, <1>6 DEF RunTypes, Leave, ShowCursor, LeaveAlternateScreen, DisableRawMode,
     EditorDone, Exit, ui
<1>7. CASE Loop
  BY <1>2, <1>7 DEF RunTypes, Loop, HandleResize, RenderBelowMinimum, RenderFrame,
     OpenEditor, Quit, LoopKeeps
<1>8. CASE DrawBegin
  BY <1>8 DEF RunTypes, DrawBegin, ui
<1>9. CASE DrawCannotBegin
  BY <1>4, <1>9 DEF DrawCannotBegin
<1>10. CASE DrawWrite
  BY <1>4, <1>10 DEF RunTypes, DrawWrite
<1>11. CASE DrawWriteFails
  BY <1>4, <1>11 DEF RunTypes, DrawWriteFails
<1>12. CASE FlushDone
  BY <1>12 DEF RunTypes, FlushDone
<1>13. CASE Log \/ Resize \/ PumpResize \/ Signal \/ Trap
  BY <1>2, <1>13 DEF RunTypes, Log, Resize, PumpResize, Signal, Trap, Die, ui
<1>14. CASE UNCHANGED vars
  BY <1>2, <1>14 DEF RunTypes, vars, ui
<1> QED
  BY <1>5, <1>6, <1>7, <1>8, <1>9, <1>10, <1>11, <1>12, <1>13, <1>14 DEF Next, Frame

(* What a draw renders fits the buffer it is given.                        *)
LEMMA RenderedTypes ==
  ASSUME RunTypes, known \in 1..MaxCols, NEW step \in Drawing, NEW m \in 0..MaxCols,
         NEW b \in [1..m -> Glyph], step = "flush" => sent < Len(runs)
  PROVE  Rendered(step, b) \in [1..m -> Glyph]
<1>1. Blank \in Glyph /\ MaxCols \in Nat /\ DOMAIN b = 1..m
  BY TerminalAssumption DEF Glyph
<1>2. CASE step = "begin"
  BY <1>1, <1>2 DEF Rendered
<1>3. CASE step = "para"
  <2>1. \A c \in 1..m : frame.text[c] \in Glyph
    BY <1>1, TerminalAssumption DEF RunTypes
  <2> QED BY <1>1, <1>3, <2>1 DEF Rendered
<1>4. CASE step = "flush"
  <2>1. runs[sent + 1] \in Frames
    BY <1>4 DEF RunTypes
  <2>2. runs[sent + 1].run \in Seq(Glyph)
    BY <2>1, TerminalAssumption
  <2>3. \A i \in DOMAIN runs[sent + 1].run : runs[sent + 1].run[i] \in Glyph
    BY <2>2
  <2> QED BY <1>1, <1>4, <2>3 DEF Rendered
<1>5. CASE step = "commit"
  BY <1>5 DEF Rendered
<1> QED BY <1>2, <1>3, <1>4, <1>5 DEF Drawing

(* Whatever happens, the two buffers stay of one length.                   *)
LEMMA CellTypesStep ==
  ASSUME CellTypes, RunTypes, size \in 1..MaxCols, known \in 1..MaxCols, [Next]_vars
  PROVE  CellTypes'
<1>0. /\ MaxCols \in Nat /\ size \in Nat /\ size \in 0..MaxCols /\ 0 \in 0..MaxCols
      /\ Blank \in Glyph /\ Blank \in Glyph \cup {Half}
  BY TerminalAssumption DEF Glyph
<1>1. PICK k \in 0..MaxCols, n \in 0..MaxCols :
        /\ cells \in [1..k -> Glyph \cup {Half}]
        /\ cur \in [1..n -> Glyph] /\ prev \in [1..n -> Glyph]
  BY DEF CellTypes
<1>2. Len(cur) = n /\ Len(prev) = n /\ n \in Nat /\ k \in Nat /\ area \in 0..MaxCols
  BY <1>0, <1>1 DEF CellTypes
<1>3. ASSUME NEW k2 \in 0..MaxCols, cells' \in [1..k2 -> Glyph \cup {Half}],
             NEW n2 \in 0..MaxCols, cur' \in [1..n2 -> Glyph], prev' \in [1..n2 -> Glyph],
             area' \in 0..MaxCols
      PROVE  CellTypes'
  BY <1>3 DEF CellTypes
<1>4. ASSUME NEW m \in Nat
      PROVE  Row(m) \in [1..m -> Glyph] /\ Row(m) \in [1..m -> Glyph \cup {Half}]
  BY <1>0 DEF Row
<1>5. ASSUME NEW m \in Nat, NEW G, Blank \in G, NEW j \in Nat, NEW b \in [1..j -> G]
      PROVE  Fit(b, m) \in [1..m -> G]
  <2>1. Len(b) = j
    OBVIOUS
  <2> QED BY <1>5, <2>1 DEF Fit
<1>6. <<>> \in [1..0 -> Glyph \cup {Half}]
  OBVIOUS
<1>7. ASSUME NEW last \in Nat, last <= n
      PROVE  Shown(cur, Diff(prev, cur), last) \in [1..k -> Glyph \cup {Half}]
  <2>1. cells \in [1..k -> Glyph \cup {Half}]
    BY <1>1
  <2>2. cur \in [1..n -> Glyph]
    BY <1>1
  <2>3. prev \in [1..n -> Glyph]
    BY <1>1
  <2> QED BY <1>2, <1>7, <2>1, <2>2, <2>3, DrawIsRight
(* The steps that leave the buffers alone.                                 *)
<1>8. ASSUME UNCHANGED <<area, cur, prev>>,
             cells' \in {cells, <<>>} \/ cells' = Row(size)
      PROVE  CellTypes'
  <2>1. CASE cells' = cells
    BY <1>1, <1>2, <1>3, <1>8, <2>1
  <2>2. CASE cells' = <<>>
    BY <1>0, <1>1, <1>2, <1>3, <1>6, <1>8, <2>2
  <2>3. CASE cells' = Row(size)
    <3>1. cells' \in [1..size -> Glyph \cup {Half}]
      BY <1>0, <1>4, <2>3
    <3> QED BY <1>0, <1>1, <1>2, <1>3, <1>8, <3>1
  <2> QED BY <1>8, <2>1, <2>2, <2>3
<1>9. CASE EnableRawMode \/ EnterAlternateScreen \/ HideCursor \/ Arm
  BY <1>8, <1>9 DEF EnableRawMode, EnterAlternateScreen, HideCursor, Arm, tty, term
<1>10. CASE NewTerminal
  <2>1. CASE UNCHANGED term
    <3>1. UNCHANGED <<area, cur, prev>>
      BY <2>1 DEF term
    <3>2. cells' \in {cells, <<>>}
      BY <1>10 DEF NewTerminal
    <3> QED BY <1>8, <3>1, <3>2
  <2>2. CASE area' = size /\ cur' = Row(size) /\ prev' = Row(size) /\ cells' = cells
    <3>1. cur' \in [1..size -> Glyph] /\ prev' \in [1..size -> Glyph]
      BY <1>0, <1>4, <2>2
    <3> QED BY <1>0, <1>1, <1>3, <2>2, <3>1
  <2> QED BY <1>10, <2>1, <2>2 DEF NewTerminal
<1>11. CASE Wipe
  <2>1. CASE UNCHANGED <<cells, prev>>
    BY <1>8, <1>11, <2>1 DEF Wipe
  <2>2. CASE cells' = Row(size) /\ prev' = Row(n)
    <3>1. cells' \in [1..size -> Glyph \cup {Half}] /\ prev' \in [1..n -> Glyph]
      BY <1>0, <1>2, <1>4, <2>2
    <3>2. cur' = cur /\ area' = area
      BY <1>11 DEF Wipe
    <3> QED BY <1>0, <1>1, <1>2, <1>3, <3>1, <3>2
  <2> QED BY <1>2, <1>11, <2>1, <2>2 DEF Wipe
<1>12. CASE Leave
  BY <1>8, <1>12 DEF Leave, ShowCursor, LeaveAlternateScreen, DisableRawMode, EditorDone,
     tty, term
<1>13. CASE Loop
  BY <1>8, <1>13 DEF Loop, HandleResize, RenderBelowMinimum, RenderFrame, OpenEditor, Quit,
     LoopKeeps, tty, term
<1>14. CASE DrawBegin
  <2> DEFINE m == IF area = size THEN n ELSE size
  <2>1. m \in 0..MaxCols
    BY <1>0
  <2>2. Canvas \in [1..m -> Glyph]
    <3>1. cur \in [1..n -> Glyph]
      BY <1>1
    <3>2. Fit(cur, size) \in [1..size -> Glyph]
      BY <1>0, <1>2, <1>5, <3>1
    <3> QED BY <3>1, <3>2 DEF Canvas
  <2>3. cur' \in [1..m -> Glyph]
    <3> DEFINE b == Canvas
    <3>1. b \in [1..m -> Glyph]
      BY <2>2
    <3>2. cur' = Rendered(pc, b) /\ pc \in Drawing /\ (pc = "flush" => sent < Len(runs))
      BY <1>14 DEF DrawBegin
    <3> HIDE DEF b, m
    <3> QED BY <2>1, <3>1, <3>2, RenderedTypes
  <2>4. area' = size
    BY <1>14 DEF DrawBegin
  <2>5. CASE area = size /\ prev' = prev /\ cells' = cells
    BY <1>0, <1>1, <1>3, <2>3, <2>4, <2>5
  <2>6. CASE area # size /\ prev' = Row(size) /\ cells' \in {cells, Row(size)}
    <3>1. prev' \in [1..size -> Glyph] /\ cur' \in [1..size -> Glyph]
      BY <1>0, <1>4, <2>3, <2>6
    <3>2. \E j \in 0..MaxCols : cells' \in [1..j -> Glyph \cup {Half}]
      BY <1>0, <1>1, <1>4, <2>6
    <3> QED BY <1>0, <1>3, <2>4, <3>1, <3>2
  <2> QED BY <1>14, <2>5, <2>6 DEF DrawBegin
<1>15. CASE DrawCannotBegin
  <2>1. /\ UNCHANGED <<cells, area>>
        /\ \/ UNCHANGED <<cur, prev>>
           \/ cur' = Fit(cur, size) /\ prev' = Fit(prev, size)
    BY <1>15 DEF DrawCannotBegin, tty
  <2>2. cur \in [1..n -> Glyph]
    BY <1>1
  <2>3. prev \in [1..n -> Glyph]
    BY <1>1
  <2>4. \E j \in 0..MaxCols : cur' \in [1..j -> Glyph] /\ prev' \in [1..j -> Glyph]
    BY <1>0, <1>2, <1>5, <2>1, <2>2, <2>3
  <2> QED BY <1>0, <1>1, <1>2, <1>3, <2>1, <2>4
<1>16. CASE DrawWrite \/ DrawWriteFails
  <2>1. area' = area /\ \E last \in 0..n : cells' = Shown(cur, Diff(prev, cur), last)
    <3>1. CASE DrawWrite
      <4>1. cells' = Shown(cur, Diff(prev, cur), n) /\ area' = area /\ n \in 0..n
        BY <1>2, <3>1 DEF DrawWrite
      <4> QED BY <4>1
    <3>2. CASE DrawWriteFails
      BY <1>2, <3>2 DEF DrawWriteFails
    <3> QED BY <1>16, <3>1, <3>2
  <2>2. cells' \in [1..k -> Glyph \cup {Half}]
    BY <1>2, <1>7, <2>1
  <2>3. prev' \in {prev, cur} /\ cur' \in {cur, Row(n)}
    BY <1>2, <1>16 DEF DrawWrite, DrawWriteFails
  <2>4. prev' \in [1..n -> Glyph] /\ cur' \in [1..n -> Glyph]
    BY <1>1, <1>2, <1>4, <2>3
  <2> QED BY <1>2, <1>3, <2>1, <2>2, <2>4
<1>17. CASE FlushDone \/ Log \/ PumpResize \/ UNCHANGED vars
  BY <1>8, <1>17 DEF FlushDone, Log, PumpResize, vars, tty, term
<1>18. CASE Resize
  <2>1. PICK m \in 1..MaxCols : cells' = IF alt THEN Fit(cells, m) ELSE cells
    BY <1>18 DEF Resize
  <2>2. UNCHANGED <<area, cur, prev>>
    BY <1>18 DEF Resize, term
  <2>3. cells \in [1..k -> Glyph \cup {Half}]
    BY <1>1
  <2>4. m \in 0..MaxCols /\ m \in Nat
    BY <1>0
  <2>5. Blank \in Glyph \cup {Half}
    BY <1>0
  <2>6. Fit(cells, m) \in [1..m -> Glyph \cup {Half}]
    BY <1>2, <1>5, <2>3, <2>4, <2>5
  <2> QED BY <1>1, <1>2, <1>3, <2>1, <2>2, <2>4, <2>6
<1>19. CASE Signal \/ Trap
  BY <1>8, <1>19 DEF Signal, Trap, Die, EmergencyRestore, term
<1> QED
  BY <1>9, <1>10, <1>11, <1>12, <1>13, <1>14, <1>15, <1>16, <1>17, <1>18, <1>19
     DEF Next, Take, Frame

(* All of it; no part needs the modes' invariant above.                    *)
TypesInv ==
  OwnerTypes /\ SizeTypes /\ TtyTypes /\ StepTypes /\ FaultTypes /\ CellTypes /\ RunTypes

(* The state has the types TypeOK gives it.  The two buffers always have   *)
(* one length, at most the largest size, and rffi_flush indexes the runs   *)
(* within their number, also after a draw of one of them failed.           *)
THEOREM ScreenTypesAreKept == Spec => []TypeOK
<1>1. Init => TypesInv
  <2> SUFFICES ASSUME Init PROVE TypesInv
    OBVIOUS
  <2>1. MaxCols \in Nat /\ MinCols \in 1..MaxCols /\ MaxFaults \in Nat
    BY TerminalAssumption
  <2>2. OwnerTypes /\ TtyTypes
    BY DEF Init, OwnerTypes, TtyTypes
  <2>3. SizeTypes /\ FaultTypes
    <3>1. 0 \in 0..MaxCols /\ 0 \in 0..MaxFaults
      BY <2>1
    <3>2. SizeTypes
      BY <2>1, <3>1 DEF Init, SizeTypes
    <3>3. FaultTypes
      BY <3>1 DEF Init, FaultTypes
    <3> QED BY <3>2, <3>3
  <2>4. StepTypes
    BY DEF Init, StepTypes, Drawing, Taking
  <2>5. CellTypes
    <3>1. 0 \in 0..MaxCols /\ area = 0
      BY <2>1 DEF Init
    <3>2. /\ cells \in [1..0 -> Glyph \cup {Half}] /\ cur \in [1..0 -> Glyph]
         /\ prev \in [1..0 -> Glyph]
      BY DEF Init
    <3> QED BY <3>1, <3>2 DEF CellTypes
  <2>6. RunTypes
    BY DEF Init, RunTypes
  <2> QED BY <2>2, <2>3, <2>4, <2>5, <2>6 DEF TypesInv
<1>2. TypesInv /\ [Next]_vars => TypesInv'
  <2> SUFFICES ASSUME TypesInv, [Next]_vars PROVE TypesInv'
    OBVIOUS
  <2>1. OwnerTypes' /\ SizeTypes' /\ TtyTypes' /\ StepTypes' /\ FaultTypes' /\ RunTypes'
    BY OwnerTypesStep, SizeTypesStep, TtyTypesStep, StepTypesStep, FaultTypesStep,
       RunTypesStep DEF TypesInv
  <2>2. CellTypes'
    BY CellTypesStep DEF TypesInv, SizeTypes
  <2> QED BY <2>1, <2>2 DEF TypesInv
<1>3. TypesInv => TypeOK
  <2> SUFFICES ASSUME TypesInv PROVE TypeOK
    OBVIOUS
  <2>1. /\ cells \in UNION {[1..n -> Glyph \cup {Half}] : n \in 0..MaxCols}
        /\ area \in 0..MaxCols /\ cur \in Rows /\ prev \in Rows
    BY DEF TypesInv, CellTypes, Rows
  <2>2. frame \in Frames /\ runs \in Seq(Frames) /\ sent \in 0..Len(runs)
    BY DEF TypesInv, RunTypes
  <2> QED
    BY <2>1, <2>2 DEF TypesInv, TypeOK, OwnerTypes, SizeTypes, TtyTypes, StepTypes, FaultTypes
<1> QED
  BY <1>1, <1>2, <1>3, PTL DEF Spec
===============================================================================
