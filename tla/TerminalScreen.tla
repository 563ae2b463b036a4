---------------------------- MODULE TerminalScreen ----------------------------
(***************************************************************************)
(* The terminal between the Renderer and the tty: the shim's calls that    *)
(* take the terminal and give it back (ratatui-ffi/src/terminal.rs), the   *)
(* frame that CommandInterpreter drives through RatatuiKitBackend, and the *)
(* double-buffered Terminal::draw that every one of its calls is.          *)
(*                                                                         *)
(* One row stands for the screen: what is hard (wide glyphs, a size that   *)
(* changes under a draw) is inside a row. The code's diff runs over all    *)
(* rows in one go, so that a wide glyph in a last column is taken to cover *)
(* the next row's first cell; this is left out. A cell's glyph stands for  *)
(* its symbol and its style. A step is one call that touches the tty, so   *)
(* that a signal, a resize or a failure can come between any two.          *)
(***************************************************************************)
EXTENDS Integers, Sequences

CONSTANTS MaxCols,    \* bound on the width of the terminal
          MinCols,    \* the minimum size, which is also AppDriver's first guess
          Narrow, Wide, Blank, \* glyphs of one and of two columns, the space
          Half,       \* the second column of a wide glyph, on the screen only
          Frames,     \* what a frame shows: a paragraph and a run of cells
          MaxFaults   \* bound on the tty calls that fail

Glyph == Narrow \cup Wide \cup {Blank}

ASSUME TerminalAssumption ==
  /\ MaxCols \in Nat /\ MinCols \in 1..MaxCols /\ MaxFaults \in Nat
  /\ Narrow \cap Wide = {} /\ Blank \notin Wide /\ Half \notin Glyph
  /\ \A f \in Frames : /\ f.text \in [1..MaxCols -> Glyph]
                       /\ f.col \in 1..MaxCols /\ f.run \in Seq(Glyph)

VARIABLES
  size, raw, alt, cursor, cells, \* the tty: its modes, its alternate screen
  prior,      \* TERMINAL_MODE_PRIOR_RAW_MODE: the mode raw mode replaced
  armed,      \* INITIALIZED: emergency restore may act
  area, cur, prev, \* Terminal: last_known_area and its two buffers
  handle,     \* the backend's Terminal has its Rust half
  shared,     \* ... and is the one LiveTerminalSuspender was given
  belowMin,   \* CommandInterpreter.isBelowMinimum
  known,      \* AppDriver.currentSize
  resizes,    \* the resize event in the channel (0 is none) ...
  winch,      \* ... and a SIGWINCH the pump has not read
  frame, runs, sent, \* the frame being rendered; CellBuffer.runs, those written
  failed,     \* the frame's firstError is set
  pc, call, after, \* the UI thread: its step, the call it is in, the draw
  proc,       \* the process runs, has exited, was killed or has trapped
  faults,     \* tty calls that failed so far
  dirty       \* since the last clear, a resize or a failed write hit the screen

tty   == <<raw, alt, cursor, cells>>
term  == <<area, cur, prev>>
owner == <<handle, shared, belowMin>>
env   == <<size, resizes, winch>>
ui    == <<known, frame, runs, sent, failed>>
vars  == <<tty, prior, armed, term, owner, env, ui, pc, call, after, proc, faults, dirty>>

Row(n)   == [c \in 1..n |-> Blank]
Rows     == UNION {[1..n -> Glyph] : n \in 0..MaxCols}
Fit(b, n) == [c \in 1..n |-> IF c <= Len(b) THEN b[c] ELSE Blank]

Drawing == {"begin", "para", "flush", "commit"}
Taking  == {"raw", "alt", "new", "hide", "wipe", "arm"}
Leaving == {"show", "leave", "cook"}

TypeOK ==
  /\ size \in 1..MaxCols /\ raw \in BOOLEAN /\ alt \in BOOLEAN
  /\ cursor \in {"shown", "hidden"}
  /\ cells \in UNION {[1..n -> Glyph \cup {Half}] : n \in 0..MaxCols}
  /\ prior \in {"none", "cooked"} /\ armed \in BOOLEAN
  /\ area \in 0..MaxCols /\ cur \in Rows /\ prev \in Rows
  /\ handle \in {"nil", "live"} /\ shared \in BOOLEAN /\ belowMin \in BOOLEAN
  /\ known \in 1..MaxCols /\ resizes \in 0..MaxCols /\ winch \in BOOLEAN
  /\ frame \in Frames /\ runs \in Seq(Frames)
  /\ sent \in 0..Len(runs) /\ failed \in BOOLEAN
  /\ pc \in Drawing \cup Taking \cup Leaving \cup {"loop", "write", "log", "edit", "end"}
  /\ call \in {"init", "reinit", "resume", "below", "quit", "suspend"}
  /\ after \in Drawing
  /\ proc \in {"run", "exited", "killed", "trapped"}
  /\ faults \in 0..MaxFaults /\ dirty \in BOOLEAN

(* Main.run: the crash handlers are installed, Terminal() is next.         *)
Init ==
  /\ size \in 1..MaxCols /\ raw = FALSE /\ alt = FALSE /\ cursor = "shown"
  /\ cells = <<>> /\ prior = "none" /\ armed = FALSE
  /\ area = 0 /\ cur = <<>> /\ prev = <<>>
  /\ handle = "nil" /\ shared = TRUE /\ belowMin = FALSE
  /\ known = MinCols /\ resizes = 0 /\ winch = FALSE
  /\ frame \in Frames /\ runs = <<>> /\ sent = 0 /\ failed = FALSE
  /\ pc = "raw" /\ call = "init" /\ after = "begin"
  /\ proc = "run" /\ faults = 0 /\ dirty = FALSE

-----------------------------------------------------------------------------
(* Buffer::diff and the terminal that reads its updates.                   *)

(* The column shows the second half of a wide glyph, whatever it holds.    *)
Covered(b, c) == c > 1 /\ b[c - 1] \in Wide

(* Mutant: no column is invalidated by the wide glyph it replaces.         *)
Diff_NoInvalidated(old, new) ==
  {c \in DOMAIN new : new[c] # old[c] /\ ~Covered(new, c)}

(* The columns to write: the changed ones, and those that a wide glyph     *)
(* before them invalidated, but for those a new wide glyph covers.         *)
Diff(old, new) ==
  {c \in DOMAIN new : /\ new[c] # old[c] \/ Covered(old, c)
                      /\ ~Covered(new, c)}

(* A terminal prints g at c: a wide glyph takes two columns, and writing   *)
(* over one half of a wide glyph blanks the other.                         *)
Put(s, c, g) ==
  [x \in DOMAIN s |->
     IF x = c THEN g
     ELSE IF x = c + 1 /\ g \in Wide THEN Half
     ELSE IF \/ x + 1 = c /\ s[c] = Half
             \/ x = c + 1 /\ s[c] \in Wide
             \/ x = c + 2 /\ g \in Wide /\ s[c + 1] \in Wide THEN Blank
     ELSE s[x]]

(* The updates in columns up to last reach the screen, left to right.      *)
Shown(new, updates, last) ==
  LET upTo[c \in 0..last] ==
        IF c = 0 THEN cells
        ELSE IF c \in updates /\ c <= Len(cells) THEN Put(upTo[c - 1], c, new[c])
        ELSE upTo[c - 1]
  IN upTo[last]

(* The buffer a draw starts from: autoresize compares the size with the    *)
(* last known area, not with the buffers.                                  *)
Canvas == IF area = size THEN cur ELSE Fit(cur, size)

(* What each call of a frame puts into the buffer: Clear over the size the *)
(* driver knows, the paragraph's glyphs that fit that size, one run of     *)
(* cells clipped to the buffer, and for rffi_flush nothing.                *)
Fits(c) == /\ c <= known /\ ~Covered(frame.text, c)
           /\ frame.text[c] \in Wide => c < known

Rendered(step, b) ==
  CASE step = "begin"  -> [c \in DOMAIN b |-> IF c <= known THEN Blank ELSE b[c]]
    [] step = "para"   -> [c \in DOMAIN b |-> IF Fits(c) THEN frame.text[c] ELSE b[c]]
    [] step = "flush"  -> LET r == runs[sent + 1] IN
                          [c \in DOMAIN b |-> IF c - r.col + 1 \in DOMAIN r.run
                                              THEN r.run[c - r.col + 1] ELSE b[c]]
    [] step = "commit" -> b

(* A widget indexes the buffer outside its area: Index for Buffer panics.  *)
OutOfBounds(step, b) ==
  \/ step = "begin" /\ known > Len(b)
  \/ step = "para" /\ \E c \in 1..known : Fits(c) /\ c > Len(b)

-----------------------------------------------------------------------------
(* Failures.  A tty call may fail as long as MaxFaults allows; what an     *)
(* error path calls to undo what was done is taken to work.                *)

Fault == faults < MaxFaults /\ faults' = faults + 1

(* Mutant: the cursor is left as it is.                                    *)
EmergencyRestore_KeepsCursor ==
  /\ raw' = (IF armed THEN FALSE ELSE raw)
  /\ alt' = (IF armed THEN FALSE ELSE alt)
  /\ cells' = (IF armed THEN <<>> ELSE cells)
  /\ UNCHANGED cursor

(* The signal handlers and the traps end in rffi_emergency_restore.        *)
EmergencyRestore ==
  /\ raw' = (IF armed THEN FALSE ELSE raw)
  /\ alt' = (IF armed THEN FALSE ELSE alt)
  /\ cursor' = (IF armed THEN "shown" ELSE cursor)
  /\ cells' = (IF armed THEN <<>> ELSE cells)

Die(how) ==
  /\ EmergencyRestore
  /\ proc' = how /\ pc' = "end"
  /\ UNCHANGED <<prior, armed, term, owner, env, ui, call, after, faults, dirty>>

(* SIGTERM or SIGHUP, between any two steps of the UI thread.              *)
Signal == proc = "run" /\ Die("killed")

(* A precondition on a torn-down Terminal, or a panic (which aborts).      *)
Trap ==
  /\ proc = "run"
  /\ \/ pc \in Drawing /\ (handle = "nil" \/ OutOfBounds(pc, Canvas))
     \/ pc = "show" /\ (handle = "nil" \/ (call = "suspend" /\ ~shared))
  /\ Die("trapped")

Exit == proc' = "exited" /\ pc' = "end"

(* Where a call that takes or leaves the terminal goes when it throws.     *)
Throw ==
  /\ \/ call \in {"init", "quit"} /\ Exit
     \/ call \in {"reinit", "below"} /\ pc' = "log" /\ proc' = proc
     \/ call \in {"resume", "suspend"} /\ pc' = "loop" /\ proc' = proc
  /\ failed' = (failed \/ call \in {"reinit", "below"})

-----------------------------------------------------------------------------
(* Taking the terminal: rffi_terminal_init for the launch and for the end  *)
(* of a below-minimum episode, rffi_terminal_resume after the editor.      *)

(* Both raw-mode calls do nothing if crossterm remembers that they need    *)
(* not.                                                                    *)
EnableRawMode ==
  /\ pc = "raw" /\ proc = "run"
  /\ \/ /\ raw' = TRUE /\ prior' = "cooked"
        /\ pc' = "alt" /\ UNCHANGED <<failed, proc, faults>>
     \/ prior = "none" /\ Fault /\ Throw /\ UNCHANGED <<raw, prior>>
  /\ UNCHANGED <<alt, cursor, cells, armed, term, owner, env,
                 known, frame, runs, sent, call, after, dirty>>

(* Mutant: a failure leaves raw mode on.                                   *)
EnterAlternateScreen_KeepsRaw ==
  /\ pc = "alt" /\ proc = "run"
  /\ \/ /\ alt' = TRUE /\ cells' = Row(size)
        /\ pc' = IF call = "resume" THEN "hide" ELSE "new"
        /\ UNCHANGED <<failed, proc, faults>>
     \/ Fault /\ Throw /\ UNCHANGED <<alt, cells>>
  /\ UNCHANGED <<raw, prior, cursor, armed, term, owner, env, known, frame, runs,
                 sent, call, after, dirty>>

(* The alternate screen starts blank; a failure puts raw mode back.        *)
EnterAlternateScreen ==
  /\ pc = "alt" /\ proc = "run"
  /\ \/ /\ alt' = TRUE /\ cells' = Row(size)
        /\ pc' = IF call = "resume" THEN "hide" ELSE "new"
        /\ UNCHANGED <<raw, prior, failed, proc, faults>>
     \/ /\ Fault /\ Throw
        /\ raw' = FALSE /\ prior' = "none" /\ UNCHANGED <<alt, cells>>
  /\ UNCHANGED <<cursor, armed, term, owner, env, known, frame, runs, sent,
                 call, after, dirty>>

(* Terminal::new asks for the size and makes two blank buffers of it.      *)
NewTerminal ==
  /\ pc = "new" /\ proc = "run"
  /\ \/ /\ area' = size /\ cur' = Row(size) /\ prev' = Row(size)
        /\ pc' = "hide" /\ UNCHANGED <<raw, prior, alt, cells, failed, proc, faults>>
     \/ /\ Fault /\ Throw /\ UNCHANGED term
        /\ raw' = FALSE /\ prior' = "none" /\ alt' = FALSE /\ cells' = <<>>
  /\ UNCHANGED <<cursor, armed, owner, env, known, frame, runs, sent,
                 call, after, dirty>>

HideCursor ==
  /\ pc = "hide" /\ proc = "run"
  /\ \/ cursor' = "hidden" /\ UNCHANGED faults
     \/ Fault /\ UNCHANGED cursor
  /\ pc' = "wipe"
  /\ UNCHANGED <<raw, alt, cells, prior, armed, term, owner, env, ui,
                 call, after, proc, dirty>>

(* Terminal::clear.  Neither caller cares whether it worked.               *)
Wipe ==
  /\ pc = "wipe" /\ proc = "run"
  /\ \/ /\ cells' = Row(size) /\ prev' = Row(Len(prev)) /\ dirty' = FALSE
        /\ UNCHANGED faults
     \/ Fault /\ dirty' = TRUE /\ UNCHANGED <<cells, prev>>
  /\ pc' = IF call = "resume" THEN "loop" ELSE "arm"
  /\ UNCHANGED <<raw, alt, cursor, prior, armed, area, cur, owner, env, ui,
                 call, after, proc>>

(* INITIALIZED.store; Swift has the handle and the driver goes on.         *)
Arm ==
  /\ pc = "arm" /\ proc = "run"
  /\ armed' = TRUE /\ handle' = "live" /\ shared' = (call = "init")
  /\ pc' = IF call = "init" THEN "loop" ELSE "begin"
  /\ UNCHANGED <<tty, prior, term, belowMin, env, ui, call, after, proc, faults, dirty>>

-----------------------------------------------------------------------------
(* Leaving it: rffi_terminal_teardown below the minimum size and at the    *)
(* end, rffi_terminal_suspend for the editor.                              *)

(* The Swift Terminal forgets a torn-down handle before it calls the shim. *)
ShowCursor ==
  /\ pc = "show" /\ proc = "run"
  /\ handle = "live" /\ (call = "suspend" => shared)
  /\ handle' = IF call = "suspend" THEN handle ELSE "nil"
  /\ \/ cursor' = "shown" /\ UNCHANGED faults
     \/ Fault /\ UNCHANGED cursor
  /\ pc' = "leave"
  /\ UNCHANGED <<raw, alt, cells, prior, armed, term, shared, belowMin, env, ui,
                 call, after, proc, dirty>>

(* Mutant: the error of leaving the alternate screen is dropped.           *)
LeaveAlternateScreen_Goes ==
  /\ pc = "leave" /\ proc = "run"
  /\ \/ alt' = FALSE /\ cells' = <<>> /\ UNCHANGED faults
     \/ Fault /\ UNCHANGED <<alt, cells>>
  /\ pc' = "cook"
  /\ UNCHANGED <<raw, cursor, prior, armed, term, owner, env, ui,
                 call, after, proc, dirty>>

LeaveAlternateScreen ==
  /\ pc = "leave" /\ proc = "run"
  /\ \/ /\ alt' = FALSE /\ cells' = <<>> /\ pc' = "cook"
        /\ UNCHANGED <<failed, proc, faults>>
     \/ Fault /\ Throw /\ UNCHANGED <<alt, cells>>
  /\ UNCHANGED <<raw, cursor, prior, armed, term, owner, env,
                 known, frame, runs, sent, call, after, dirty>>

(* disable_raw_mode, and for a teardown the Drop that shows a cursor which *)
(* could not be shown before.                                              *)
DisableRawMode ==
  /\ pc = "cook" /\ proc = "run"
  /\ \/ /\ raw' = FALSE /\ prior' = "none"
        /\ cursor' = IF call = "suspend" THEN cursor ELSE "shown"
        /\ \/ call = "below"   /\ pc' = "loop" /\ proc' = proc
           \/ call = "suspend" /\ pc' = "edit" /\ proc' = proc
           \/ call = "quit"    /\ Exit
        /\ UNCHANGED <<failed, faults>>
     \/ prior = "cooked" /\ Fault /\ Throw /\ UNCHANGED <<raw, prior, cursor>>
  /\ UNCHANGED <<alt, cells, armed, term, owner, env,
                 known, frame, runs, sent, call, after, dirty>>

EditorDone ==
  /\ pc = "edit" /\ proc = "run"
  /\ pc' = "raw" /\ call' = "resume"
  /\ UNCHANGED <<tty, prior, armed, term, owner, env, ui, after, proc, faults, dirty>>

-----------------------------------------------------------------------------
(* The driver's loop: a resize event, a frame, the editor, the end.        *)

LoopKeeps == UNCHANGED <<tty, prior, armed, term, handle, shared, size, winch,
                         runs, sent, after, proc, faults, dirty>>

HandleResize ==
  /\ pc = "loop" /\ proc = "run" /\ resizes # 0
  /\ known' = resizes /\ resizes' = 0
  /\ UNCHANGED <<belowMin, frame, failed, pc, call>> /\ LoopKeeps

(* renderNow below the minimum size: leave once, with the prompt.          *)
RenderBelowMinimum ==
  /\ pc = "loop" /\ proc = "run" /\ known < MinCols /\ ~belowMin
  /\ belowMin' = TRUE /\ failed' = FALSE
  /\ pc' = "show" /\ call' = "below"
  /\ UNCHANGED <<known, resizes, frame>> /\ LoopKeeps

(* Mutant: the flag is not reset.                                          *)
RenderFrame_KeepsFlag ==
  /\ pc = "loop" /\ proc = "run" /\ known >= MinCols
  /\ frame' \in Frames /\ failed' = FALSE
  /\ \/ belowMin /\ pc' = "raw" /\ call' = "reinit"
     \/ ~belowMin /\ pc' = "begin" /\ call' = call
  /\ UNCHANGED <<known, resizes, belowMin>> /\ LoopKeeps

RenderFrame ==
  /\ pc = "loop" /\ proc = "run" /\ known >= MinCols
  /\ frame' \in Frames /\ failed' = FALSE
  /\ belowMin' = FALSE
  /\ \/ belowMin /\ pc' = "raw" /\ call' = "reinit"
     \/ ~belowMin /\ pc' = "begin" /\ call' = call
  /\ UNCHANGED <<known, resizes>> /\ LoopKeeps

OpenEditor ==
  /\ pc = "loop" /\ proc = "run"
  /\ pc' = "show" /\ call' = "suspend"
  /\ UNCHANGED <<known, resizes, belowMin, frame, failed>> /\ LoopKeeps

Quit ==
  /\ pc = "loop" /\ proc = "run"
  /\ pc' = "show" /\ call' = "quit"
  /\ UNCHANGED <<known, resizes, belowMin, frame, failed>> /\ LoopKeeps

-----------------------------------------------------------------------------
(* A frame: Clear, the paragraph, CellBuffer's runs, rffi_flush.  Each is  *)
(* a Terminal::draw of its own.                                            *)

(* Where a frame goes after a draw: the first error is kept, the commands  *)
(* go on, but runs that could not be written stay and end the frame.       *)
AfterDraw(step, ok) ==
  /\ failed' = (failed \/ ~ok)
  /\ \/ step = "begin" /\ pc' = "para" /\ UNCHANGED <<runs, sent>>
     \/ /\ step = "para" /\ pc' = "flush" /\ UNCHANGED sent
        /\ runs' = IF frame.run = <<>> THEN runs ELSE Append(runs, frame)
     \/ /\ step = "flush" /\ pc' = (IF ok THEN "flush" ELSE "log")
        /\ sent' = IF ok THEN sent + 1 ELSE 0
        /\ UNCHANGED runs
     \/ step = "commit" /\ pc' = "log" /\ UNCHANGED <<runs, sent>>

(* try_draw up to the callback: autoresize, then what the call renders.    *)
DrawBegin ==
  /\ pc \in Drawing /\ proc = "run" /\ handle = "live"
  /\ pc = "flush" => sent < Len(runs)
  /\ ~OutOfBounds(pc, Canvas)
  /\ cur' = Rendered(pc, Canvas)
  /\ area' = size
  /\ \/ area = size /\ UNCHANGED <<prev, cells, dirty>>
     \/ /\ area # size /\ prev' = Row(size) /\ dirty' = FALSE
        /\ cells' = IF alt THEN Row(size) ELSE cells
  /\ pc' = "write" /\ after' = pc
  /\ UNCHANGED <<raw, alt, cursor, prior, armed, owner, env, ui, call, proc, faults>>

(* autoresize cannot find out the size, or the clear of a resize fails:    *)
(* then the buffers have the new size and the area has not.  Nothing was   *)
(* drawn.                                                                  *)
DrawCannotBegin ==
  /\ pc \in Drawing /\ proc = "run" /\ handle = "live"
  /\ pc = "flush" => sent < Len(runs)
  /\ Fault
  /\ \/ UNCHANGED <<cur, prev, dirty>>
     \/ area # size /\ cur' = Fit(cur, size) /\ prev' = Fit(prev, size) /\ dirty' = TRUE
  /\ AfterDraw(pc, FALSE)
  /\ UNCHANGED <<tty, prior, armed, area, owner, env, known, frame, call, after, proc>>

(* flush, hide_cursor, swap_buffers: the updates reach the screen, the     *)
(* drawn buffer becomes the previous one, the other is blank.              *)
DrawWrite ==
  /\ pc = "write" /\ proc = "run"
  /\ cells' = Shown(cur, Diff(prev, cur), Len(cur)) /\ cursor' = "hidden"
  /\ prev' = cur /\ cur' = Row(Len(cur))
  /\ AfterDraw(after, TRUE)
  /\ UNCHANGED <<raw, alt, prior, armed, area, owner, env, known, frame,
                 call, after, proc, faults, dirty>>

(* It fails half-way: before the swap, and the buffer keeps what was drawn *)
(* for the next call to draw over, or when the output is flushed after it. *)
DrawWriteFails ==
  /\ pc = "write" /\ proc = "run" /\ Fault
  /\ \E last \in 0..Len(cur) : cells' = Shown(cur, Diff(prev, cur), last)
  /\ \/ UNCHANGED <<prev, cur, cursor>>
     \/ prev' = cur /\ cur' = Row(Len(cur)) /\ cursor' \in {cursor, "hidden"}
  /\ dirty' = TRUE
  /\ AfterDraw(after, FALSE)
  /\ UNCHANGED <<raw, alt, prior, armed, area, owner, env, known, frame,
                 call, after, proc>>

(* All runs are written: CellBuffer forgets them.                          *)
FlushDone ==
  /\ pc = "flush" /\ proc = "run" /\ sent = Len(runs)
  /\ runs' = <<>> /\ sent' = 0 /\ pc' = "commit"
  /\ UNCHANGED <<tty, prior, armed, term, owner, env, known, frame, failed,
                 call, after, proc, faults, dirty>>

(* renderNow prints the first error on stderr, which is the same screen.   *)
Log ==
  /\ pc = "log" /\ proc = "run"
  /\ dirty' = (dirty \/ (failed /\ alt)) /\ pc' = "loop"
  /\ UNCHANGED <<tty, prior, armed, term, owner, env, ui, call, after, proc, faults>>

-----------------------------------------------------------------------------
(* The environment: the user resizes the terminal; the pump, unless it is  *)
(* parked for the editor or not there yet, posts the new size.             *)

Launching == call = "init" /\ pc \in Taking
Parked == \/ call = "suspend" /\ pc \in Leaving \cup {"edit"}
          \/ call = "resume" /\ pc \in Taking

Resize ==
  /\ proc = "run"
  /\ \E n \in 1..MaxCols \ {size} :
       /\ size' = n
       /\ cells' = IF alt THEN Fit(cells, n) ELSE cells
  /\ winch' = ~Launching /\ dirty' = TRUE
  /\ UNCHANGED <<raw, alt, cursor, prior, armed, term, owner, resizes, ui,
                 pc, call, after, proc, faults>>

PumpResize ==
  /\ proc = "run" /\ winch /\ resizes = 0 /\ ~Parked
  /\ resizes' = size /\ winch' = FALSE
  /\ UNCHANGED <<tty, prior, armed, term, owner, size, ui,
                 pc, call, after, proc, faults, dirty>>

Take  == EnableRawMode \/ EnterAlternateScreen \/ NewTerminal \/ HideCursor \/ Wipe \/ Arm
Leave == ShowCursor \/ LeaveAlternateScreen \/ DisableRawMode \/ EditorDone
Loop  == HandleResize \/ RenderBelowMinimum \/ RenderFrame \/ OpenEditor \/ Quit
Frame == DrawBegin \/ DrawCannotBegin \/ DrawWrite \/ DrawWriteFails \/ FlushDone \/ Log

Next == Take \/ Leave \/ Loop \/ Frame \/ Resize \/ PumpResize \/ Signal \/ Trap

Spec == Init /\ [][Next]_vars

-----------------------------------------------------------------------------
(* Properties.                                                             *)

(* The diff passes the column c over because of a wide glyph in the column *)
(* before, which is not shown either: another one covers it.               *)
PassedOver(b, c) == Covered(b, c) /\ Covered(b, c - 1)

(* Between two calls the previous buffer is what the screen shows, glyph   *)
(* by glyph, also where wide glyphs came and went and after a new size:    *)
(* the diff of the next draw is right.  Until the next clear it need not   *)
(* be, if a resize or an error message hit the screen or a write failed.   *)
(* Nor need it in a column that is passed over behind wide glyphs which    *)
(* rffi_write_cells put one column apart; the columns around it are right, *)
(* and so is this one once a draw no longer passes it over.                *)
ShadowMatchesScreen ==
  pc \in Drawing \cup {"loop", "log"} /\ proc = "run" /\ alt /\ ~dirty =>
    /\ \A c \in DOMAIN prev \cap DOMAIN cells :
         PassedOver(prev, c) \/ cells[c] = IF Covered(prev, c) THEN Half ELSE prev[c]
    /\ faults = 0 => Len(prev) = area

(* Once armed, whatever ends the process gives the shell its terminal      *)
(* back: cooked mode, the main screen, a visible cursor (unless a tty call *)
(* failed).                                                                *)
RestoredWhenDead ==
  proc # "run" /\ armed /\ faults = 0 => ~raw /\ ~alt /\ cursor = "shown"

(* Between frames the terminal's modes, crossterm's memory of the mode to  *)
(* return to, the Rust half of the Terminal and the interpreter's flag     *)
(* tell one story: drawing needs all of raw mode, the alternate screen and *)
(* a live handle, the prompt none of them.                                 *)
ModesAgree ==
  pc = "loop" /\ proc = "run" /\ faults = 0 =>
    /\ belowMin <=> handle = "nil"
    /\ handle = "live" <=> raw
    /\ raw <=> alt
    /\ raw <=> cursor = "hidden"
    /\ raw <=> prior = "cooked"

(* An editor runs in cooked mode on the main screen, whichever tty calls   *)
(* failed before.                                                          *)
EditorOwnsTerminal == pc = "edit" /\ proc = "run" => ~raw /\ ~alt /\ prior = "none"

(* Taking the terminal has six steps.  If one of them is the first tty     *)
(* call to fail, those before it are undone: the launch ends with a cooked *)
(* terminal although the emergency restore is not armed yet, the end of a  *)
(* below-minimum episode leaves the shell's terminal, and so does the      *)
(* return from an editor, unless it has all of it back.                    *)
FailedTakeIsUndone ==
  faults <= 1 =>
    /\ proc = "exited" /\ ~armed => ~raw /\ ~alt
    /\ call = "reinit" /\ pc \in {"log", "loop"} /\ handle = "nil" /\ proc = "run"
       => ~raw /\ ~alt /\ prior = "none"
    /\ call = "resume" /\ pc = "loop" /\ proc = "run"
       => (raw <=> alt) /\ (raw <=> prior = "cooked")

(* Disagreements, which no run checks.                                     *)

(* Buffer::diff promises the cells necessary to update the UI to the next; *)
(* the column that is passed over keeps a glyph the buffer does not hold,  *)
(* until the next draw.                                                    *)
NothingIsPassedOver ==
  pc \in Drawing /\ proc = "run" /\ alt /\ ~dirty =>
    \A c \in DOMAIN prev \cap DOMAIN cells : cells[c] \in {Half, prev[c]}

(* What rffi_flush's comment and flush's in RatatuiKitBackend promise: the *)
(* completed frame is on the terminal when a frame has ended.              *)
FrameStaysOnScreen ==
  pc = "loop" /\ proc = "run" /\ after = "commit" /\ handle = "live" /\ ~dirty
    /\ area = size /\ size = known /\ frame.run = <<>>
  => \A c \in 1..size : Fits(c) => cells[c] = frame.text[c]

(* What ux-spec 1.4 promises of a small terminal is a prompt, not an abort. *)
NoTrap == proc # "trapped"
===============================================================================
