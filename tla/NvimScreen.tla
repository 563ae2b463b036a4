----------------------------- MODULE NvimScreen -----------------------------
(***************************************************************************)
(* The screen of the embedded nvim, from nvim to AppState: nvim draws on a *)
(* grid of its own and tells what it did in redraw notifications; the      *)
(* reader cuts the bytes it gets into messages (MsgpackRPCFramer.swift),   *)
(* the redraw handler collects events up to a flush                        *)
(* (NvimRedrawHandler.swift), the reducer replays them (Reducer.swift,     *)
(* NvimGridState.swift).                                                   *)
(*                                                                         *)
(* A message is an array of events; on the wire it is a header with the    *)
(* number of its elements and the elements.  Rows and columns count from 0 *)
(* as they do in the protocol.  Colours, cursor and mode are left out.     *)
(***************************************************************************)
EXTENDS Integers, Sequences, SequencesExt

CONSTANTS Glyphs,      \* what a cell may show
          Blank,       \* the space
          Highlights,  \* highlight ids; 0 is the default
          Same,        \* a run's cell without a highlight: that of the cell before
          Runs,        \* the runs of cells nvim writes
          Fill,        \* what nvim puts where a scroll or a resize left nothing
          Sizes,       \* <<width, height>>
          Regions,     \* <<top, bot, left, right>> of what nvim scrolls
          MaxOps       \* bound on nvim's drawing operations

RunCell == [text : Glyphs, hl : Highlights \cup {Same}, times : Nat]

ASSUME NvimScreenAssumption ==
  /\ {Blank, Fill} \subseteq Glyphs /\ 0 \in Highlights /\ Highlights \subseteq Nat /\ Same \notin Highlights
  /\ Runs \subseteq Seq(RunCell)
  /\ \A run \in Runs : run # <<>> /\ run[1].hl # Same /\ \A i \in DOMAIN run : run[i].times # 0
  /\ Sizes \subseteq (Nat \ {0}) \X (Nat \ {0})
  /\ \A e \in Regions : e \in Nat \X Nat \X Nat \X Nat /\ e[1] < e[2] /\ e[3] < e[4]
  /\ MaxOps \in Nat

VARIABLES
  screen,    \* nvim's grid
  frames,    \* history: nvim's grid at each flush
  ops,       \* number of drawing operations so far
  message,   \* the notification nvim is filling
  wire,      \* what nvim has written and the reader has not read
  buffer,    \* MsgpackRPCFramer.buffer
  inbox,     \* messages on their way to the actor, the one read first in front
  ordered,   \* history: no message has overtaken another on this way
  pending,   \* NvimRedrawHandler.pending
  channel,   \* batches on their way to the reducer
  grid,      \* AppState.nvimGrid
  handled    \* number of batches the reducer has had

nvim == <<screen, frames, ops, message>>
vars == <<nvim, wire, buffer, inbox, ordered, pending, channel, grid, handled>>

BlankCell == [text |-> Blank, hl |-> 0]
Grid(width, height, cell) == [r \in 1..height |-> [c \in 1..width |-> cell]]
Width(g)  == IF g = <<>> THEN 0 ELSE Len(g[1])
Height(g) == Len(g)

(* cells written into a row from column col on, as far as the row goes.    *)
Overwrite(row, col, cells) ==
  [c \in DOMAIN row |-> IF c \in (col + 1)..(col + Len(cells)) THEN cells[c - col] ELSE row[c]]

(* The cells a run stands for; highlights[i] is that of its i-th.          *)
Spread(run, highlights) ==
  LET upTo[i \in 0..Len(run)] ==
        IF i = 0 THEN <<>>
        ELSE upTo[i - 1] \o [k \in 1..run[i].times |-> [text |-> run[i].text, hl |-> highlights[i]]]
  IN  upTo[Len(run)]

Event == [type : {"flush", "clear"}]
         \cup [type : {"resize"}, size : Sizes]
         \cup [type : {"line"}, row : Nat, col : Nat, run : Seq(RunCell)]
         \cup [type : {"scroll"}, top : Nat, bot : Nat, left : Nat, right : Nat, rows : Int]
Token == [elements : Nat] \cup [elements : {0}, event : Event]

IsGrid(g) == \A r \in 1..Height(g) : /\ Len(g[r]) = Width(g)
                                     /\ \A c \in 1..Width(g) : g[r][c].text \in Glyphs /\ g[r][c].hl \in Highlights

(* Every state component has its type.                                     *)
TypeOK ==
  /\ IsGrid(screen) /\ IsGrid(grid) /\ \A i \in DOMAIN frames : IsGrid(frames[i])
  /\ ops \in 0..MaxOps /\ handled \in Nat /\ ordered \in BOOLEAN
  /\ message \in Seq(Event) /\ pending \in Seq(Event)
  /\ wire \in Seq(Token) /\ buffer \in Seq(Token)
  /\ inbox \in Seq(Seq(Event)) /\ channel \in Seq(Seq(Event))

(* nvim has been attached: it has said how large the grid is and cleared   *)
(* it.  AppState has no grid.                                              *)
Init ==
  /\ \E size \in Sizes :
       /\ screen = Grid(size[1], size[2], BlankCell)
       /\ message = <<[type |-> "resize", size |-> size], [type |-> "clear"]>>
  /\ frames = <<>> /\ ops = 0
  /\ wire = <<>> /\ buffer = <<>> /\ inbox = <<>> /\ pending = <<>> /\ channel = <<>>
  /\ grid = <<>> /\ handled = 0 /\ ordered = TRUE

-----------------------------------------------------------------------------
(* nvim (:help ui-linegrid).  What a scroll or a resize uncovers it draws  *)
(* anew before the next flush.  What it draws does not depend on how far   *)
(* the program got: to draw while nothing is under way is enough, and a    *)
(* bound on the model.                                                     *)

NothingUnderWay == wire = <<>> /\ inbox = <<>> /\ channel = <<>>

Draws(events) ==
  /\ NothingUnderWay
  /\ ops < MaxOps /\ ops' = ops + 1
  /\ message' = message \o events
  /\ UNCHANGED <<frames, wire, buffer, inbox, ordered, pending, channel, grid, handled>>

Line(row, col, run) == [type |-> "line", row |-> row, col |-> col, run |-> run]
Filled(first, count, col, width) ==
  [i \in 1..count |-> Line(first + i - 1, col, <<[text |-> Fill, hl |-> 0, times |-> width]>>)]
FillCell == [text |-> Fill, hl |-> 0]

(* The highlight meant by the i-th cell: the last one that was given.      *)
Meant(run, i) == run[Max({j \in 1..i : run[j].hl # Same})].hl
Written(run) == Spread(run, [i \in DOMAIN run |-> Meant(run, i)])

DrawLine(row, col, run) ==
  /\ row + 1 \in DOMAIN screen /\ col + Len(Written(run)) <= Width(screen)
  /\ screen' = [screen EXCEPT ![row + 1] = Overwrite(@, col, Written(run))]
  /\ Draws(<<Line(row, col, run)>>)

DrawScroll(top, bot, left, right, rows) ==
  /\ bot <= Height(screen) /\ right <= Width(screen)
  /\ rows # 0 /\ rows < bot - top /\ -rows < bot - top
  /\ screen' = [r \in 1..Height(screen) |-> [c \in 1..Width(screen) |->
                  IF r \notin (top + 1)..bot \/ c \notin (left + 1)..right THEN screen[r][c]
                  ELSE IF r + rows \in (top + 1)..bot THEN screen[r + rows][c] ELSE FillCell]]
  /\ Draws(<<[type |-> "scroll", top |-> top, bot |-> bot, left |-> left, right |-> right, rows |-> rows]>>
           \o IF rows > 0 THEN Filled(bot - rows, rows, left, right - left)
              ELSE Filled(top, -rows, left, right - left))

DrawClear ==
  /\ screen' = Grid(Width(screen), Height(screen), BlankCell)
  /\ Draws(<<[type |-> "clear"]>>)

DrawResize(size) ==
  /\ size # <<Width(screen), Height(screen)>>
  /\ screen' = Grid(size[1], size[2], FillCell)
  /\ Draws(<<[type |-> "resize", size |-> size]>> \o Filled(0, size[2], 0, size[1]))

Flush ==
  /\ frames # <<>> => screen # Last(frames)
  /\ frames' = Append(frames, screen)
  /\ message' = Append(message, [type |-> "flush"])
  /\ UNCHANGED <<screen, ops, wire, buffer, inbox, ordered, pending, channel, grid, handled>>

(* A notification may end anywhere, before a flush or after several.       *)
Send ==
  /\ message # <<>>
  /\ wire' = wire \o <<[elements |-> Len(message)]>>
                  \o [i \in DOMAIN message |-> [elements |-> 0, event |-> message[i]]]
  /\ message' = <<>>
  /\ UNCHANGED <<screen, frames, ops, buffer, inbox, ordered, pending, channel, grid, handled>>

-----------------------------------------------------------------------------
(* The reader                                                              *)

(* scan: where the value that begins the buffer ends, 0 while that is      *)
(* still to come: the array's header tells how many elements must follow.  *)
Scan(bytes) ==
  IF bytes = <<>> \/ Len(bytes) < 1 + bytes[1].elements THEN 0 ELSE 1 + bytes[1].elements

(* Mutant: one message is taken per read.                                  *)
Push_OnlyFirst(bytes) ==
  LET end == Scan(bytes) IN
    IF end = 0 THEN [values |-> <<>>, rest |-> bytes]
    ELSE [values |-> << [i \in 1..(end - 1) |-> bytes[i + 1].event] >>,
          rest |-> SubSeq(bytes, end + 1, Len(bytes))]

(* pushChecked: the complete messages at the front, and what is left.      *)
Push(bytes) ==
  LET from[start \in 0..Len(bytes)] ==
        LET rest == SubSeq(bytes, start + 1, Len(bytes))  end == Scan(rest) IN
          IF end = 0 THEN [values |-> <<>>, rest |-> rest]
          ELSE [from[start + end] EXCEPT !.values = <<[k \in 1..(end - 1) |-> rest[k + 1].event]>> \o @]
  IN  from[0]

(* One read: any part of what is there.                                    *)
Read ==
  \E n \in 1..Len(wire) :
    LET pushed == Push(buffer \o SubSeq(wire, 1, n)) IN
      /\ buffer' = pushed.rest
      /\ inbox' = inbox \o pushed.values
      /\ wire' = SubSeq(wire, n + 1, Len(wire))
      /\ UNCHANGED <<nvim, ordered, pending, channel, grid, handled>>

(* handleRedraw: events are kept until a flush, which posts the batch.     *)
Collect(state, event) ==
  IF event.type = "flush"
  THEN [pending |-> <<>>, posted |-> Append(state.posted, Append(state.pending, event))]
  ELSE [state EXCEPT !.pending = Append(@, event)]
Collected(events) ==
  LET after[i \in 0..Len(events)] ==
        IF i = 0 THEN [pending |-> pending, posted |-> <<>>] ELSE Collect(after[i - 1], events[i])
  IN  after[Len(events)]

(* Each message has a Task of its own, so any of them may come next.       *)
Deliver ==
  \E i \in DOMAIN inbox :
    LET done == Collected(inbox[i]) IN
      /\ ordered' = (ordered /\ i = 1)
      /\ inbox' = RemoveAt(inbox, i)
      /\ pending' = done.pending
      /\ channel' = channel \o done.posted
      /\ UNCHANGED <<nvim, wire, buffer, grid, handled>>

-----------------------------------------------------------------------------
(* The reducer: NvimGridState                                              *)

(* resize: what fits is kept.                                              *)
Resized(g, size) ==
  LET row == [c \in 1..size[1] |-> BlankCell] IN
    [r \in 1..size[2] |-> IF r > Height(g) THEN row ELSE Overwrite(row, 0, g[r])]

(* decodeGridLine fills in the omitted highlights; applyGridLine then      *)
(* takes a 0, too, for "as before".                                        *)
Decoded(run, i) ==
  LET given == {j \in 1..i : run[j].hl # Same} IN IF given = {} THEN 0 ELSE run[Max(given)].hl
Effective(run, i) ==
  LET coloured == {j \in 1..i : Decoded(run, j) # 0} IN
    IF coloured = {} THEN 0 ELSE Decoded(run, Max(coloured))

Lined(g, row, col, run) ==
  IF row + 1 \notin DOMAIN g THEN g
  ELSE [g EXCEPT ![row + 1] = Overwrite(@, col, Spread(run, [i \in DOMAIN run |-> Effective(run, i)]))]

(* applyScroll: row by row, in the direction that reads a row before it is *)
(* written; then the rows left behind are blanked.                         *)
CopyRow(g, to, from, left, right) ==
  IF {to + 1, from + 1} \subseteq DOMAIN g
  THEN [g EXCEPT ![to + 1] = [c \in DOMAIN @ |->
          IF c \in (left + 1)..right /\ c \in DOMAIN g[from + 1] THEN g[from + 1][c] ELSE @[c]]]
  ELSE g
Moved(g, e, order) ==
  LET after[i \in 0..Len(order)] ==
        IF i = 0 THEN g ELSE CopyRow(after[i - 1], order[i], order[i] + e.rows, e.left, e.right)
  IN  after[Len(order)]
Blanked(g, e, rows) ==
  [r \in DOMAIN g |-> IF r - 1 \notin rows THEN g[r]
     ELSE [c \in DOMAIN g[r] |-> IF c \in (e.left + 1)..e.right THEN BlankCell ELSE g[r][c]]]

(* Mutant: top down whichever way the rows go.                             *)
Scrolled_TopDown(g, e) ==
  IF e.rows > 0
  THEN Blanked(Moved(g, e, [i \in 1..(e.bot - e.top - e.rows) |-> e.top + i - 1]), e,
               (e.bot - e.rows)..(e.bot - 1))
  ELSE Blanked(Moved(g, e, [i \in 1..(e.bot - e.top + e.rows) |-> e.top - e.rows + i - 1]), e,
               e.top..(e.top - e.rows - 1))

Scrolled(g, e) ==
  IF e.rows > 0
  THEN Blanked(Moved(g, e, [i \in 1..(e.bot - e.top - e.rows) |-> e.top + i - 1]), e,
               (e.bot - e.rows)..(e.bot - 1))
  ELSE Blanked(Moved(g, e, [i \in 1..(e.bot - e.top + e.rows) |-> e.bot - i]), e,
               e.top..(e.top - e.rows - 1))

Apply(g, e) ==
  CASE e.type = "resize" -> Resized(g, e.size)
    [] e.type = "clear"  -> Grid(Width(g), Height(g), BlankCell)
    [] e.type = "line"   -> Lined(g, e.row, e.col, e.run)
    [] e.type = "scroll" -> Scrolled(g, e)
    [] OTHER             -> g

(* reduceNvimRedrawBatch                                                   *)
Replayed(g, events) ==
  LET after[i \in 0..Len(events)] ==
        IF i = 0 THEN [nvimGrid |-> g] ELSE [after[i - 1] EXCEPT !.nvimGrid = Apply(@, events[i])]
  IN  after[Len(events)].nvimGrid

OnRedrawBatch ==
  /\ channel # <<>>
  /\ grid' = Replayed(grid, Head(channel))
  /\ channel' = Tail(channel)
  /\ handled' = handled + 1
  /\ UNCHANGED <<nvim, wire, buffer, inbox, ordered, pending>>

-----------------------------------------------------------------------------
Draw ==
  \/ DrawClear \/ Flush
  \/ \E size \in Sizes : DrawResize(size)
  \/ \E run \in Runs, row \in 0..(Height(screen) - 1), col \in 0..Width(screen) : DrawLine(row, col, run)
  \/ \E e \in Regions, rows \in (-Height(screen))..Height(screen) : DrawScroll(e[1], e[2], e[3], e[4], rows)

Arrive == Read \/ Deliver \/ OnRedrawBatch

Next == Draw \/ Send \/ Arrive

(* nvim writes what it has and the program takes what comes; nvim need not *)
(* draw anything.                                                          *)
Spec == Init /\ [][Next]_vars /\ WF_vars(Send) /\ WF_vars(Read) /\ WF_vars(Deliver)
             /\ WF_vars(OnRedrawBatch)

-----------------------------------------------------------------------------
(* Properties                                                              *)

(* As long as no message has overtaken another, what AppState shows after  *)
(* the n-th batch is what nvim showed at its n-th flush, however the       *)
(* stream was cut, scrolled and resized: never a half drawn grid, and each *)
(* cell with a highlight has it.  (Messages may overtake each other, see   *)
(* NeverHalfDrawn; a cell of the default highlight may have another, see   *)
(* KeepsHighlights.)                                                       *)
ShowsFrames ==
  ordered /\ handled > 0 =>
    /\ Height(grid) = Height(frames[handled]) /\ Width(grid) = Width(frames[handled])
    /\ \A r \in 1..Height(grid), c \in 1..Width(grid) :
         LET shown == grid[r][c]  meant == frames[handled][r][c] IN
           shown.text = meant.text /\ (meant.hl # 0 => shown.hl = meant.hl)

(* Every frame nvim finished gets to the screen, in whatever order its     *)
(* messages are delivered: nothing stays behind in the framer's buffer or  *)
(* among the pending events.                                               *)
EveryFrameArrives == \A n \in 1..(MaxOps + 1) : Len(frames) >= n ~> handled >= n

-----------------------------------------------------------------------------
(* What docs and comments say and the code does not do                     *)

(* ARCHITECTURE.md:1962: "The actor processes deliveries serially in       *)
(* arrival order".  One Task per message keeps none: a flush that          *)
(* overtakes the lines it ends shows a grid that nvim never had.           *)
NeverHalfDrawn ==
  handled > 0 => \E n \in DOMAIN frames :
    /\ Height(grid) = Height(frames[n]) /\ Width(grid) = Width(frames[n])
    /\ \A r \in 1..Height(grid), c \in 1..Width(grid) : grid[r][c].text = frames[n][r][c].text

(* NvimRedrawHandler.swift:26: 0 is "nvim's 'same hl as previous'"; it is  *)
(* not, an omitted id is, and those were filled in before.                 *)
KeepsHighlights ==
  ordered /\ handled > 0 =>
    \A r \in 1..Height(grid), c \in 1..Width(grid) : grid[r][c] = frames[handled][r][c]
=============================================================================
