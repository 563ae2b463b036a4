----------------------------- MODULE TerminalInput -----------------------------
(***************************************************************************)
(* The way of a key to the event pump: rffi_poll_event (ratatui-ffi's      *)
(* events.rs) calls crossterm's poll and read, which share a reader that   *)
(* puts aside what nobody asked for; the reader takes events from a source *)
(* that waits with mio for the tty and for SIGWINCH, reads what is there   *)
(* and parses it byte by byte.                                             *)
(*                                                                         *)
(* All of it runs on the pump's thread.  What happens at the same time is  *)
(* the terminal: bytes arrive, one at a time, so that an escape sequence   *)
(* can be split anywhere, the window changes its size, the time runs out,  *)
(* the terminal goes away.                                                 *)
(***************************************************************************)
EXTENDS Naturals, Sequences, SequencesExt

CONSTANTS Bytes,      \* the bytes that may arrive, of those Parse knows
          BufferSize, \* TTY_BUFFER_SIZE
          MaxBytes,   \* bound on the bytes that arrive
          MaxWinch    \* bound on the changes of size

ASSUME InputAssumption ==
  /\ Bytes \subseteq {"esc", "[", "A", "R", "I", "1", "k"}
  /\ BufferSize \in Nat \ {0} /\ MaxBytes \in Nat /\ MaxWinch \in Nat

VARIABLES
  tty, closed,   \* bytes not read yet; the terminal is gone
  sigwinch,      \* a SIGWINCH signal_hook has noted and nobody taken
  ready,         \* the sources mio will report: it reports a change once
  typed, winches,\* what arrived so far, for the bounds
  buffer, parsed,\* Parser.buffer and internal_events
  batch,         \* mio's events of this call that are still to be looked at
  events, skipped, \* InternalEventReader's queue and what poll put aside
  got,           \* the event try_read has returned
  late,          \* poll's timeout has elapsed
  pc,            \* where the pump's thread is
  due            \* history: the events there have been, in order, that
                 \* rffi_poll_event has yet to return

world  == <<tty, closed, sigwinch, ready, typed, winches>>
parser == <<buffer, parsed>>
reader == <<events, skipped>>
vars   == <<world, parser, batch, reader, got, late, pc, due>>

Keys     == {"key", "alt", "escape", "arrow"}
Internal == {"cursor"}             \* InternalEvent that is no Event
Kinds    == Keys \cup Internal \cup {"focus", "resize"}

IsEvent(k)   == k \notin Internal            \* EventFilter
IsPosted(k)  == IsEvent(k) /\ k # "focus"    \* fill_event knows it

(* The events of a sequence that rffi_poll_event returns, in their order.  *)
Visible(s) ==
  LET upTo[i \in 0..Len(s)] ==
        IF i = 0 THEN <<>>
        ELSE IF IsPosted(s[i]) THEN Append(upTo[i - 1], s[i]) ELSE upTo[i - 1]
  IN upTo[Len(s)]

TypeOK ==
  /\ tty \in Seq(Bytes) /\ closed \in BOOLEAN /\ sigwinch \in BOOLEAN
  /\ ready \subseteq {"tty", "signal"}
  /\ typed \in 0..MaxBytes /\ winches \in 0..MaxWinch
  /\ buffer \in Seq(Bytes) /\ parsed \in Seq(Kinds)
  /\ batch \in Seq({"tty", "signal"})
  /\ events \in Seq(Kinds) /\ skipped \in Seq(Internal)
  /\ got \in Kinds \cup {"none"} /\ late \in BOOLEAN
  /\ pc \in {"idle", "try", "mio", "token", "read", "got", "take"}
  /\ due \in Seq(Kinds)

Init ==
  /\ tty = <<>> /\ closed = FALSE /\ sigwinch = FALSE /\ ready = {}
  /\ typed = 0 /\ winches = 0
  /\ buffer = <<>> /\ parsed = <<>> /\ batch = <<>>
  /\ events = <<>> /\ skipped = <<>> /\ got = "none" /\ late = FALSE
  /\ pc = "idle" /\ due = <<>>

-----------------------------------------------------------------------------
(* parse_event: an event, "wait" for more bytes, or "error".               *)

(* CSI sequences: the digit stands for the parameters, 1;2.                *)
ParseCsi(b) ==
  CASE Len(b) = 2 -> "wait"
    [] Len(b) > 2 /\ b[3] = "A" -> "arrow"
    [] Len(b) > 2 /\ b[3] = "I" -> "focus"
    [] Len(b) > 2 /\ b[3] = "[" ->
         IF Len(b) = 3 THEN "wait" ELSE IF b[4] = "A" THEN "key" ELSE "error"
    [] Len(b) > 2 /\ b[3] = "1" ->
         CASE Last(b) \in {"1", "esc"} -> "wait"
           [] Last(b) = "R" -> IF Len(b) = 4 THEN "cursor" ELSE "error"
           [] Last(b) = "A" -> "arrow"
           [] OTHER -> "error"
    [] OTHER -> "error"

Parse(b, more) ==
  CASE b[1] # "esc" -> "key"
    [] b = <<"esc">> -> IF more THEN "wait" ELSE "escape"
    [] Len(b) > 1 /\ b[1] = "esc" /\ b[2] = "esc" -> "escape"
    [] Len(b) > 1 /\ b[1] = "esc" /\ b[2] = "["   -> ParseCsi(b)
    [] OTHER -> "alt"

(* Parser::advance over the bytes one read returned.                       *)
Advance(bytes, full) ==
  LET at[i \in 0..Len(bytes)] ==
        IF i = 0 THEN [buffer |-> buffer, out |-> <<>>]
        ELSE LET b == Append(at[i - 1].buffer, bytes[i])
                 p == Parse(b, i < Len(bytes) \/ full)
             IN CASE p = "wait"  -> [buffer |-> b, out |-> at[i - 1].out]
                  [] p = "error" -> [buffer |-> <<>>, out |-> at[i - 1].out]
                  [] OTHER -> [buffer |-> <<>>, out |-> Append(at[i - 1].out, p)]
  IN at[Len(bytes)]

-----------------------------------------------------------------------------
(* The world.                                                              *)

Type ==
  /\ typed < MaxBytes /\ ~closed
  /\ \E b \in Bytes : tty' = Append(tty, b)
  /\ typed' = typed + 1 /\ ready' = ready \cup {"tty"}
  /\ UNCHANGED <<closed, sigwinch, winches, parser, batch, reader, got, late,
                 pc, due>>

ChangeSize ==
  /\ winches < MaxWinch
  /\ sigwinch' = TRUE /\ winches' = winches + 1 /\ ready' = ready \cup {"signal"}
  /\ UNCHANGED <<tty, closed, typed, parser, batch, reader, got, late,
                 pc, due>>

(* The terminal goes away: from now on it is readable, and a read returns  *)
(* nothing or an error.                                                    *)
Close ==
  /\ ~closed
  /\ closed' = TRUE /\ tty' = <<>> /\ ready' = ready \cup {"tty"}
  /\ UNCHANGED <<sigwinch, typed, winches, parser, batch, reader, got, late,
                 pc, due>>

(* Time passes: PollTimeout::elapsed.                                      *)
Elapse ==
  /\ pc # "idle" /\ ~late
  /\ late' = TRUE
  /\ UNCHANGED <<world, parser, batch, reader, got, pc, due>>

-----------------------------------------------------------------------------
(* UnixInternalEventSource::try_read.                                      *)

(* What the parser has left from an earlier read comes first.              *)
TryParsed ==
  /\ pc = "try" /\ parsed # <<>>
  /\ got' = Head(parsed) /\ parsed' = Tail(parsed) /\ pc' = "got"
  /\ UNCHANGED <<world, buffer, batch, reader, late, due>>

(* Mutant: the tty is asked first.                                         *)
TryPoll_First ==
  /\ pc = "try"
  /\ pc' = "mio"
  /\ UNCHANGED <<world, parser, batch, reader, got, late, due>>

TryPoll ==
  /\ pc = "try" /\ parsed = <<>>
  /\ pc' = "mio"
  /\ UNCHANGED <<world, parser, batch, reader, got, late, due>>

Batches == {<<"tty">>, <<"signal">>, <<"tty", "signal">>, <<"signal", "tty">>}

(* mio reports every source that has changed since it was last reported    *)
(* and still has something to read.                                        *)
Readable == {s \in ready : IF s = "tty" THEN tty # <<>> \/ closed ELSE sigwinch}

MioReady ==
  /\ pc = "mio" /\ Readable # {}
  /\ batch' \in {s \in Batches : ToSet(s) = Readable} /\ ready' = {} /\ pc' = "token"
  /\ UNCHANGED <<tty, closed, sigwinch, typed, winches, parser, reader, got,
                 late, due>>

MioTimeout ==
  /\ pc = "mio" /\ Readable = {} /\ late
  /\ got' = "none" /\ pc' = "got"
  /\ UNCHANGED <<world, parser, batch, reader, late, due>>

TokenTty ==
  /\ pc = "token" /\ batch # <<>> /\ Head(batch) = "tty"
  /\ batch' = Tail(batch) /\ pc' = "read"
  /\ UNCHANGED <<world, parser, reader, got, late, due>>

(* signals.pending: a change of size is an event; the rest of the batch is *)
(* gone with the return.                                                   *)
TokenSignal ==
  /\ pc = "token" /\ batch # <<>> /\ Head(batch) = "signal"
  /\ sigwinch' = FALSE
  /\ got' = "resize" /\ due' = Append(due, "resize")
  /\ batch' = <<>> /\ pc' = "got"
  /\ UNCHANGED <<tty, closed, ready, typed, winches, parser, reader, late>>

(* Mutant: what a read parses replaces what is still to be taken.          *)
Read_KeepsFirst ==
  /\ pc = "read" /\ tty # <<>>
  /\ LET n == IF Len(tty) < BufferSize THEN Len(tty) ELSE BufferSize
         r == Advance(SubSeq(tty, 1, n), n = BufferSize)
     IN /\ tty' = SubSeq(tty, n + 1, Len(tty))
        /\ buffer' = r.buffer /\ due' = due \o Visible(r.out) /\ parsed' = <<>>
        /\ \/ r.out # <<>> /\ got' = Head(r.out) /\ batch' = <<>> /\ pc' = "got"
           \/ r.out = <<>> /\ UNCHANGED <<got, batch, pc>>
  /\ UNCHANGED <<closed, sigwinch, ready, typed, winches, reader, late>>

(* One read(2): the descriptor blocks, so this waits until there is a byte, *)
(* and reads again until a sequence is complete; the look at the time      *)
(* behind the tokens is never reached.                                     *)
Read ==
  /\ pc = "read" /\ tty # <<>>
  /\ LET n == IF Len(tty) < BufferSize THEN Len(tty) ELSE BufferSize
         r == Advance(SubSeq(tty, 1, n), n = BufferSize)
     IN /\ tty' = SubSeq(tty, n + 1, Len(tty))
        /\ buffer' = r.buffer /\ due' = due \o Visible(r.out)
        /\ \/ /\ r.out # <<>> /\ got' = Head(r.out) /\ parsed' = Tail(r.out)
              /\ batch' = <<>> /\ pc' = "got"
           \/ r.out = <<>> /\ UNCHANGED <<got, parsed, batch, pc>>
  /\ UNCHANGED <<closed, sigwinch, ready, typed, winches, reader, late>>

-----------------------------------------------------------------------------
(* InternalEventReader::poll and read, with EventFilter.                   *)

(* rffi_poll_event calls poll: an event that waits is enough.              *)
StartPoll ==
  /\ pc = "idle"
  /\ late' = FALSE
  /\ pc' = IF \E i \in DOMAIN events : IsEvent(events[i]) THEN "take" ELSE "try"
  /\ UNCHANGED <<world, parser, batch, reader, got, due>>

(* What was put aside goes to the back of the queue, the event to the      *)
(* front, and poll returns true.                                           *)
PollFound ==
  /\ pc = "got" /\ got # "none" /\ IsEvent(got)
  /\ events' = <<got>> \o events \o skipped /\ skipped' = <<>>
  /\ got' = "none" /\ pc' = "take"
  /\ UNCHANGED <<world, parser, batch, late, due>>

(* Mutant: poll answers true for whatever it has put aside.                *)
PollSkips_AnswersTrue ==
  /\ pc = "got" /\ (got = "none" \/ ~IsEvent(got))
  /\ LET aside == IF got = "none" THEN skipped ELSE Append(skipped, got) IN
       \/ /\ late /\ events' = events \o aside /\ skipped' = <<>>
          /\ pc' = IF events' = <<>> THEN "idle" ELSE "take"
       \/ ~late /\ skipped' = aside /\ pc' = "try" /\ UNCHANGED events
  /\ got' = "none"
  /\ UNCHANGED <<world, parser, batch, late, due>>

(* Anything else is put aside; poll goes on until its time is over.        *)
PollSkips ==
  /\ pc = "got" /\ (got = "none" \/ ~IsEvent(got))
  /\ LET aside == IF got = "none" THEN skipped ELSE Append(skipped, got) IN
       \/ /\ late /\ events' = events \o aside /\ skipped' = <<>>
          /\ pc' = "idle"
       \/ ~late /\ skipped' = aside /\ pc' = "try" /\ UNCHANGED events
  /\ got' = "none"
  /\ UNCHANGED <<world, parser, batch, late, due>>

(* read takes the first event, and puts what was in front of it behind     *)
(* what is left; fill_event drops a change of focus.                       *)
Take ==
  /\ pc = "take"
  /\ \E i \in DOMAIN events :
       /\ IsEvent(events[i]) /\ \A j \in 1..(i - 1) : ~IsEvent(events[j])
       /\ events' = SubSeq(events, i + 1, Len(events)) \o SubSeq(events, 1, i - 1)
       /\ due' = IF IsPosted(events[i]) THEN Tail(due) ELSE due
  /\ pc' = "idle"
  /\ UNCHANGED <<world, parser, batch, skipped, got, late>>

Thread == \/ TryParsed \/ TryPoll \/ MioReady \/ MioTimeout \/ TokenTty \/ TokenSignal
          \/ Read \/ StartPoll \/ PollFound \/ PollSkips \/ Take

Next == Thread \/ Type \/ ChangeSize \/ Close \/ Elapse

(* The thread cannot go on: it waits for a byte, or for its time.          *)
Blocked == \/ pc = "read" /\ tty = <<>>
           \/ pc = "mio" /\ Readable = {} /\ ~late

(* The thread runs, and the time of every poll elapses; nobody has to type.*)
Spec == Init /\ [][Next]_vars /\ WF_vars(Thread) /\ []<>(late \/ pc = "idle")

(* The same, with Blocked for ~ENABLED Thread: TLC takes a tenth of the    *)
(* time.                                                                   *)
SpecForTLC == /\ Init /\ [][Next]_vars
              /\ []<>Blocked \/ []<><<Thread>>_vars
              /\ []<>(late \/ pc = "idle")

-----------------------------------------------------------------------------
(* Properties.                                                             *)

(* What was parsed from the bytes, and each change of size the source saw, *)
(* is returned once and in order: what is due is at any time in try_read's *)
(* result, the reader's queue and the parser's, in this order.             *)
InOrder ==
  due = Visible((IF got = "none" THEN <<>> ELSE <<got>>) \o events \o parsed)

(* event.rs: "Ok(true) guarantees that subsequent call to the read         *)
(* function won't block".                                                  *)
TrueMeansReadable ==
  pc = "take" => \E i \in DOMAIN events : IsEvent(events[i])

(* The pump gets every event that was parsed, also the second of two keys  *)
(* in one read and one behind a cursor report, with no further byte.       *)
ParsedIsPosted == Visible(parsed) # <<>> ~> Visible(parsed) = <<>>

(* events.rs: "blocking for at most timeout_ms milliseconds", as long as   *)
(* there is a terminal.                                                    *)
PollReturns == []~closed => (pc # "idle" ~> pc = "idle")
===============================================================================
