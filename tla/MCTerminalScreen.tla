---------------------------- MODULE MCTerminalScreen ---------------------------
(* Frames for TerminalScreen in which wide glyphs appear, move by one      *)
(* column, are written over by a run, hide each other (a run with two wide *)
(* glyphs a column apart) and disappear.                                   *)
EXTENDS TerminalScreen

CONSTANTS a, w, blank

MCFrames ==
  { [text |-> <<w, blank, a>>,     col |-> 1, run |-> <<>>],
    [text |-> <<a, w, blank>>,     col |-> 1, run |-> <<w, a>>],
    [text |-> <<a, a, blank>>,     col |-> 2, run |-> <<a>>],
    [text |-> <<a, a, a>>,         col |-> 1, run |-> <<w, w>>] }

OneFrame == { [text |-> <<a, a>>, col |-> 1, run |-> <<>>] }
===============================================================================
