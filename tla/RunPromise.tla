----------------------------- MODULE RunPromise ------------------------------
(***************************************************************************)
(* What a run promises its user (ARCHITECTURE 3c): the lines a script      *)
(* prints appear in the order they were printed, none twice and none of    *)
(* another run's, and when the run is reported over none is missing.       *)
(***************************************************************************)
EXTENDS Sequences, Naturals

CONSTANT Line

VARIABLES
  phase,    \* of the last run: none yet, running, completed
  printed,  \* the lines it has printed
  shown     \* those its user has been given

vars == <<phase, printed, shown>>

Init == phase = "idle" /\ printed = <<>> /\ shown = <<>>

Start ==
  /\ phase # "running" /\ phase' = "running"
  /\ printed' = <<>> /\ shown' = <<>>

PrintLine ==
  /\ phase = "running"
  /\ \E l \in Line : printed' = Append(printed, l)
  /\ UNCHANGED <<phase, shown>>

Show ==
  /\ phase = "running"
  /\ \E n \in Len(shown) + 1 .. Len(printed) : shown' = SubSeq(printed, 1, n)
  /\ UNCHANGED <<phase, printed>>

Complete ==
  /\ phase = "running" /\ shown = printed
  /\ phase' = "completed"
  /\ UNCHANGED <<printed, shown>>

Next == Start \/ PrintLine \/ Show \/ Complete

Spec == Init /\ [][Next]_vars
=============================================================================
