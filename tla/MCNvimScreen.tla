---------------------------- MODULE MCNvimScreen ----------------------------
(* Runs for NvimScreen: an omitted highlight, and a return to the default  *)
(* highlight.                                                              *)
EXTENDS NvimScreen

CONSTANTS a, same, blank

Cell(text, hl, times) == [text |-> text, hl |-> hl, times |-> times]
MCRuns == { <<Cell(a, 1, 1), Cell(blank, same, 1)>>,
            <<Cell(blank, 1, 1), Cell(a, 0, 1)>> }
MCSizes == {<<2, 3>>, <<1, 1>>}
MCRegions == {<<0, 3, 0, 2>>, <<1, 3, 1, 2>>}
=============================================================================
