------------------------------ MODULE MCNvimRpc ------------------------------
(* NvimRpc for TLC: the calls are interchangeable model values.            *)
EXTENDS NvimRpc, TLC

CallerSymmetry == Permutations(Callers)
=============================================================================
