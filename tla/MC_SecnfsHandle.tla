-------------------------- MODULE MC_SecnfsHandle --------------------------
(* Model values for checking SecnfsHandle: two secnfs and three           *)
(* next-layer handles besides the root, so that the secnfs pool runs dry  *)
(* while the next layer can still yield a handle, and handles are reused. *)
EXTENDS SecnfsHandle, TLC

CONSTANTS s1, s2, n1, n2, n3
MCSecIds  == {s1, s2}
MCNextIds == {n1, n2, n3}
\* The handles of each pool are interchangeable: no action names one.
MCSymmetry == Permutations(MCSecIds) \cup Permutations(MCNextIds)
=============================================================================
