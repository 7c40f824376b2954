------------------------------ MODULE MC_EvRpc ------------------------------
(* Instantiates EvRpc with request wrappers and connections as model      *)
(* values; wrappers are interchangeable, and so are connections.          *)
EXTENDS EvRpc, TLC

CONSTANTS r1, r2, r3, c1, c2

MC_Symmetry == Permutations({r1, r2, r3}) \cup Permutations({c1, c2})
====
