------------------------------ MODULE MC_SelectOp ------------------------------
(* Descriptors on both sides of each size select_add computes with one-  *)
(* byte masks: 39/40 cross the 5 bytes select_init allocates, 79/80 the  *)
(* 10 bytes of the first doubling.                                        *)
EXTENDS SelectOp

MC_Fds == {0, 39, 40, 79, 80}
====
