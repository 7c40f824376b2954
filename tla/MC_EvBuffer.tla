---------------------------- MODULE MC_EvBuffer ----------------------------
(* Instantiation of EvBuffer for TLC: two buffers, a heap of a few chain *)
(* addresses, and chain sizes scaled down so that a chain fills after a  *)
(* couple of bytes.                                                       *)
EXTENDS EvBuffer

CONSTANTS b1, b2, c1, c2, c3, c4

MC_Bufs == {b1, b2}

(* Nothing in EvBuffer tells one buffer from another (no CHOOSE over   *)
(* Bufs), so the buffers are a symmetry set.  Chains are not: NewChain  *)
(* CHOOSEs the free chain the allocator returns.                         *)
BufSymmetry == Permutations(MC_Bufs)
MC_Chains2 == {c1, c2}
MC_Chains3 == {c1, c2, c3}
MC_Chains4 == {c1, c2, c3, c4}

(* Written bytes cycle through CR, LF, x, so a line ends after two bytes. *)
MC_ByteVal == [k \in 0 .. MaxBytes |-> CASE k % 3 = 1 -> "CR"
                                         [] k % 3 = 2 -> "LF"
                                         [] OTHER -> "x"]

(* A needle of one byte, and one of two that a chain boundary can split. *)
MC_Needles == {<<"CR", "LF">>, <<"LF">>}

(* Every public function but remove_buffer and add_reference, whose     *)
(* faults (runs evbuffer_p2l and evbuffer_insert_null) would hide the    *)
(* rest, and freeze, whose early returns the other runs reach.           *)
HeapOps == {"add", "prepend", "expand", "reserve_space", "commit_space",
            "drain", "remove", "pullup", "add_buffer", "prepend_buffer",
            "read", "write", "readln", "find", "add_printf"}

(* The functions that move bytes without leaving empty chains behind     *)
(* (reserve_space, expand and read can), plus add_reference.             *)
StreamOps == {"add", "prepend", "add_reference", "drain", "remove", "pullup",
              "write", "freeze", "add_buffer", "prepend_buffer", "commit_space"}

(* taking is a history variable only StreamSpec reads: states that      *)
(* differ only in it have the same futures for m, produced and saved.    *)
HeapView == <<m, produced, saved>>

(* remove_buffer between buffers filled by add, and searches resumed *)
(* while they grow.                                                   *)
MoveOps == {"add", "remove_buffer", "remove", "search"}

(* A search resumed across add_printf. *)
ResumeOps == {"add", "add_printf", "search"}
====
