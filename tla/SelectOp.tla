------------------------------- MODULE SelectOp -------------------------------
(***************************************************************************)
(* The select(2) backend of select.c: its fd sets, how they grow, and     *)
(* what select_dispatch reports to evmap.                                  *)
(*                                                                         *)
(* The four fd_set buffers are modelled by what matters about memory:     *)
(* cap[s], the bytes the buffer owns (0 for NULL); clean[s], how many     *)
(* leading bytes of an in-set hold written values (realloc leaves the     *)
(* rest uninitialized); bits[s], the descriptors FD_SET has set in it.    *)
(* `wild` records an access outside a buffer.  The caller is evmap        *)
(* (evmap.c, not in the repository): `want` is the interest it believes   *)
(* it has registered, updated only when select_add or select_del return 0.*)
(***************************************************************************)
EXTENDS Naturals, FiniteSets, FiniteSetsExt

CONSTANTS
    Fds,           \* the descriptors the program adds (small naturals)
    MaskBytes,     \* sizeof(fd_mask)
    InitMayFail,   \* whether the reallocs of select_init may fail
    AllocMayFail,  \* whether the reallocs of a later select_resize may fail
    MaxReady       \* most descriptor/event pairs one select() reports

ASSUME MaskBytes \in Nat \ {0} /\ Fds \subseteq Nat

Ev == {"R", "W"}
Sets == {"ri", "ro", "wi", "wo"}
InSets == {"ri", "wi"}
In(e) == IF e = "R" THEN "ri" ELSE "wi"
Out(e) == IF e = "R" THEN "ro" ELSE "wo"

NFDBITS == 8 * MaskBytes
howmany(x, y) == (x + (y - 1)) \div y

VARIABLES
    sop,       \* struct selectop: fds, fdsz, cap, clean, bits, wild
    want,      \* evmap's registered interest per descriptor
    reported,  \* <<fd, ev>> pairs the last select_dispatch passed to evmap_io_active
    expected,  \* what it should have passed: interest that select() found ready
    alive      \* select_dealloc has not run

vars == <<sop, want, reported, expected, alive>>

(* realloc of the buffers in the order select_resize calls it; k of them *)
(* succeed before the first failure (k = 4: all).                        *)
ResizeOrder == <<"ri", "ro", "wi", "wo">>

(* Mutant: the in-sets are not zeroed beyond the old event_fdsz. *)
Resize_no_memset(s, fdsz, k) ==
    LET done == {ResizeOrder[i] : i \in 1..k}
        r == [s EXCEPT !.cap = [x \in Sets |-> IF x \in done THEN fdsz ELSE @[x]],
                       !.clean = [x \in InSets |-> IF x \in done
                                     THEN Min({@[x], fdsz}) ELSE @[x]],
                       !.bits = [x \in InSets |-> IF x \in done
                                     THEN {f \in @[x] : f < fdsz * 8} ELSE @[x]]]
    IN  IF k < 4 THEN r ELSE [r EXCEPT !.fdsz = fdsz]

Resize(s, fdsz, k) ==
    LET done == {ResizeOrder[i] : i \in 1..k}
        c1 == [x \in InSets |-> IF x \in done THEN Min({s.clean[x], fdsz}) ELSE s.clean[x]]
        b1 == [x \in InSets |-> IF x \in done THEN {f \in s.bits[x] : f < fdsz * 8}
                                               ELSE s.bits[x]]
        r  == [s EXCEPT !.cap = [x \in Sets |-> IF x \in done THEN fdsz ELSE @[x]],
                        !.clean = c1, !.bits = b1]
    IN  IF k < 4 THEN r   \* goto error: return -1, event_fdsz unchanged
        ELSE [r EXCEPT  \* memset of the in-sets from event_fdsz to fdsz
                 !.clean = [x \in InSets |-> IF c1[x] >= s.fdsz THEN fdsz ELSE c1[x]],
                 !.bits = [x \in InSets |-> {f \in b1[x] : f < s.fdsz * 8}],
                 !.fdsz = fdsz]

ResizeOk(k) == k = 4

InitOutcomes == IF InitMayFail THEN 0..4 ELSE {4}
AllocOutcomes == IF AllocMayFail THEN 0..4 ELSE {4}

(* select_init: mm_calloc, then select_resize whose result it ignores. *)
Calloced == [fds |-> 0, fdsz |-> 0, cap |-> [x \in Sets |-> 0],
             clean |-> [x \in InSets |-> 0], bits |-> [x \in InSets |-> {}],
             wild |-> FALSE]

Init ==
    /\ \E k \in InitOutcomes :
          sop = Resize(Calloced, howmany(32 + 1, NFDBITS) * MaskBytes, k)
    /\ want = [f \in Fds |-> {}]
    /\ reported = {}
    /\ expected = {}
    /\ alive = TRUE

(* Mutant: the size is computed for fd descriptors instead of fd + 1. *)
RECURSIVE Grow_short(_, _)
Grow_short(fdsz, fd) ==
    IF fdsz < howmany(fd, NFDBITS) * MaskBytes THEN Grow_short(fdsz * 2, fd) ELSE fdsz

(* The fdsz loop of select_add: at least one mask, doubled until fd fits. *)
RECURSIVE Grow(_, _)
Grow(fdsz, fd) ==
    IF fdsz < howmany(fd + 1, NFDBITS) * MaskBytes THEN Grow(fdsz * 2, fd) ELSE fdsz

(* FD_SET / FD_CLR of fd in the in-set of e: a write of byte fd \div 8. *)
Touch(s, x, fd) == fd < s.cap[x] * 8
FdSet(s, fd, evs) ==
    [s EXCEPT !.bits = [x \in InSets |->
                          IF \E e \in evs : In(e) = x /\ Touch(s, x, fd)
                          THEN @[x] \cup {fd} ELSE @[x]],
              !.wild = @ \/ \E e \in evs : ~Touch(s, In(e), fd)]
FdClr(s, fd, evs) ==
    [s EXCEPT !.bits = [x \in InSets |->
                          IF \E e \in evs : In(e) = x THEN @[x] \ {fd} ELSE @[x]],
              !.wild = @ \/ \E e \in evs : ~Touch(s, In(e), fd)]

(* select_add: grow when fd is above event_fds, fail on a failed resize. *)
SelectAdd(s, fd, evs, k) ==
    IF s.fds < fd
    THEN LET fdsz == Grow(Max({s.fdsz, MaskBytes}), fd)
             r    == IF fdsz # s.fdsz THEN Resize(s, fdsz, k) ELSE s
         IN  IF fdsz # s.fdsz /\ ~ResizeOk(k)
             THEN [st |-> r, res |-> -1]
             ELSE [st |-> FdSet([r EXCEPT !.fds = fd], fd, evs), res |-> 0]
    ELSE [st |-> FdSet(s, fd, evs), res |-> 0]

(* Mutant: select_del also skips fd equal to event_fds. *)
SelectDel_early(s, fd, evs) ==
    IF s.fds <= fd THEN s ELSE FdClr(s, fd, evs)

(* select_del: nothing to clear above event_fds. *)
SelectDel(s, fd, evs) ==
    IF s.fds < fd THEN s ELSE FdClr(s, fd, evs)

(* evmap asks to add events not yet registered on fd. *)
Add(fd, evs, k) ==
    /\ alive
    /\ evs # {} /\ evs \cap want[fd] = {}
    /\ LET a == SelectAdd(sop, fd, evs, k)
       IN  /\ sop' = a.st
           /\ want' = IF a.res = 0 THEN [want EXCEPT ![fd] = @ \cup evs] ELSE want
    /\ UNCHANGED <<reported, expected, alive>>

(* evmap asks to delete events it registered on fd. *)
Del(fd, evs) ==
    /\ alive
    /\ evs # {} /\ evs \subseteq want[fd]
    /\ sop' = SelectDel(sop, fd, evs)
    /\ want' = [want EXCEPT ![fd] = @ \ evs]
    /\ UNCHANGED <<reported, expected, alive>>

(* The value select() sees for bit i of the in-set of e: memcpy copies    *)
(* event_fdsz bytes; a byte that was never written reads as garbage, a    *)
(* nondeterministic value drawn in g.                                     *)
InBit(s, i, e, g) ==
    IF i \div 8 < Min({s.clean[In(e)], s.fdsz}) THEN i \in s.bits[In(e)]
    ELSE <<i, e>> \in g

(* Accesses of select_dispatch outside a buffer: the two memcpys, the     *)
(* kernel's copy of howmany(nfds, NFDBITS) masks of each non-NULL out-set, *)
(* and FD_ISSET of every i up to event_fds in the loop.                   *)
CopyWild(s) ==
    \E e \in Ev : s.fdsz > 0 /\ (s.fdsz > s.cap[In(e)] \/ s.fdsz > s.cap[Out(e)])
KernelWild(s) ==
    \E e \in Ev : s.cap[Out(e)] > 0
                  /\ howmany(s.fds + 1, NFDBITS) * MaskBytes > s.cap[Out(e)]
LoopWild(s) == \E e \in Ev : s.fds >= s.cap[Out(e)] * 8

(* What the OS may find ready in one select(): at most MaxReady pairs. *)
ReadyChoices == UNION {kSubset(n, Fds \X Ev) : n \in 0..MaxReady}

(* select_dispatch: select() returns -1 (error or EINTR, nothing is      *)
(* reported), or keeps the set bits of ready descriptors, and the loop    *)
(* over 0..event_fds calls evmap_io_active for each.                      *)
SelectDispatch(ready, g, ok) ==
    /\ alive
    /\ reported' = IF ok THEN {p \in ready : p[1] <= sop.fds /\ InBit(sop, p[1], p[2], g)}
                   ELSE {}
    /\ expected' = IF ok THEN {p \in ready : p[2] \in want[p[1]]} ELSE {}
    /\ sop' = [sop EXCEPT !.wild = @ \/ CopyWild(sop) \/ KernelWild(sop)
                                     \/ (ok /\ LoopWild(sop))]
    /\ UNCHANGED <<want, alive>>

(* select_dealloc frees the buffers and the selectop. *)
SelectDealloc ==
    /\ alive
    /\ alive' = FALSE
    /\ UNCHANGED <<sop, want, reported, expected>>

Next ==
    \/ \E fd \in Fds, evs \in SUBSET Ev, k \in AllocOutcomes : Add(fd, evs, k)
    \/ \E fd \in Fds, evs \in SUBSET Ev : Del(fd, evs)
    \/ \E ready \in ReadyChoices, ok \in BOOLEAN :
          \E g \in SUBSET ready : SelectDispatch(ready, g, ok)
    \/ SelectDealloc

Spec == Init /\ [][Next]_vars

-----------------------------------------------------------------------------
TypeOK ==
    /\ sop.fds \in Nat /\ sop.fdsz \in Nat /\ sop.wild \in BOOLEAN
    /\ sop.cap \in [Sets -> Nat] /\ sop.clean \in [InSets -> Nat]
    /\ \A x \in InSets : sop.bits[x] \subseteq Nat
    /\ want \in [Fds -> SUBSET Ev]
    /\ reported \subseteq Nat \X Ev /\ expected \subseteq Fds \X Ev
    /\ alive \in BOOLEAN

(* No call of select_add, select_del or select_dispatch reads or writes   *)
(* outside the fd_set buffers it owns: FD_SET/FD_CLR of an added fd, the  *)
(* memcpy of event_fdsz bytes, select() on event_fds + 1 descriptors and  *)
(* the FD_ISSET loop all stay within what select_resize allocated, after  *)
(* any sequence of adds, some of whose reallocs fail part way.            *)
NoWildAccess == ~sop.wild

(* The event_fdsz bytes select_dispatch copies out of each in-set have    *)
(* all been written: select_resize zeroes what realloc added before it    *)
(* raises event_fdsz, also after an earlier resize failed half way.       *)
InitializedSets == \A x \in InSets : sop.clean[x] >= sop.fdsz

(* The backend contract (spec 6): select_dispatch reports exactly the     *)
(* registered interest that select() found ready, and nothing evmap has   *)
(* deleted, whatever order adds, failed adds and deletes came in.         *)
DispatchReportsReady == reported = expected
====
