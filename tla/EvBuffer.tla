------------------------------ MODULE EvBuffer ------------------------------
(***************************************************************************)
(* The chained buffer of libevent-2.0.1-alpha (buffer.c,                  *)
(* evbuffer-internal.h).  A struct evbuffer is a singly linked list of     *)
(* struct evbuffer_chain reached from `first`, with the cached pointers    *)
(* `last` and `previous_to_last` and the cached length `total_len`.       *)
(*                                                                         *)
(* The heap is the variable m: m.ch maps each chain address (a model      *)
(* value of ChainIds) to its fields, m.bf maps each buffer to its fields, *)
(* and m.fault records a NULL dereference or a double free.  A chain      *)
(* address that is not `used` is free memory; mm_malloc fails when no     *)
(* address is free.  Every public function takes the buffer lock for its  *)
(* whole body, so it is one step.  The bytes a chain holds are kept as    *)
(* the sequence `data` (length off) of serial numbers: the k-th byte ever *)
(* written into any buffer is k, which makes loss, duplication and        *)
(* reordering visible without modelling byte values.                      *)
(***************************************************************************)
EXTENDS Integers, Sequences, FiniteSets, SequencesExt, FiniteSetsExt

CONSTANTS
  Bufs,          \* struct evbuffer instances
  CbBufs,        \* those with at least one callback registered
  ChainIds,      \* addresses chains can be allocated at
  Sizes,         \* datlen arguments callers pass
  MaxBytes,      \* bound on the bytes written into buffers overall
  Ops,           \* the public functions the environment calls
  ByteVal,       \* the character each written byte is, by serial number
  Needles,       \* the strings evbuffer_find is asked for
  MIN_BUFFER_SIZE, CHAIN_SIZE, EVBUFFER_CHAIN_MAX_AUTO_SIZE,
  PRINTF_MIN_SPACE,  \* the 64 bytes evbuffer_add_vprintf expands by first
  NULL

(* _evbuffer_chain_pin is called nowhere in this tree (there is no IOCP  *)
(* code), so no chain is ever pinned; the pin guards of the code are kept *)
(* and are always false.                                                   *)
PinFlags == {"PINNED_R", "PINNED_W"}

ASSUME CbBufs \subseteq Bufs /\ NULL \notin ChainIds

VARIABLES
  m,         \* the heap: chains, buffers, fault
  produced,  \* serial number of the last byte written
  taking,    \* history: the last call hands the bytes it takes to its caller
  saved      \* the evbuffer_ptr a caller keeps to resume its search from

vars == <<m, produced, taking, saved>>

FreeChain == [used |-> FALSE, next |-> NULL, buffer_len |-> 0,
              misalign |-> 0, off |-> 0, data |-> <<>>, flags |-> {}]

(* evbuffer_new: mm_calloc'd, so every field is zero.  cb_expected and   *)
(* cb_orig record the sizes callbacks are told (history).               *)
NewBuf == [first |-> NULL, last |-> NULL, previous_to_last |-> NULL,
           total_len |-> 0, n_add_for_cb |-> 0, n_del_for_cb |-> 0,
           freeze_start |-> FALSE, freeze_end |-> FALSE,
           cb_expected |-> 0, cb_orig |-> 0, cb_due |-> 0]

Fault(s) == [s EXCEPT !.fault = TRUE]

Pinned(s, c) == s.ch[c].flags \cap PinFlags # {}

(* CHAIN_SPACE_LEN *)
SpaceLen(s, c) ==
  IF "IMMUTABLE" \in s.ch[c].flags THEN 0
  ELSE s.ch[c].buffer_len - (s.ch[c].misalign + s.ch[c].off)

(* evbuffer_chain_new: the allocation, header included, is the least    *)
(* power of two from MIN_BUFFER_SIZE up that holds size; mm_malloc fails *)
(* (NewChain = NULL) when no address is free.                           *)
RECURSIVE AllocSize(_, _)
AllocSize(a, need) == IF a < need THEN AllocSize(2 * a, need) ELSE a

ChainCap(size) == AllocSize(MIN_BUFFER_SIZE, size + CHAIN_SIZE) - CHAIN_SIZE

NewChain(s) ==
  IF \A c \in ChainIds : s.ch[c].used THEN NULL
  ELSE CHOOSE c \in ChainIds : ~s.ch[c].used

evbuffer_chain_new(s, c, size) ==
  [s EXCEPT !.ch[c] = [FreeChain EXCEPT !.used = TRUE,
                                        !.buffer_len = ChainCap(size)]]

(* A pinned chain is only marked DANGLING; freeing freed memory faults. *)
evbuffer_chain_free(s, c) ==
  CASE ~s.ch[c].used -> Fault(s)
    [] Pinned(s, c)  -> [s EXCEPT !.ch[c].flags = @ \cup {"DANGLING"}]
    [] OTHER         -> [s EXCEPT !.ch[c] = FreeChain]

(* Frees the chains from c on, reading next before each free. *)
RECURSIVE FreeFrom(_, _, _)
FreeFrom(s, c, k) ==
  IF c = NULL \/ k = 0 THEN s
  ELSE FreeFrom(evbuffer_chain_free(s, c), s.ch[c].next, k - 1)

(* Mutant: only the first chain is freed. *)
FreeList_first_only(s, b) ==
  IF s.bf[b].first = NULL THEN s ELSE evbuffer_chain_free(s, s.bf[b].first)

FreeList(s, b) == FreeFrom(s, s.bf[b].first, Cardinality(ChainIds))

ZERO_CHAIN(s, b) ==
  [s EXCEPT !.bf[b].first = NULL, !.bf[b].last = NULL,
            !.bf[b].previous_to_last = NULL, !.bf[b].total_len = 0]

(* An empty, unpinned last chain is dropped and replaced, which writes   *)
(* through previous_to_last: a fault when that is NULL or freed memory.  *)
evbuffer_chain_insert(s, b, c) ==
  LET B == s.bf[b]
      s1 ==
        CASE B.first = NULL ->
               [s EXCEPT !.bf[b].first = c, !.bf[b].last = c,
                         !.bf[b].previous_to_last = NULL]
          [] s.ch[B.last].off = 0 /\ ~Pinned(s, B.last) ->
               LET s0 == evbuffer_chain_free(s, B.last) IN
               IF B.previous_to_last = NULL \/ ~s0.ch[B.previous_to_last].used
               THEN Fault(s0)
               ELSE [s0 EXCEPT !.ch[B.previous_to_last].next = c,
                               !.bf[b].last = c]
          [] OTHER ->
               [s EXCEPT !.bf[b].previous_to_last = B.last,
                         !.ch[B.last].next = c, !.bf[b].last = c]
  IN [s1 EXCEPT !.bf[b].total_len = @ + s.ch[c].off]

(* memmove of the data to the start of the chain's memory. *)
evbuffer_chain_align(s, c) == [s EXCEPT !.ch[c].misalign = 0]

(* Appends the bytes bs at the end of chain c. *)
ChainAppend(s, c, bs) ==
  [s EXCEPT !.ch[c].off = @ + Len(bs), !.ch[c].data = @ \o bs]

(* Mutant: misalign moved the wrong way. *)
ChainConsume_backwards(s, c, k) ==
  [s EXCEPT !.ch[c].misalign = @ - k, !.ch[c].off = @ - k,
            !.ch[c].data = SubSeq(@, k + 1, Len(@))]

(* Removes the first k bytes of chain c. *)
ChainConsume(s, c, k) ==
  [s EXCEPT !.ch[c].misalign = @ + k, !.ch[c].off = @ - k,
            !.ch[c].data = SubSeq(@, k + 1, Len(@))]

(* evbuffer_run_callbacks, reached through evbuffer_invoke_callbacks     *)
(* (non-deferred).  The callbacks are told orig_size = total_len +       *)
(* n_del_for_cb - n_add_for_cb (size_t arithmetic: it wraps below 0);    *)
(* history: cb_expected is the new_size they were last told, cb_orig the *)
(* orig_size of the latest call and cb_due the cb_expected before it.    *)
evbuffer_invoke_callbacks(s, b) ==
  LET B == s.bf[b] IN
  IF b \notin CbBufs
  THEN [s EXCEPT !.bf[b].n_add_for_cb = 0, !.bf[b].n_del_for_cb = 0,
                 !.bf[b].cb_expected = B.total_len,
                 !.bf[b].cb_orig = B.total_len, !.bf[b].cb_due = B.total_len]
  ELSE IF B.n_add_for_cb = 0 /\ B.n_del_for_cb = 0 THEN s
  ELSE [s EXCEPT !.bf[b].n_add_for_cb = 0, !.bf[b].n_del_for_cb = 0,
                 !.bf[b].cb_orig = B.total_len + B.n_del_for_cb - B.n_add_for_cb,
                 !.bf[b].cb_due = B.cb_expected,
                 !.bf[b].cb_expected = B.total_len]

Fuel == Cardinality(ChainIds) + 1   \* bounds list walks over a corrupt list
Least(a, b) == IF a <= b THEN a ELSE b

(* Mutant: previous_to_last->next is not redirected to the new chain. *)
ReplaceLast_unlinked(s, b, c, n) ==
  evbuffer_chain_free([s EXCEPT !.bf[b].first = IF @ = c THEN n ELSE @,
                                !.bf[b].last = n], c)

(* The last chain c is replaced by the new chain n and freed (the fix-up *)
(* of evbuffer_expand and of _evbuffer_expand_fast).                      *)
ReplaceLast(s, b, c, n) ==
  LET p == s.bf[b].previous_to_last
      s1 == [s EXCEPT !.bf[b].first = IF @ = c THEN n ELSE @, !.bf[b].last = n]
  IN evbuffer_chain_free(IF p # NULL THEN [s1 EXCEPT !.ch[p].next = n] ELSE s1, c)

(* evbuffer_expand: make room for datlen bytes at the end, in the last   *)
(* chain (realigning it) or in a bigger copy of it, or append a fresh    *)
(* chain when the last one is immutable or pinned.  Returns [s, ok].     *)
evbuffer_expand(s, b, datlen) ==
  LET c == s.bf[b].last
      n == NewChain(s)
      C == s.ch[c]
  IN IF c = NULL \/ C.flags \cap ({"IMMUTABLE"} \cup PinFlags) # {} THEN
        IF n = NULL THEN [s |-> s, ok |-> FALSE]
        ELSE [s |-> evbuffer_chain_insert(evbuffer_chain_new(s, n, datlen), b, n),
              ok |-> TRUE]
     ELSE IF C.buffer_len >= C.misalign + C.off + datlen THEN [s |-> s, ok |-> TRUE]
     ELSE IF C.buffer_len - C.off >= datlen
          THEN [s |-> evbuffer_chain_align(s, c), ok |-> TRUE]
     ELSE IF n = NULL THEN [s |-> s, ok |-> FALSE]
     ELSE [s |-> ReplaceLast([evbuffer_chain_new(s, n, C.buffer_len - C.misalign + datlen)
                                EXCEPT !.ch[n].off = C.off, !.ch[n].data = C.data], b, c, n),
           ok |-> TRUE]

Added(s, b, k) ==
  [s EXCEPT !.bf[b].total_len = @ + k, !.bf[b].n_add_for_cb = @ + k]

(* evbuffer_add of the bytes bs.  When a new chain is needed, the bytes  *)
(* that fit are copied into the last chain and counted in n_add_for_cb;  *)
(* the rest go to the new chain, whose insertion adds them to total_len. *)
evbuffer_add(s, b, bs) ==
  LET datlen == Len(bs)
      r0 == IF s.bf[b].last = NULL THEN evbuffer_expand(s, b, datlen)
            ELSE [s |-> s, ok |-> TRUE]
      s0 == r0.s
      c == s0.bf[b].last
      C == s0.ch[c]
      mutable == "IMMUTABLE" \notin C.flags
      remain == IF mutable THEN C.buffer_len - C.misalign - C.off ELSE 0
      grown == IF C.buffer_len <= EVBUFFER_CHAIN_MAX_AUTO_SIZE \div 2
               THEN 2 * C.buffer_len ELSE C.buffer_len
      n == NewChain(s0)
      s1 == IF remain > 0 THEN Added(ChainAppend(s0, c, SubSeq(bs, 1, remain)), b, remain)
            ELSE s0
      s2 == ChainAppend(evbuffer_chain_new(s1, n, IF datlen > grown THEN datlen ELSE grown),
                        n, SubSeq(bs, remain + 1, datlen))
  IN IF s.bf[b].freeze_end THEN [s |-> s, ok |-> FALSE]
     ELSE IF ~r0.ok THEN [s |-> s0, ok |-> FALSE]
     ELSE IF mutable /\ remain >= datlen THEN
        [s |-> evbuffer_invoke_callbacks(Added(ChainAppend(s0, c, bs), b, datlen), b),
         ok |-> TRUE]
     ELSE IF mutable /\ C.misalign >= datlen /\ ~Pinned(s0, c) THEN
        [s |-> evbuffer_invoke_callbacks(
                 Added(ChainAppend(evbuffer_chain_align(s0, c), c, bs), b, datlen), b),
         ok |-> TRUE]
     ELSE IF n = NULL THEN [s |-> s0, ok |-> FALSE]
     ELSE [s |-> evbuffer_invoke_callbacks(evbuffer_chain_insert(s2, b, n), b),
           ok |-> TRUE]

(* evbuffer_drain.  The partial branch walks the chains with len          *)
(* decreasing, and then adds the remaining len, not the drained amount,  *)
(* to n_del_for_cb.                                                       *)
RECURSIVE DrainLoop(_, _, _, _)
DrainLoop(s, c, len, k) ==
  IF c = NULL THEN [s |-> Fault(s), c |-> NULL, len |-> len]
  ELSE IF len < s.ch[c].off \/ k = 0 THEN [s |-> s, c |-> c, len |-> len]
  ELSE IF len = s.ch[c].off /\ "PINNED_R" \in s.ch[c].flags
       THEN [s |-> s, c |-> c, len |-> 0]
  ELSE DrainLoop(evbuffer_chain_free(s, c), s.ch[c].next, len - s.ch[c].off, k - 1)

evbuffer_drain(s, b, len) ==
  LET B == s.bf[b]
      all == len >= B.total_len /\ ~(B.last # NULL /\ "PINNED_R" \in s.ch[B.last].flags)
      r == DrainLoop([s EXCEPT !.bf[b].total_len = @ - Least(len, B.total_len)],
                     B.first, Least(len, B.total_len), Fuel)
      s1 == [r.s EXCEPT !.bf[b].first = r.c]
      s2 == IF r.c = s1.bf[b].last THEN [s1 EXCEPT !.bf[b].previous_to_last = NULL]
            ELSE s1
  IN IF B.total_len = 0 \/ B.freeze_start THEN s
     ELSE IF all THEN
        evbuffer_invoke_callbacks(
          [ZERO_CHAIN(FreeList(s, b), b) EXCEPT !.bf[b].n_del_for_cb = @ + B.total_len], b)
     ELSE IF r.s.fault THEN r.s
     ELSE evbuffer_invoke_callbacks(
            [ChainConsume(s2, r.c, r.len) EXCEPT !.bf[b].n_del_for_cb = @ + r.len], b)

(* Bytes taken from the front of b: total_len and n_del_for_cb. *)
Removed(s, b, k) ==
  [s EXCEPT !.bf[b].total_len = @ - k, !.bf[b].n_del_for_cb = @ + k]

(* evbuffer_remove: copies out and frees whole chains while datlen covers *)
(* them, then consumes the rest from the next chain.                     *)
RECURSIVE RemoveLoop(_, _, _, _)
RemoveLoop(s, c, datlen, k) ==
  IF datlen = 0 \/ k = 0 THEN [s |-> s, c |-> c, len |-> datlen]
  ELSE IF c = NULL THEN [s |-> Fault(s), c |-> NULL, len |-> datlen]
  ELSE IF datlen < s.ch[c].off THEN [s |-> s, c |-> c, len |-> datlen]
  ELSE RemoveLoop(evbuffer_chain_free(s, c), s.ch[c].next, datlen - s.ch[c].off, k - 1)

evbuffer_remove(s, b, want) ==
  LET B == s.bf[b]
      nread == Least(want, B.total_len)
      r == RemoveLoop(s, B.first, nread, Fuel)
      s1 == [r.s EXCEPT !.bf[b].first = r.c,
                        !.bf[b].last = IF r.c = NULL THEN NULL ELSE @]
      s2 == IF s1.bf[b].first = s1.bf[b].last
            THEN [s1 EXCEPT !.bf[b].previous_to_last = NULL] ELSE s1
      s3 == IF r.len > 0 THEN ChainConsume(s2, r.c, r.len) ELSE s2
  IN IF nread = 0 \/ B.freeze_start THEN s
     ELSE IF r.s.fault \/ (r.len > 0 /\ r.c = NULL) THEN Fault(r.s)
     ELSE evbuffer_invoke_callbacks(Removed(s3, b, nread), b)

(* evbuffer_reserve_space: only the expand is a state change. *)
evbuffer_reserve_space(s, b, size) ==
  IF s.bf[b].freeze_end THEN s ELSE evbuffer_expand(s, b, size).s

(* evbuffer_commit_space of the bytes bs written into the reserved space. *)
evbuffer_commit_space(s, b, bs) ==
  LET c == s.bf[b].last IN
  IF s.bf[b].freeze_end THEN [s |-> s, ok |-> FALSE]
  ELSE IF c = NULL \/ s.ch[c].buffer_len - s.ch[c].off - s.ch[c].misalign < Len(bs)
       THEN [s |-> s, ok |-> FALSE]
  ELSE [s |-> evbuffer_invoke_callbacks(Added(ChainAppend(s, c, bs), b, Len(bs)), b),
        ok |-> TRUE]

(* Mutant: the bytes land after the chain's data. *)
ChainPrepend_at_end(s, c, bs) ==
  [s EXCEPT !.ch[c].off = @ + Len(bs), !.ch[c].misalign = @ - Len(bs),
            !.ch[c].data = @ \o bs]

(* Puts the bytes bs in front of the data of chain c. *)
ChainPrepend(s, c, bs) ==
  [s EXCEPT !.ch[c].off = @ + Len(bs), !.ch[c].misalign = @ - Len(bs),
            !.ch[c].data = bs \o @]

(* evbuffer_prepend from "we need to add another chain": a new chain for *)
(* the bytes bs is put in front of c.  n_add_for_cb is given c's misalign *)
(* (0 after a partial fill or, for an immutable chain, its offset)       *)
(* instead of Len(bs).                                                   *)
PrependNewChain(s, b, c, bs) ==
  LET n == NewChain(s)
      rest == Len(bs)
  IN IF n = NULL THEN [s |-> s, ok |-> FALSE]
     ELSE [s |-> evbuffer_invoke_callbacks(
                   [evbuffer_chain_new(s, n, rest) EXCEPT
                      !.bf[b].first = n,
                      !.bf[b].previous_to_last = IF @ = NULL THEN n ELSE @,
                      !.bf[b].total_len = @ + rest,
                      !.bf[b].n_add_for_cb = @ + s.ch[c].misalign,
                      !.ch[n].next = c, !.ch[n].off = rest,
                      !.ch[n].misalign = ChainCap(rest) - rest,
                      !.ch[n].data = bs], b),
           ok |-> TRUE]

(* evbuffer_prepend once b has a first chain c: the bytes go into c's     *)
(* misalignment if they fit, else its last misalign bytes do and the rest *)
(* go into a new chain.  An immutable chain is not touched.               *)
PrependToFirst(s, b, bs) ==
  LET datlen == Len(bs)
      c == s.bf[b].first
      k == IF "IMMUTABLE" \notin s.ch[c].flags THEN s.ch[c].misalign ELSE 0
  IN IF k >= datlen
     THEN [s |-> evbuffer_invoke_callbacks(Added(ChainPrepend(s, c, bs), b, datlen), b),
           ok |-> TRUE]
     ELSE PrependNewChain(IF k > 0 THEN Added(ChainPrepend(s, c, SubSeq(bs, datlen - k + 1, datlen)), b, k)
                          ELSE s,
                          b, c, SubSeq(bs, 1, datlen - k))

(* evbuffer_prepend.  An empty buffer first gets a chain from            *)
(* evbuffer_expand, with all its space made misalignment.                *)
evbuffer_prepend(s, b, bs) ==
  IF s.bf[b].freeze_start THEN [s |-> s, ok |-> FALSE]
  ELSE IF s.bf[b].first # NULL THEN PrependToFirst(s, b, bs)
  ELSE LET r == evbuffer_expand(s, b, Len(bs)) IN
       IF ~r.ok THEN r
       ELSE PrependToFirst(LET f == r.s.bf[b].first IN
                           [r.s EXCEPT !.ch[f].misalign = r.s.ch[f].buffer_len], b, bs)

COPY_CHAIN(s, dst, src) ==
  [s EXCEPT !.bf[dst].first = s.bf[src].first, !.bf[dst].last = s.bf[src].last,
            !.bf[dst].previous_to_last = s.bf[src].previous_to_last,
            !.bf[dst].total_len = s.bf[src].total_len]

(* Mutant: dst->previous_to_last = src->previous_to_last, even NULL. *)
APPEND_CHAIN_src_p2l(s, dst, src) ==
  LET S == s.bf[src] IN
  [s EXCEPT !.ch[s.bf[dst].last].next = S.first,
            !.bf[dst].previous_to_last = S.previous_to_last,
            !.bf[dst].last = S.last, !.bf[dst].total_len = @ + S.total_len]

APPEND_CHAIN(s, dst, src) ==
  LET S == s.bf[src] IN
  [s EXCEPT !.ch[s.bf[dst].last].next = S.first,
            !.bf[dst].previous_to_last =
               IF S.previous_to_last # NULL THEN S.previous_to_last ELSE s.bf[dst].last,
            !.bf[dst].last = S.last, !.bf[dst].total_len = @ + S.total_len]

PREPEND_CHAIN(s, dst, src) ==
  LET S == s.bf[src] IN
  [s EXCEPT !.ch[S.last].next = s.bf[dst].first, !.bf[dst].first = S.first,
            !.bf[dst].total_len = @ + S.total_len,
            !.bf[dst].previous_to_last = IF @ = NULL THEN S.last ELSE @]

Counted(s, out, in, k) ==
  [ZERO_CHAIN(s, in) EXCEPT !.bf[in].n_del_for_cb = @ + k,
                            !.bf[out].n_add_for_cb = @ + k]

(* evbuffer_add_buffer: COPY_CHAIN when outbuf holds no bytes (its own   *)
(* chains, empty ones included, are overwritten), APPEND_CHAIN otherwise. *)
evbuffer_add_buffer(s, out, in) ==
  LET I == s.bf[in]
      O == s.bf[out]
      s1 == IF O.total_len = 0 THEN COPY_CHAIN(s, out, in) ELSE APPEND_CHAIN(s, out, in)
  IN IF I.total_len = 0 \/ out = in \/ O.freeze_end \/ I.freeze_start THEN s
     ELSE evbuffer_invoke_callbacks(
            evbuffer_invoke_callbacks(Counted(s1, out, in, I.total_len), in), out)

(* evbuffer_prepend_buffer: COPY_CHAIN or PREPEND_CHAIN. *)
evbuffer_prepend_buffer(s, out, in) ==
  LET I == s.bf[in]
      O == s.bf[out]
      s1 == IF O.total_len = 0 THEN COPY_CHAIN(s, out, in) ELSE PREPEND_CHAIN(s, out, in)
  IN IF I.total_len = 0 \/ out = in \/ O.freeze_start \/ I.freeze_start THEN s
     ELSE evbuffer_invoke_callbacks(
            evbuffer_invoke_callbacks(Counted(s1, out, in, I.total_len), in), out)

(* The loop of evbuffer_remove_buffer: walks the whole chains datlen      *)
(* covers, remembering the last two of them.                              *)
RECURSIVE MoveLoop(_, _, _, _, _, _)
MoveLoop(s, chain, prev, pp, datlen, k) ==
  IF chain = NULL \/ k = 0 \/ s.ch[chain].off > datlen
  THEN [chain |-> chain, prev |-> prev, pp |-> pp, datlen |-> datlen]
  ELSE MoveLoop(s, s.ch[chain].next, chain, prev, datlen - s.ch[chain].off, k - 1)

(* Mutant: previous->next is left pointing into src. *)
SpliceChains_linked(s, src, dst, prev, pp, chain, nread) ==
  LET D == s.bf[dst]
      t == IF D.first = NULL THEN [s EXCEPT !.bf[dst].first = s.bf[src].first]
           ELSE [s EXCEPT !.ch[D.last].next = s.bf[src].first]
  IN [t EXCEPT !.bf[dst].previous_to_last = pp, !.bf[dst].last = prev,
               !.bf[src].first = chain,
               !.bf[src].previous_to_last = IF chain = s.bf[src].last THEN NULL ELSE @,
               !.bf[dst].total_len = @ + nread, !.bf[dst].n_add_for_cb = @ + nread]

(* The `if (nread)` block of evbuffer_remove_buffer: the chains from     *)
(* src's first up to prev move to the end of dst, with pp, the chain     *)
(* before the last one visited, as dst's previous_to_last.               *)
SpliceChains(s, src, dst, prev, pp, chain, nread) ==
  LET D == s.bf[dst]
      t == IF D.first = NULL THEN [s EXCEPT !.bf[dst].first = s.bf[src].first]
           ELSE [s EXCEPT !.ch[D.last].next = s.bf[src].first]
  IN [t EXCEPT !.bf[dst].previous_to_last = pp,
               !.bf[dst].last = prev, !.ch[prev].next = NULL,
               !.bf[src].first = chain,
               !.bf[src].previous_to_last = IF chain = s.bf[src].last THEN NULL ELSE @,
               !.bf[dst].total_len = @ + nread, !.bf[dst].n_add_for_cb = @ + nread]

(* evbuffer_remove_buffer: moves whole chains to dst, setting dst's      *)
(* previous_to_last to the chain before the last one visited, then adds  *)
(* the rest of datlen with evbuffer_add and consumes it from src whether *)
(* or not that add succeeded.                                            *)
evbuffer_remove_buffer(s, src, dst, want) ==
  LET S == s.bf[src]
      D == s.bf[dst]
      r == MoveLoop(s, S.first, S.first, NULL, want, Fuel)
      chain == r.chain
      nread == want - r.datlen
      s1 == IF nread = 0 THEN s
            ELSE SpliceChains(s, src, dst, r.prev, r.pp, chain, nread)
      s2 == evbuffer_add(s1, dst, SubSeq(s1.ch[chain].data, 1, r.datlen)).s
      s3 == Removed(ChainConsume(s2, chain, r.datlen), src, want)
  IN IF want = 0 \/ dst = src \/ D.freeze_end \/ S.freeze_start THEN s
     ELSE IF want >= S.total_len THEN evbuffer_add_buffer(s, dst, src)
     ELSE IF chain = NULL THEN Fault(s)
     ELSE evbuffer_invoke_callbacks(evbuffer_invoke_callbacks(s3, dst), src)

(* The copy loop of evbuffer_pullup: frees every chain wholly copied and *)
(* collects its bytes.                                                    *)
RECURSIVE PullLoop(_, _, _, _, _)
PullLoop(s, c, size, acc, k) ==
  IF c = NULL \/ k = 0 \/ size < s.ch[c].off
  THEN [s |-> s, c |-> c, size |-> size, acc |-> acc]
  ELSE PullLoop(evbuffer_chain_free(s, c), s.ch[c].next, size - s.ch[c].off,
                acc \o s.ch[c].data, k - 1)

(* evbuffer_pullup: makes the first size bytes contiguous in the first   *)
(* chain, in place when it has the room and in a new first chain         *)
(* otherwise.  Its pin checks are left out: no chain is ever pinned.     *)
evbuffer_pullup(s, b, sz) ==
  LET B == s.bf[b]
      size == IF sz = -1 THEN B.total_len ELSE sz
      c == B.first
      inplace == s.ch[c].buffer_len - s.ch[c].misalign >= size
      n == NewChain(s)
      tmp == IF inplace THEN c ELSE n
      s0 == IF inplace THEN s
            ELSE [evbuffer_chain_new(s, n, size) EXCEPT !.bf[b].first = n]
      r == IF inplace THEN PullLoop(s0, s.ch[c].next, size - s.ch[c].off, s.ch[c].data, Fuel)
           ELSE PullLoop(s0, c, size, <<>>, Fuel)
      part == IF r.c = NULL THEN <<>> ELSE SubSeq(r.s.ch[r.c].data, 1, r.size)
      s1 == [r.s EXCEPT !.ch[tmp].off = size, !.ch[tmp].data = r.acc \o part,
                        !.ch[tmp].next = r.c]
      s2 == IF r.c = NULL
            THEN [s1 EXCEPT !.bf[b].last = tmp, !.bf[b].previous_to_last = NULL]
            ELSE IF r.c = s1.bf[b].last
                 THEN [ChainConsume(s1, r.c, r.size) EXCEPT !.bf[b].previous_to_last = tmp]
                 ELSE ChainConsume(s1, r.c, r.size)
  IN IF size = 0 \/ size > B.total_len \/ s.ch[c].off >= size THEN s
     ELSE IF ~inplace /\ n = NULL THEN s
     ELSE s2

(* _evbuffer_expand_fast: room for datlen bytes in the last two chains.  *)
(* An empty last chain is realigned, and replaced when too small.        *)
_evbuffer_expand_fast(s, b, datlen) ==
  LET c == s.bf[b].last
      C == s.ch[c]
      p == s.bf[b].previous_to_last
      n == NewChain(s)
      avail == IF C.off > 0 THEN C.buffer_len - (C.off + C.misalign) ELSE C.buffer_len
      inprev == IF C.off = 0 /\ p # NULL THEN SpaceLen(s, p) ELSE 0
      s0 == IF C.off = 0 THEN [s EXCEPT !.ch[c].misalign = 0] ELSE s
  IN IF c = NULL \/ "IMMUTABLE" \in C.flags THEN
        IF n = NULL THEN [s |-> s, ok |-> FALSE]
        ELSE [s |-> evbuffer_chain_insert(evbuffer_chain_new(s, n, datlen), b, n),
              ok |-> TRUE]
     ELSE IF avail + inprev >= datlen THEN [s |-> s0, ok |-> TRUE]
     ELSE IF n = NULL THEN [s |-> s0, ok |-> FALSE]
     ELSE IF C.off = 0
          THEN [s |-> ReplaceLast(evbuffer_chain_new(s0, n, datlen - inprev), b, c, n),
                ok |-> TRUE]
     ELSE [s |-> [evbuffer_chain_new(s0, n, datlen - avail) EXCEPT
                    !.bf[b].previous_to_last = c, !.ch[c].next = n,
                    !.bf[b].last = n],
           ok |-> TRUE]

(* _evbuffer_read_setup_vecs: the space readv may fill.  With an empty   *)
(* last chain and room in previous_to_last, the first vector is that     *)
(* room, whole; when it alone covers howmuch only it is used (intoPrev). *)
_evbuffer_read_setup_vecs(s, b, howmuch) ==
  LET c == s.bf[b].last
      p == s.bf[b].previous_to_last
  IN IF s.ch[c].off = 0 /\ p # NULL /\ SpaceLen(s, p) > 0 THEN
        IF SpaceLen(s, p) >= howmuch
        THEN [nvecs |-> 1, intoPrev |-> TRUE, cap |-> SpaceLen(s, p)]
        ELSE [nvecs |-> 2, intoPrev |-> FALSE,
              cap |-> SpaceLen(s, p) + Least(SpaceLen(s, c), howmuch - SpaceLen(s, p))]
     ELSE [nvecs |-> 1, intoPrev |-> FALSE, cap |-> Least(SpaceLen(s, c), howmuch)]

(* How many bytes readv may return to evbuffer_read. *)
ReadCap(s, b, howmuch) ==
  LET r == _evbuffer_expand_fast(s, b, howmuch) IN
  IF s.bf[b].freeze_end \/ ~r.ok THEN 0
  ELSE _evbuffer_read_setup_vecs(r.s, b, howmuch).cap

(* Bytes of uninitialised memory. *)
Garbage == 0

(* evbuffer_read (the iovec build) of the bytes bs readv returned.  With *)
(* two vectors previous_to_last is filled first; with one, the bytes are *)
(* credited to the last chain, even when the vector was the room of      *)
(* previous_to_last.                                                     *)
evbuffer_read(s, b, howmuch, bs) ==
  LET r == _evbuffer_expand_fast(s, b, howmuch)
      s0 == r.s
      v == _evbuffer_read_setup_vecs(s0, b, howmuch)
      c == s0.bf[b].last
      p == s0.bf[b].previous_to_last
      n == Len(bs)
      sp == SpaceLen(s0, p)
      s1 == IF v.nvecs = 2 THEN
               IF sp < n THEN ChainAppend(ChainAppend(s0, p, SubSeq(bs, 1, sp)), c,
                                          SubSeq(bs, sp + 1, n))
               ELSE ChainAppend(s0, p, bs)
            ELSE IF v.intoPrev THEN ChainAppend(s0, c, [i \in 1 .. n |-> Garbage])
            ELSE ChainAppend(s0, c, bs)
  IN IF s.bf[b].freeze_end THEN s
     ELSE IF ~r.ok \/ n = 0 THEN s0
     ELSE evbuffer_invoke_callbacks(Added(s1, b, n), b)

(* The bytes evbuffer_write_iovec hands to writev: whole chains from the *)
(* first while howmuch covers them, then part of the next.               *)
RECURSIVE IovLen(_, _, _, _)
IovLen(s, c, h, k) ==
  IF c = NULL \/ h = 0 \/ k = 0 THEN 0
  ELSE IF h >= s.ch[c].off THEN s.ch[c].off + IovLen(s, s.ch[c].next, h - s.ch[c].off, k - 1)
  ELSE h

WriteCap(s, b, howmuch) ==
  IF s.bf[b].freeze_start THEN 0
  ELSE IovLen(s, s.bf[b].first, IF howmuch < 0 THEN s.bf[b].total_len ELSE howmuch, Fuel)

(* evbuffer_write_atmost: writev sent n bytes, which are drained. *)
evbuffer_write_atmost(s, b, n) ==
  IF s.bf[b].freeze_start \/ n <= 0 THEN s ELSE evbuffer_drain(s, b, n)

(* evbuffer_add_reference of the bytes bs: an immutable chain over them. *)
evbuffer_add_reference(s, b, bs) ==
  LET n == NewChain(s)
      s1 == [s EXCEPT !.ch[n] = [FreeChain EXCEPT
                                   !.used = TRUE, !.flags = {"REFERENCE", "IMMUTABLE"},
                                   !.buffer_len = Len(bs), !.off = Len(bs), !.data = bs]]
      s2 == evbuffer_chain_insert(s1, b, n)
  IN IF n = NULL \/ s.bf[b].freeze_end THEN [s |-> s, ok |-> FALSE]
     ELSE [s |-> evbuffer_invoke_callbacks(
                   [s2 EXCEPT !.bf[b].n_add_for_cb = @ + Len(bs)], b),
           ok |-> TRUE]

(* evbuffer_freeze / evbuffer_unfreeze. *)
evbuffer_freeze(s, b, start, on) ==
  IF start THEN [s EXCEPT !.bf[b].freeze_start = on]
  ELSE [s EXCEPT !.bf[b].freeze_end = on]

-----------------------------------------------------------------------------
(* Scanning the chains: the line reader and the search (buffer.c 933-    *)
(* 1108, 1759-1911).  The code tests bytes only for CR, LF and the bytes *)
(* of a needle, so a byte is one of the characters Chars; the heap keeps *)
(* serial numbers and V maps them to characters.  An iterator (struct    *)
(* evbuffer_iterator, or the _internal part of an evbuffer_ptr) is a     *)
(* chain and an offset from the chain's misalign.                        *)

Chars == {"CR", "LF", "x"}

(* The chains reachable from c, at most k of them. *)
RECURSIVE ChainSeq(_, _, _)
ChainSeq(s, c, k) ==
  IF c = NULL \/ k = 0 THEN <<>> ELSE <<c>> \o ChainSeq(s, s.ch[c].next, k - 1)

(* The bytes b holds, chain after chain. *)
ContentIn(s, b) ==
  LET L == ChainSeq(s, s.bf[b].first, Fuel)
  IN FlattenSeq([i \in 1 .. Len(L) |-> s.ch[L[i]].data])

CharAt(s, c, i, V) == V[s.ch[c].data[i + 1]]

ByteFuel == MaxBytes + Fuel   \* bounds the scans that step byte by byte

(* evbuffer_strpbrk: the bytes before the first one of set, counted from *)
(* the iterator, and the iterator moved onto it; count -1 when none.     *)
RECURSIVE StrPbrkFrom(_, _, _, _, _, _, _)
StrPbrkFrom(s, c, i, count, set, V, k) ==
  IF c = NULL \/ k = 0 THEN [count |-> -1, it |-> [chain |-> NULL, off |-> 0]]
  ELSE IF i >= s.ch[c].off THEN StrPbrkFrom(s, s.ch[c].next, 0, count, set, V, k - 1)
  ELSE IF CharAt(s, c, i, V) \in set THEN [count |-> count, it |-> [chain |-> c, off |-> i]]
  ELSE StrPbrkFrom(s, c, i + 1, count + 1, set, V, k - 1)

evbuffer_strpbrk(s, it, set, V) == StrPbrkFrom(s, it.chain, it.off, 0, set, V, ByteFuel)

evbuffer_strchr(s, it, chr, V) == evbuffer_strpbrk(s, it, {chr}, V)

(* evbuffer_strspn: how many bytes of set follow from chain c, offset i. *)
RECURSIVE StrSpnFrom(_, _, _, _, _, _)
StrSpnFrom(s, c, i, set, V, k) ==
  IF c = NULL \/ k = 0 THEN 0
  ELSE IF i >= s.ch[c].off THEN StrSpnFrom(s, s.ch[c].next, 0, set, V, k - 1)
  ELSE IF CharAt(s, c, i, V) \in set THEN 1 + StrSpnFrom(s, c, i + 1, set, V, k - 1)
  ELSE 0

evbuffer_strspn(s, c, i, set, V) == StrSpnFrom(s, c, i, set, V, ByteFuel)

(* evbuffer_getchr: moves an offset past the end of its chain onto the   *)
(* chains after it and reads the byte there; ok FALSE past the last one. *)
RECURSIVE evbuffer_getchr(_, _, _, _)
evbuffer_getchr(s, it, V, k) ==
  IF it.off < s.ch[it.chain].off
  THEN [ok |-> TRUE, chr |-> CharAt(s, it.chain, it.off, V), it |-> it]
  ELSE IF s.ch[it.chain].next = NULL \/ k = 0 THEN [ok |-> FALSE, chr |-> "x", it |-> it]
  ELSE evbuffer_getchr(s, [chain |-> s.ch[it.chain].next,
                           off |-> it.off - s.ch[it.chain].off], V, k - 1)

(* The EVBUFFER_EOL_CRLF_STRICT loop: find a CR, step past it, and stop *)
(* if an LF follows; otherwise count the CR and search again.  -1 when   *)
(* there is no CR LF pair, or when the last CR ends the buffer.          *)
(* Mutant: a CR that no LF follows is not counted in the line. *)
RECURSIVE CrlfStrictScan_uncounted(_, _, _, _, _)
CrlfStrictScan_uncounted(s, it, count, V, k) ==
  LET t == evbuffer_strchr(s, it, "CR", V)
      g == evbuffer_getchr(s, [t.it EXCEPT !.off = @ + 1], V, Fuel)
  IN IF t.count = -1 \/ k = 0 \/ ~g.ok THEN -1
     ELSE IF g.chr = "LF" THEN count + t.count
     ELSE CrlfStrictScan_uncounted(s, g.it, count + t.count, V, k - 1)

RECURSIVE CrlfStrictScan(_, _, _, _, _)
CrlfStrictScan(s, it, count, V, k) ==
  LET t == evbuffer_strchr(s, it, "CR", V)
      g == evbuffer_getchr(s, [t.it EXCEPT !.off = @ + 1], V, Fuel)
  IN IF t.count = -1 \/ k = 0 \/ ~g.ok THEN -1
     ELSE IF g.chr = "LF" THEN count + t.count
     ELSE CrlfStrictScan(s, g.it, count + t.count + 1, V, k - 1)

EOL_STYLES == {"ANY", "CRLF", "CRLF_STRICT", "LF"}

(* The switch of evbuffer_readln: the bytes of the line (n, -1 for no    *)
(* line yet) and the end-of-line bytes drained after it (extra).         *)
EolScan(s, b, style, V) ==
  LET it == [chain |-> s.bf[b].first, off |-> 0]
      p == evbuffer_strpbrk(s, it, {"CR", "LF"}, V)
      q == evbuffer_strchr(s, it, "LF", V)
  IN CASE style = "ANY" ->
            [n |-> p.count,
             extra |-> IF p.count = -1 THEN 0
                       ELSE evbuffer_strspn(s, p.it.chain, p.it.off, {"CR", "LF"}, V)]
       [] style = "CRLF_STRICT" -> [n |-> CrlfStrictScan(s, it, 0, V, ByteFuel), extra |-> 2]
       [] OTHER -> [n |-> q.count, extra |-> 1]

(* evbuffer_readln: the line and the state after it.  When mm_malloc of *)
(* the line fails (nomem) the line and its end are drained and lost.     *)
evbuffer_readln(s, b, style, V, nomem) ==
  LET e == EolScan(s, b, style, V)
      line == SubSeq(ContentIn(s, b), 1, e.n)
      strip == style = "CRLF" /\ e.n > 0 /\ V[line[e.n]] = "CR"
  IN IF s.bf[b].freeze_start \/ e.n = -1 THEN [s |-> s, found |-> FALSE, line |-> <<>>]
     ELSE IF nomem THEN [s |-> evbuffer_drain(s, b, e.n + e.extra), found |-> FALSE, line |-> <<>>]
     ELSE [s |-> evbuffer_drain(evbuffer_remove(s, b, e.n), b, e.extra),
           found |-> TRUE,
           line |-> IF strip THEN SubSeq(line, 1, e.n - 1) ELSE line]

(* An evbuffer_ptr: the position from the start of the buffer, and its *)
(* chain and offset in it.  The NULL start of evbuffer_search is the     *)
(* pointer to the first byte.                                            *)
StartPtr(s, b) == [pos |-> 0, chain |-> s.bf[b].first, off |-> 0]

NoPtr == [pos |-> -1, chain |-> NULL, off |-> 0]

(* The loop of evbuffer_ptr_set: skip whole chains while the target lies *)
(* at or past the end of the chain.                                      *)
RECURSIVE PtrWalk(_, _, _, _, _)
PtrWalk(s, c, position, left, k) ==
  IF c = NULL \/ k = 0 \/ position + left < s.ch[c].off
  THEN [chain |-> c, off |-> position + left]
  ELSE PtrWalk(s, s.ch[c].next, 0, left - (s.ch[c].off - position), k - 1)

(* evbuffer_ptr_set: SET counts from the first chain, ADD from where the *)
(* pointer is.  A target at or past the end fails with pos -1.           *)
evbuffer_ptr_set(s, b, ptr, position, how) ==
  LET w == IF how = "SET" THEN PtrWalk(s, s.bf[b].first, 0, position, Fuel)
           ELSE PtrWalk(s, ptr.chain, ptr.off, position, Fuel)
      pos == IF how = "SET" THEN position ELSE ptr.pos + position
  IN IF w.chain # NULL THEN [pos |-> pos, chain |-> w.chain, off |-> w.off]
     ELSE [ptr EXCEPT !.pos = -1, !.chain = NULL]

(* evbuffer_ptr_memcmp = 0: the bytes from the pointer on are mem.  A   *)
(* list that ends early compares equal, as the code's loop does.         *)
(* Mutant: only the bytes in the first chain are compared. *)
MemcmpFrom_first_chain(s, c, position, mem, V, k) ==
  IF mem = <<>> \/ c = NULL THEN TRUE
  ELSE \A i \in 0 .. Least(Len(mem), s.ch[c].off - position) - 1 :
          CharAt(s, c, position + i, V) = mem[i + 1]

RECURSIVE MemcmpFrom(_, _, _, _, _, _)
MemcmpFrom(s, c, position, mem, V, k) ==
  IF mem = <<>> \/ c = NULL \/ k = 0 THEN TRUE
  ELSE LET n == IF Len(mem) + position > s.ch[c].off THEN s.ch[c].off - position
                ELSE Len(mem)
       IN /\ \A i \in 0 .. n - 1 : CharAt(s, c, position + i, V) = mem[i + 1]
          /\ MemcmpFrom(s, s.ch[c].next, 0, SubSeq(mem, n + 1, Len(mem)), V, k - 1)

evbuffer_ptr_memcmp(s, b, ptr, mem, V) ==
  /\ ptr.pos + Len(mem) <= s.bf[b].total_len
  /\ MemcmpFrom(s, ptr.chain, ptr.off, mem, V, Fuel)

(* The loop of evbuffer_search: memchr for the first byte of what in the *)
(* rest of the chain; on a hit compare the whole of what, and on a miss  *)
(* step one byte past the hit, onto the next chain at the chain's end.   *)
RECURSIVE SearchFrom(_, _, _, _, _, _)
SearchFrom(s, b, pos, what, V, k) ==
  LET c == pos.chain
      hits == {i \in pos.off .. s.ch[c].off - 1 : CharAt(s, c, i, V) = what[1]}
      i == Min(hits)
      at == [pos EXCEPT !.pos = @ + (i - pos.off), !.off = i]
      past == IF i + 1 = s.ch[c].off
              THEN [pos |-> at.pos + 1, chain |-> s.ch[c].next, off |-> 0]
              ELSE [at EXCEPT !.pos = @ + 1, !.off = i + 1]
  IN IF c = NULL \/ k = 0 THEN [pos EXCEPT !.pos = -1, !.chain = NULL]
     ELSE IF hits = {}
          THEN SearchFrom(s, b, [pos |-> pos.pos + (s.ch[c].off - pos.off),
                                 chain |-> s.ch[c].next, off |-> 0], what, V, k - 1)
     ELSE IF evbuffer_ptr_memcmp(s, b, at, what, V) THEN at
     ELSE SearchFrom(s, b, past, what, V, k - 1)

evbuffer_search(s, b, what, start, V) ==
  IF what = <<>> THEN start ELSE SearchFrom(s, b, start, what, V, ByteFuel)

(* evbuffer_find: search from the start, then make the bytes up to the *)
(* end of the match contiguous.                                          *)
evbuffer_find(s, b, what, V) ==
  LET p == evbuffer_search(s, b, what, StartPtr(s, b), V)
  IN IF p.pos < 0 THEN s ELSE evbuffer_pullup(s, b, p.pos + Len(what))

(* The loop of evbuffer_add_vprintf: format into the space after the    *)
(* last chain's data; when the text and its NUL do not fit, expand by    *)
(* that much and format again.                                           *)
RECURSIVE PrintfLoop(_, _, _, _)
PrintfLoop(s, b, bs, k) ==
  LET c == s.bf[b].last
      space == s.ch[c].buffer_len - (s.ch[c].misalign + s.ch[c].off)
      r == evbuffer_expand(s, b, Len(bs) + 1)
  IN IF k = 0 THEN [s |-> s, ok |-> FALSE]
     ELSE IF Len(bs) < space
          THEN [s |-> evbuffer_invoke_callbacks(Added(ChainAppend(s, c, bs), b, Len(bs)), b),
                ok |-> TRUE]
     ELSE IF ~r.ok THEN r
     ELSE PrintfLoop(r.s, b, bs, k - 1)

(* evbuffer_add_vprintf of a text that formats to the bytes bs. *)
evbuffer_add_vprintf(s, b, bs) ==
  LET r == evbuffer_expand(s, b, PRINTF_MIN_SPACE)
  IN IF s.bf[b].freeze_end THEN [s |-> s, ok |-> FALSE]
     ELSE IF ~r.ok THEN r
     ELSE PrintfLoop(r.s, b, bs, 2)

-----------------------------------------------------------------------------
(* The environment: any thread calls any public function of Ops on any   *)
(* buffer with arguments from small sets; the buffer lock makes each call *)
(* one step.  New bytes get the next serial numbers.                     *)

Init == /\ m = [ch |-> [c \in ChainIds |-> FreeChain],
                bf |-> [b \in Bufs |-> NewBuf], fault |-> FALSE]
        /\ produced = 0
        /\ taking = FALSE
        /\ saved = [b \in Bufs |-> NoPtr]

Fresh(k) == [i \in 1 .. k |-> produced + i]

Writable(d) == produced + d <= MaxBytes

(* The calls that only add bytes at the end.  A caller resumes a search *)
(* only while its buffers just grow; any other call drops its pointers.  *)
GrowOps == {"add", "add_printf", "read", "reserve_space", "commit_space", "expand"}

Call(op, s, k) == /\ op \in Ops /\ ~m.fault
                  /\ m' = s /\ produced' = produced + k
                  /\ taking' = (op \in {"drain", "remove", "write", "readln"})
                  /\ saved' = IF op \in GrowOps THEN saved ELSE [x \in Bufs |-> NoPtr]

Add(b) == \E d \in Sizes : Writable(d) /\
            LET r == evbuffer_add(m, b, Fresh(d)) IN Call("add", r.s, IF r.ok THEN d ELSE 0)

Prepend(b) == \E d \in Sizes : Writable(d) /\
            LET r == evbuffer_prepend(m, b, Fresh(d)) IN
            Call("prepend", r.s, IF r.ok THEN d ELSE 0)

Expand(b) == \E d \in Sizes : Call("expand", evbuffer_expand(m, b, d).s, 0)

ReserveSpace(b) == \E d \in Sizes : Call("reserve_space", evbuffer_reserve_space(m, b, d), 0)

CommitSpace(b) == \E d \in Sizes : Writable(d) /\
            LET r == evbuffer_commit_space(m, b, Fresh(d)) IN
            Call("commit_space", r.s, IF r.ok THEN d ELSE 0)

AddReference(b) == \E d \in Sizes : Writable(d) /\
            LET r == evbuffer_add_reference(m, b, Fresh(d)) IN
            Call("add_reference", r.s, IF r.ok THEN d ELSE 0)

Drain(b) == \E d \in Sizes : Call("drain", evbuffer_drain(m, b, d), 0)

RemoveOut(b) == \E d \in Sizes : Call("remove", evbuffer_remove(m, b, d), 0)

Pullup(b) == \E d \in Sizes \cup {-1} : Call("pullup", evbuffer_pullup(m, b, d), 0)

AddBuffer(out, in) == Call("add_buffer", evbuffer_add_buffer(m, out, in), 0)

PrependBuffer(out, in) == Call("prepend_buffer", evbuffer_prepend_buffer(m, out, in), 0)

RemoveBuffer(src, dst) ==
  \E d \in Sizes : Call("remove_buffer", evbuffer_remove_buffer(m, src, dst, d), 0)

(* readv returns n bytes, 0 (end of file) or -1 (an error, as 0 here). *)
Read(b) == \E h \in Sizes :
             \E n \in 0 .. Least(ReadCap(m, b, h), MaxBytes - produced) :
                Call("read", evbuffer_read(m, b, h, Fresh(n)), n)

(* writev sends n of the bytes offered; n <= 0 changes nothing. *)
Write(b) == \E h \in Sizes \cup {-1} : \E n \in 1 .. WriteCap(m, b, h) :
              Call("write", evbuffer_write_atmost(m, b, n), 0)

(* readln with each end-of-line style; mm_malloc of the line may fail. *)
Readln(b) == "readln" \in Ops /\ \E st \in EOL_STYLES, nomem \in BOOLEAN :
               Call("readln", evbuffer_readln(m, b, st, ByteVal, nomem).s, 0)

Find(b) == "find" \in Ops /\ \E w \in Needles : Call("find", evbuffer_find(m, b, w, ByteVal), 0)

AddPrintf(b) == "add_printf" \in Ops /\ \E d \in Sizes : Writable(d) /\
            LET r == evbuffer_add_vprintf(m, b, Fresh(d)) IN
            Call("add_printf", r.s, IF r.ok THEN d ELSE 0)

(* A caller searches b from the start, or resumes one byte past the     *)
(* match it saved (evbuffer_ptr_set ADD 1, then evbuffer_search from it), *)
(* and keeps the result.  The search holds the lock and changes nothing. *)
Search(b) ==
  \E w \in Needles, resume \in BOOLEAN :
    LET p == evbuffer_ptr_set(m, b, saved[b], 1, "ADD")
    IN /\ "search" \in Ops /\ ~m.fault
       /\ resume => saved[b].pos >= 0
       /\ saved' = [saved EXCEPT ![b] =
                      IF ~resume THEN evbuffer_search(m, b, w, StartPtr(m, b), ByteVal)
                      ELSE IF p.pos < 0 THEN p
                      ELSE evbuffer_search(m, b, w, p, ByteVal)]
       /\ UNCHANGED <<m, produced>> /\ taking' = FALSE

Freeze(b) == \E start, on \in BOOLEAN : Call("freeze", evbuffer_freeze(m, b, start, on), 0)

Next == \E b, d \in Bufs :
          \/ Add(b) \/ Prepend(b) \/ Expand(b) \/ ReserveSpace(b) \/ CommitSpace(b)
          \/ AddReference(b) \/ Drain(b) \/ RemoveOut(b) \/ Pullup(b)
          \/ AddBuffer(b, d) \/ PrependBuffer(b, d) \/ RemoveBuffer(b, d)
          \/ Read(b) \/ Write(b) \/ Freeze(b) \/ Readln(b) \/ Find(b)
          \/ AddPrintf(b) \/ Search(b)

Spec == Init /\ [][Next]_vars

-----------------------------------------------------------------------------
Chains(b) == ChainSeq(m, m.bf[b].first, Fuel)

Content(b) == ContentIn(m, b)

Stream == INSTANCE EvBufferStream
            WITH content <- [b \in Bufs |-> Content(b)],
                 length <- [b \in Bufs |-> m.bf[b].total_len],
                 written <- produced, taking <- taking

ChainRec == [used : BOOLEAN, next : ChainIds \cup {NULL}, buffer_len : Nat,
             misalign : Nat, off : Nat, data : Seq(0 .. MaxBytes),
             flags : SUBSET {"IMMUTABLE", "REFERENCE", "DANGLING"}]

TypeOK ==
  /\ m.fault \in BOOLEAN
  /\ m.ch \in [ChainIds -> ChainRec]
  /\ \A c \in ChainIds : Len(m.ch[c].data) = m.ch[c].off
  /\ \A b \in Bufs :
        /\ {m.bf[b].first, m.bf[b].last, m.bf[b].previous_to_last} \subseteq ChainIds \cup {NULL}
        /\ m.bf[b].total_len \in Nat
        /\ {m.bf[b].freeze_start, m.bf[b].freeze_end} \subseteq BOOLEAN
  /\ produced \in 0 .. MaxBytes
  /\ taking \in BOOLEAN
  /\ saved \in [Bufs -> [pos : -1 .. MaxBytes, chain : ChainIds \cup {NULL}, off : Nat]]

-----------------------------------------------------------------------------
(* No call writes through NULL or freed memory, and the chain lists are   *)
(* sound: each ends, holds only allocated chains, and no chain is on the  *)
(* lists of two buffers (the splicing of add_buffer, prepend_buffer and   *)
(* remove_buffer, the replacements of expand and expand_fast).           *)
MemorySafe ==
  /\ ~m.fault
  /\ \A b \in Bufs :
        /\ Len(Chains(b)) <= Cardinality(ChainIds)
        /\ \A i \in 1 .. Len(Chains(b)) : m.ch[Chains(b)[i]].used
  /\ \A b, d \in Bufs : b # d => ToSet(Chains(b)) \cap ToSet(Chains(d)) = {}

(* No chain leaks: every allocated chain is on some buffer's list, so    *)
(* the frees of drain, remove, pullup and the chain replacements reach    *)
(* everything allocated and nothing is dropped from a list unfreed.      *)
NoLeak == \A c \in ChainIds : m.ch[c].used => \E b \in Bufs : Contains(Chains(b), c)

(* _evbuffer_validate of test/regress_buffer.c after every call: the     *)
(* cached last, previous_to_last and total_len agree with the list, and  *)
(* no chain holds more than its buffer.                                  *)
Valid ==
  \A b \in Bufs :
    LET B == m.bf[b]
        L == Chains(b)
    IN /\ B.first = NULL => B.last = NULL /\ B.previous_to_last = NULL /\ B.total_len = 0
       /\ B.previous_to_last = NULL => B.first = B.last
       /\ L # <<>> => /\ B.last = L[Len(L)]
                      /\ B.previous_to_last = IF Len(L) = 1 THEN NULL ELSE L[Len(L) - 1]
       /\ \A i \in 1 .. Len(L) :
             m.ch[L[i]].buffer_len >= m.ch[L[i]].misalign + m.ch[L[i]].off
       /\ Len(Content(b)) = B.total_len

(* The callbacks of a buffer are told orig_size = the new_size of their  *)
(* previous call, i.e. n_add_for_cb and n_del_for_cb account for exactly *)
(* the bytes each call added and removed.                                *)
CallbackSizesAgree == \A b \in CbBufs : m.bf[b].cb_orig = m.bf[b].cb_due

(* The buffer is a byte queue: every call moves bytes exactly as          *)
(* EvBufferStream allows, without losing, duplicating or reordering any, *)
(* and total_len is the number held.                                     *)
StreamSpec == Stream!Spec

-----------------------------------------------------------------------------
(* Reference definitions from spec 4.4, over the characters str the     *)
(* buffer holds.                                                          *)
Str(seq, V) == [i \in DOMAIN seq |-> V[seq[i]]]

IsEol(ch) == ch \in {"CR", "LF"}

NoLine == [found |-> FALSE, line |-> <<>>, rest |-> <<>>]

(* The line is str[1..i-1]; the end of line is str[i..j]. *)
LineAt(str, i, j) ==
  [found |-> TRUE, line |-> SubSeq(str, 1, i - 1), rest |-> SubSeq(str, j + 1, Len(str))]

(* read_line: any of CR/LF ending a line and every CR/LF after it; only *)
(* a CR LF pair; LF, dropping a CR before it; LF only.                  *)
RefReadln(str, style) ==
  LET lf == SelectInSeq(str, LAMBDA ch : ch = "LF")
      eol == SelectInSeq(str, IsEol)
      pairs == [i \in 1 .. Len(str) - 1 |-> <<str[i], str[i + 1]>>]
      crlf == SelectInSeq(pairs, LAMBDA pr : pr = <<"CR", "LF">>)
      runEnd == Max({j \in eol .. Len(str) : \A i \in eol .. j : IsEol(str[i])})
      lfLine == LineAt(str, lf, lf)
  IN CASE style = "ANY" -> IF eol = 0 THEN NoLine ELSE LineAt(str, eol, runEnd)
       [] style = "CRLF_STRICT" -> IF crlf = 0 THEN NoLine ELSE LineAt(str, crlf, crlf + 1)
       [] style = "LF" -> IF lf = 0 THEN NoLine ELSE lfLine
       [] style = "CRLF" ->
            IF lf = 0 THEN NoLine
            ELSE IF lfLine.line # <<>> /\ Last(lfLine.line) = "CR"
                 THEN [lfLine EXCEPT !.line = Front(@)] ELSE lfLine

(* search: the first position at or after from where what starts, -1   *)
(* when there is none.                                                   *)
RefSearch(str, what, from) ==
  LET at == {i \in from .. Len(str) - Len(what) : SubSeq(str, i + 1, i + Len(what)) = what}
  IN IF at = {} THEN -1 ELSE Min(at)

(* evbuffer_readln returns the line read_line promises under every style *)
(* and every assignment of characters to the bytes held, and leaves      *)
(* exactly the bytes after the end of line: the iterator walk of         *)
(* strpbrk/strchr/strspn/getchr across chains, the CRLF_STRICT retry     *)
(* loop, the CR strip of EOL_CRLF, and the remove-then-drain of a line   *)
(* that spans chains.                                                     *)
ReadlnAgrees ==
  \A b \in Bufs : ~m.bf[b].freeze_start =>
    \A st \in EOL_STYLES, V \in [ToSet(Content(b)) -> Chars] :
      LET r == evbuffer_readln(m, b, st, V, FALSE)
          ref == RefReadln(Str(Content(b), V), st)
      IN /\ r.found = ref.found
         /\ Str(r.line, V) = ref.line
         /\ r.found => Str(ContentIn(r.s, b), V) = ref.rest

(* evbuffer_search, started at a pointer placed by evbuffer_ptr_set (SET *)
(* to k, then ADD d) or at the start, finds the first match at or after *)
(* it across chain boundaries: the memchr skip, the one-byte step after  *)
(* a false hit at a chain's end, the cross-chain evbuffer_ptr_memcmp.    *)
(* The pointer returned names the chain and offset of its position, so  *)
(* a search can resume from it; ptr_set lands on k + d, and fails at or  *)
(* past the end.  The search compares bytes only for equality, so two  *)
(* characters, one in and one out of a needle, reach every case.        *)
SearchAgrees ==
  \A b \in Bufs, what \in Needles : \A V \in [ToSet(Content(b)) -> {"CR", "LF"}] :
    LET str == Str(Content(b), V)
        len == m.bf[b].total_len
        r == evbuffer_search(m, b, what, StartPtr(m, b), V)
    IN /\ r.pos = RefSearch(str, what, 0)
       /\ r.pos >= 0 => evbuffer_ptr_set(m, b, r, r.pos, "SET") = r
       /\ \A k \in 0 .. len, d \in 0 .. 1 :
             LET p == evbuffer_ptr_set(m, b, evbuffer_ptr_set(m, b, StartPtr(m, b), k, "SET"), d, "ADD")
             IN /\ p.pos = IF k + d < len THEN k + d ELSE -1
                /\ p.pos >= 0 => evbuffer_search(m, b, what, p, V).pos = RefSearch(str, what, p.pos)

(* A pointer evbuffer_search returned stays good while its buffer only  *)
(* grows (spec 4.4: search resumes from it over growing buffers): it     *)
(* still names the chain and offset evbuffer_ptr_set gives its position, *)
(* so the ptr_set ADD and search that resume from it read live bytes.    *)
SavedPtrValid ==
  \A b \in Bufs : saved[b].pos >= 0 =>
     evbuffer_ptr_set(m, b, saved[b], saved[b].pos, "SET") = saved[b]

====
