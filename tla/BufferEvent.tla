---------------------------- MODULE BufferEvent ----------------------------
(***************************************************************************)
(* The generic bufferevent layer of libevent-2.0.1-alpha                  *)
(* (src/libevent-2.0.1-alpha/bufferevent.c): an input and an output       *)
(* evbuffer, the directions the user enabled, read suspension by the      *)
(* input's high watermark, timeouts, the reference count and the lock.    *)
(*                                                                         *)
(* The backend behind be_ops (bufferevent_sock.c) is not in the           *)
(* repository: its enable/disable add and delete its read and write       *)
(* events (impl), its read callback appends what it read to input with    *)
(* evbuffer_read, and its write callback drains output.                   *)
(*                                                                         *)
(* Data is abstracted to the number of bytes in each evbuffer.  Each      *)
(* public function is one step: with BEV_OPT_THREADSAFE it runs holding   *)
(* the bufferevent lock (shared with input and output by                   *)
(* bufferevent_enable_locking), so it is enabled only while no other      *)
(* thread holds that lock; without the option the bufferevent is used     *)
(* from one thread.  The lock is recursive: evbuffer runs its callbacks,  *)
(* and so the watermark callback, with the lock held.                     *)
(***************************************************************************)
EXTENDS Naturals

CONSTANTS
  MaxLen,      \* bytes an evbuffer holds at most in the model
  ReadSizes,   \* sizes of bufferevent_read and of the backend's reads
  Marks,       \* watermark values passed to bufferevent_setwatermark
  TVs,         \* timeouts passed to bufferevent_set_timeouts (0 = cleared)
  MaxRef,      \* bound on the reference count (bufferevent_incref)
  Threadsafe,  \* BEV_OPT_THREADSAFE was passed to bufferevent_init_common
  NONE

ASSUME /\ MaxLen \in Nat /\ ReadSizes \subseteq Nat \ {0} /\ Marks \subseteq Nat
       /\ 0 \in TVs /\ MaxRef \in Nat \ {0} /\ Threadsafe \in BOOLEAN

Dirs == {"READ", "WRITE"}                 \* EV_READ, EV_WRITE
DirSets == {{"READ"}, {"WRITE"}, Dirs}
Threads == {"app", "loop"}                \* the user's thread, the loop running the backend
CbStates == {"none", "enabled", "disabled"} \* read_watermarks_cb: NULL, or its flags

VARIABLES
  bev,     \* struct bufferevent and bufferevent_private
  input,   \* evbuffer_get_length(bufev->input)
  output   \* evbuffer_get_length(bufev->output)

vars == <<bev, input, output>>

Least(a, b) == IF a <= b THEN a ELSE b

(* bufferevent_enable_locking(bufev, NULL): fails if a lock is set;      *)
(* otherwise allocates a lock the bufferevent owns, which                *)
(* evbuffer_enable_locking gives to input and output as well.            *)
bufferevent_enable_locking(b) ==
  IF b.lock # "none" THEN b ELSE [b EXCEPT !.lock = "own"]

(* bufferevent_init_common: enabled = EV_WRITE, timeouts cleared,          *)
(* refcnt = 1, and the lock enabled with BEV_OPT_THREADSAFE.               *)
Init ==
  /\ LET b0 == [enabled |-> {"WRITE"}, impl |-> {}, read_suspended |-> FALSE,
            wm_read |-> [low |-> 0, high |-> 0],
            wm_write |-> [low |-> 0, high |-> 0],
            wmcb |-> "none", timeout |-> [d \in Dirs |-> 0],
            refcnt |-> 1, freed |-> FALSE, lock |-> "none",
            owner |-> NONE, depth |-> 0]
         IN bev = IF Threadsafe THEN bufferevent_enable_locking(b0) ELSE b0
  /\ input = 0 /\ output = 0

(***************************************************************************)
(* The lock.  BEV_LOCK / BEV_UNLOCK, and EVBUFFER_LOCK / EVBUFFER_UNLOCK   *)
(* on input and output, take the same recursive lock; while the lock is   *)
(* NULL (no BEV_OPT_THREADSAFE, or freed) they do nothing.                *)
(***************************************************************************)
BEV_LOCK(b, t) ==
  IF b.lock # "none" THEN [b EXCEPT !.owner = t, !.depth = @ + 1] ELSE b

BEV_UNLOCK(b) ==
  IF b.lock # "none" THEN [b EXCEPT !.depth = @ - 1,
                               !.owner = IF b.depth = 1 THEN NONE ELSE @]
  ELSE b

CanLock(t) == bev.owner \in {NONE, t}

(* The backend's enable and disable add and delete its events. *)
be_enable(b, evs) == [b EXCEPT !.impl = @ \cup evs]
be_disable(b, evs) == [b EXCEPT !.impl = @ \ evs]

(***************************************************************************)
(* Read suspension.  Both functions end with a second BEV_LOCK where       *)
(* BEV_UNLOCK belongs (bufferevent.c lines 68 and 83).                     *)
(***************************************************************************)
SuspendBody(b) ==
  IF b.read_suspended THEN b
  ELSE [be_disable(b, {"READ"}) EXCEPT !.read_suspended = TRUE]

bufferevent_wm_suspend_read(b, t) == BEV_LOCK(SuspendBody(BEV_LOCK(b, t)), t)

UnsuspendBody(b) ==
  IF ~b.read_suspended THEN b
  ELSE LET b1 == [b EXCEPT !.read_suspended = FALSE]
       IN IF "READ" \in b.enabled THEN be_enable(b1, {"READ"}) ELSE b1

bufferevent_wm_unsuspend_read(b, t) == BEV_LOCK(UnsuspendBody(BEV_LOCK(b, t)), t)

(* The watermark callback of input, given the new size and the bytes      *)
(* added and deleted since the callbacks last ran.                        *)
bufferevent_inbuf_wm_cb(b, size, added, deleted, t) ==
  IF added > deleted
  THEN IF size >= b.wm_read.high THEN bufferevent_wm_suspend_read(b, t) ELSE b
  ELSE IF size < b.wm_read.high THEN bufferevent_wm_unsuspend_read(b, t) ELSE b

(* evbuffer_add_cb: a new entry, EVBUFFER_CB_ENABLED; read_watermarks_cb *)
(* is "none" while it is NULL.  evbuffer_cb_set_flags sets its flags.     *)
evbuffer_add_cb(b) == [b EXCEPT !.wmcb = "enabled"]
evbuffer_cb_set_flags(b, f) == [b EXCEPT !.wmcb = f]

(* evbuffer_free of input, whose only reference the bufferevent holds:    *)
(* _evbuffer_decref_and_unlock frees its chains and, with                 *)
(* evbuffer_remove_all_callbacks, the watermark callback.                 *)
evbuffer_free(b) == [b EXCEPT !.wmcb = "none"]

(* evbuffer_run_callbacks on input, whose only callback is the watermark  *)
(* one: nothing runs when nothing changed or the callback is disabled.    *)
InputCallbacks(b, size, added, deleted, t) ==
  IF b.wmcb = "enabled" /\ (added # 0 \/ deleted # 0)
  THEN bufferevent_inbuf_wm_cb(b, size, added, deleted, t)
  ELSE b

(* An evbuffer operation on input: lock, change, run callbacks, unlock.  *)
InputOp(b, size, added, deleted, t) ==
  BEV_UNLOCK(InputCallbacks(BEV_LOCK(b, t), size, added, deleted, t))

(***************************************************************************)
(* The user's calls.  A call is made only while the bufferevent is not    *)
(* freed and the lock is free or the caller's.                            *)
(***************************************************************************)
AppCall == ~bev.freed /\ CanLock("app")

(* bufferevent_write / bufferevent_write_buffer: evbuffer_add or          *)
(* evbuffer_add_buffer on output, which has no callback of this layer.    *)
bufferevent_write(n) ==
  /\ AppCall /\ output + n <= MaxLen
  /\ output' = output + n
  /\ UNCHANGED <<bev, input>>

(* Mutant: evbuffer_remove without clamping n to the buffer's length. *)
bufferevent_read_unclamped(n) ==
  /\ AppCall
  /\ input' = input - n
  /\ bev' = InputOp(bev, input - n, 0, n, "app")
  /\ UNCHANGED output

(* bufferevent_read: evbuffer_remove(input, n); bufferevent_read_buffer   *)
(* moves all of input (n >= input).                                       *)
bufferevent_read(n) ==
  /\ AppCall
  /\ LET k == Least(n, input) IN
       /\ input' = input - k
       /\ bev' = InputOp(bev, input - k, 0, k, "app")
  /\ UNCHANGED output

(* Mutant: EV_READ is passed to the backend even while suspended. *)
bufferevent_enable_unmasked(ev) ==
  /\ AppCall
  /\ bev' = be_enable([bev EXCEPT !.enabled = @ \cup ev], ev)
  /\ UNCHANGED <<input, output>>

(* EV_READ is not passed to the backend while reading is suspended. *)
bufferevent_enable(ev) ==
  /\ AppCall
  /\ LET impl_events == IF bev.read_suspended THEN ev \ {"READ"} ELSE ev
     IN bev' = be_enable([bev EXCEPT !.enabled = @ \cup ev], impl_events)
  /\ UNCHANGED <<input, output>>

bufferevent_disable(ev) ==
  /\ AppCall
  /\ bev' = be_disable([bev EXCEPT !.enabled = @ \ ev], ev)
  /\ UNCHANGED <<input, output>>

(* bufferevent_set_timeouts, and bufferevent_settimeout which calls it;   *)
(* a zero or NULL timeout clears it.  adj_timeouts re-adds the backend's  *)
(* events with the new timeouts, which changes none of their flags here.  *)
bufferevent_set_timeouts(tr, tw) ==
  /\ AppCall
  /\ bev' = [bev EXCEPT !.timeout = [d \in Dirs |-> IF d = "READ" THEN tr ELSE tw]]
  /\ UNCHANGED <<input, output>>

(* Mutant: a new high mark above the length does not resume reading. *)
SetReadHighMark_no_resume(b, high, size, t) ==
  IF high # 0
  THEN LET b1 == evbuffer_cb_set_flags(
                   IF b.wmcb = "none" THEN evbuffer_add_cb(b) ELSE b, "enabled")
       IN IF size > high THEN bufferevent_wm_suspend_read(b1, t) ELSE b1
  ELSE bufferevent_wm_unsuspend_read(
         IF b.wmcb = "none" THEN b ELSE evbuffer_cb_set_flags(b, "disabled"), t)

(* The EV_READ branch of bufferevent_setwatermark, after the marks are    *)
(* stored: a high mark enables the watermark callback (adding it the      *)
(* first time) and suspends or resumes reading by the current length.    *)
SetReadHighMark(b, high, size, t) ==
  IF high # 0
  THEN LET b1 == evbuffer_cb_set_flags(
                   IF b.wmcb = "none" THEN evbuffer_add_cb(b) ELSE b, "enabled")
       IN IF size > high THEN bufferevent_wm_suspend_read(b1, t)
          ELSE IF size < high THEN bufferevent_wm_unsuspend_read(b1, t)
          ELSE b1
  ELSE bufferevent_wm_unsuspend_read(
         IF b.wmcb = "none" THEN b ELSE evbuffer_cb_set_flags(b, "disabled"), t)

SetMarks(b, evs, low, high) ==
  [b EXCEPT !.wm_write = IF "WRITE" \in evs THEN [low |-> low, high |-> high] ELSE @,
            !.wm_read = IF "READ" \in evs THEN [low |-> low, high |-> high] ELSE @]

bufferevent_setwatermark(evs, low, high) ==
  /\ AppCall
  /\ LET b1 == SetMarks(BEV_LOCK(bev, "app"), evs, low, high)
     IN bev' = BEV_UNLOCK(IF "READ" \in evs THEN SetReadHighMark(b1, high, input, "app")
                          ELSE b1)
  /\ UNCHANGED <<input, output>>

(* _bufferevent_decref_and_unlock: the last reference destructs the       *)
(* backend (deleting its events), frees input and output, unlocks, then   *)
(* frees the lock if the bufferevent owns it, and the memory.             *)
bufferevent_decref_and_unlock(b) ==
  IF b.refcnt > 1 THEN BEV_UNLOCK([b EXCEPT !.refcnt = @ - 1])
  ELSE LET b1 == BEV_UNLOCK(evbuffer_free([b EXCEPT !.refcnt = 0, !.impl = {}]))
       IN [b1 EXCEPT !.freed = TRUE,
                     !.lock = IF @ = "own" THEN "none" ELSE @]

bufferevent_free ==
  /\ AppCall
  /\ bev' = bufferevent_decref_and_unlock(BEV_LOCK(bev, "app"))
  /\ UNCHANGED <<input, output>>

bufferevent_incref ==
  /\ AppCall /\ bev.refcnt < MaxRef
  /\ bev' = [bev EXCEPT !.refcnt = @ + 1]
  /\ UNCHANGED <<input, output>>

(***************************************************************************)
(* The backend, in the loop thread, while its events are added.           *)
(***************************************************************************)
BackendCall == ~bev.freed /\ CanLock("loop")

(* The read event fired: evbuffer_read appends n bytes to input. *)
BackendRead(n) ==
  /\ BackendCall /\ "READ" \in bev.impl /\ input + n <= MaxLen
  /\ input' = input + n
  /\ bev' = InputOp(bev, input + n, n, 0, "loop")
  /\ UNCHANGED output

(* The write event fired: evbuffer_write drains up to n bytes of output. *)
BackendWrite(n) ==
  /\ BackendCall /\ "WRITE" \in bev.impl /\ output > 0
  /\ output' = output - Least(n, output)
  /\ UNCHANGED <<bev, input>>

Next ==
  \/ \E n \in ReadSizes : bufferevent_write(n) \/ BackendRead(n) \/ BackendWrite(n)
  \/ \E n \in ReadSizes \cup {MaxLen} : bufferevent_read(n)
  \/ \E ev \in DirSets : bufferevent_enable(ev) \/ bufferevent_disable(ev)
  \/ \E tr, tw \in TVs : bufferevent_set_timeouts(tr, tw)
  \/ \E evs \in DirSets, low, high \in Marks : bufferevent_setwatermark(evs, low, high)
  \/ bufferevent_free \/ bufferevent_incref

Spec == Init /\ [][Next]_vars

(***************************************************************************)
(* Properties.                                                            *)
(***************************************************************************)
TypeOK ==
  /\ bev.enabled \subseteq Dirs /\ bev.impl \subseteq Dirs
  /\ bev.read_suspended \in BOOLEAN
  /\ bev.wm_read \in [low : Marks \cup {0}, high : Marks \cup {0}]
  /\ bev.wm_write \in [low : Marks \cup {0}, high : Marks \cup {0}]
  /\ bev.wmcb \in CbStates /\ bev.timeout \in [Dirs -> TVs]
  /\ bev.refcnt \in 0 .. MaxRef /\ bev.freed \in BOOLEAN
  /\ bev.lock \in {"none", "own"}
  /\ bev.owner \in Threads \cup {NONE} /\ bev.depth \in Nat
  /\ input \in 0 .. MaxLen /\ output \in 0 .. MaxLen

(* The backend reads exactly while the user has reading enabled and the   *)
(* input is not over its high watermark: its read event is added iff      *)
(* EV_READ is enabled and reading is not suspended, whatever order        *)
(* enable, disable, setwatermark and the reads that cross the mark come   *)
(* in.                                                                    *)
ReadGate ==
  ~bev.freed =>
    (("READ" \in bev.impl) <=> ("READ" \in bev.enabled /\ ~bev.read_suspended))

(* With a read high watermark set, reading is suspended whenever input    *)
(* holds more than the mark, and resumed whenever it holds less, however  *)
(* the length and the mark got there (backend reads, user reads, a new    *)
(* mark).                                                                 *)
WatermarkRespected ==
  ~bev.freed /\ bev.wmcb = "enabled" =>
    /\ input > bev.wm_read.high => bev.read_suspended
    /\ input < bev.wm_read.high => ~bev.read_suspended

(* Every function takes the bufferevent lock as often as it releases it: *)
(* between calls no thread holds it, so the other thread can go on.      *)
BevLockReleased == bev.depth = 0

====
