----------------------------- MODULE EventBase -----------------------------
(***************************************************************************)
(* The event reactor of libevent-2.0.1-alpha (src/libevent-2.0.1-alpha/   *)
(* event.c): event registrations (struct event), the per-priority active  *)
(* queues, the timer set, the deferred-callback queue and the dispatch     *)
(* loop event_base_loop, run by one loop thread, interleaved with          *)
(* application threads (or callbacks) that call the public API.            *)
(*                                                                         *)
(* The base lock (th_base_lock) is modelled by the loop thread's           *)
(* acquisition depth lockDepth.  Each API call (event_add, event_del, ...) *)
(* takes the lock for its whole body, so it is one atomic step, enabled    *)
(* only while the loop thread does not hold the lock.  The loop releases   *)
(* the lock around every user callback, which is where the API calls of    *)
(* callbacks and of other threads interleave with the dispatch.            *)
(*                                                                         *)
(* Data is abstracted: a registration is a model value, its fd and         *)
(* callback are implied by which of the sets IOEvents, PersistEvents,      *)
(* InternalEvents and ExitEvents it belongs to; time is a small integer.   *)
(***************************************************************************)
EXTENDS Integers, Sequences, FiniteSets, SequencesExt, Functions

CONSTANTS
  Events,         \* registrations bound to the base
  IOEvents,       \* those with EV_READ interest; the others are evtimers
  PersistEvents,  \* those with EV_PERSIST
  InternalEvents, \* those flagged EVLIST_INTERNAL (e.g. the notify event)
  ExitEvents,     \* slots for the event_base_once timers of loopexit
  SignalEvents,   \* those with EV_SIGNAL (closure event_signal_closure)
  DeferredCbs,    \* struct deferred_cb entries
  NPRI,           \* base->nactivequeues
  Timeouts,       \* relative timeouts callers pass to event_add
  MaxTime,        \* the clock never passes MaxTime in a dispatch
  MaxCalls,       \* bound on API calls made by callbacks and threads
  MaxNcalls,      \* bound on the ncalls evsig_process delivers at once
  NULL

ASSUME /\ IOEvents \subseteq Events /\ PersistEvents \subseteq Events
       /\ InternalEvents \subseteq Events /\ ExitEvents \subseteq Events
       /\ ExitEvents \cap (IOEvents \cup PersistEvents) = {}
       /\ SignalEvents \subseteq Events
       /\ SignalEvents \cap (IOEvents \cup ExitEvents) = {}
       /\ MaxNcalls \in Nat \ {0}
       /\ NPRI \in Nat \ {0} /\ Timeouts \subseteq Nat
       /\ MaxTime \in Nat /\ MaxCalls \in Nat
       /\ NULL \notin Events \cup DeferredCbs

Pri == 0 .. NPRI - 1
Lists == {"INSERTED", "TIMEOUT", "ACTIVE"}   \* EVLIST_* queue flags
Results == {"READ", "TIMEOUT", "SIGNAL"}     \* EV_READ, EV_TIMEOUT, EV_SIGNAL
NoTimeout == -1                              \* event_add(ev, NULL)
Time == 0 .. MaxTime + Max(Timeouts \cup {0})
LoopFlagSets == {{}, {"ONCE"}, {"NONBLOCK"}} \* EVLOOP_ONCE, EVLOOP_NONBLOCK
LoopPCs == {"idle", "top", "dispatch", "ready", "timeouts", "active",
            "process", "closure", "callback", "deferred", "dcallback", "unlock",
            "after", "signal", "sigloop", "sigcallback"}

VARIABLES
  base,       \* struct event_base plus the fields of each struct event
  now,        \* gettime()
  pc,         \* where the loop thread is in event_base_loop
  loopFlags,  \* the flags argument of the running event_base_loop
  curPri,     \* i in event_process_active
  count,      \* count in event_process_active_single_queue
  cur,        \* the event or deferred_cb whose callback is running
  reported,   \* events select_dispatch reported ready in this dispatch
  lockDepth,  \* 1 while the loop thread holds th_base_lock, else 0
  badUnlock,  \* history: th_base_lock was released while not held
  calls,      \* API calls made so far (bounded by MaxCalls)
  pass,       \* history: callbacks dispatched in this event_process_active
  breakReq,   \* history: event_break was requested by a running callback
  retval,     \* what the last event_base_loop call returned
  sigLeft,    \* the local ncalls of the running event_signal_closure
  strayWrite  \* history: *ev_pncalls was written outside that event's closure

vars == <<base, now, pc, loopFlags, curPri, count, cur, reported,
          lockDepth, badUnlock, calls, pass, breakReq, retval, sigLeft,
          strayWrite>>

(***************************************************************************)
(* Queue bookkeeping: event_queue_insert / event_queue_remove.  The       *)
(* eventqueue (INSERTED) and the timer heap (TIMEOUT) are the sets of     *)
(* events carrying the flag; the active queues keep their FIFO order.     *)
(***************************************************************************)
Counted(e) == IF e \in InternalEvents THEN 0 ELSE 1

event_queue_insert(b, e, q) ==
  IF q \in b.flags[e] THEN b   \* double insertion only happens for ACTIVE
  ELSE [b EXCEPT !.flags[e] = @ \cup {q},
                 !.event_count = @ + Counted(e),
                 !.event_count_active = IF q = "ACTIVE" THEN @ + 1 ELSE @,
                 !.activeq[b.pri[e]] = IF q = "ACTIVE" THEN Append(@, e)
                                                       ELSE @]

event_queue_remove(b, e, q) ==
  [b EXCEPT !.flags[e] = @ \ {q},
            !.event_count = @ - Counted(e),
            !.event_count_active = IF q = "ACTIVE" THEN @ - 1 ELSE @,
            !.activeq[b.pri[e]] = IF q = "ACTIVE" THEN Remove(@, e) ELSE @]

RemoveIf(b, e, q) == IF q \in b.flags[e] THEN event_queue_remove(b, e, q)
                                         ELSE b

event_del_internal(b, e) ==
  RemoveIf(RemoveIf(RemoveIf(b, e, "TIMEOUT"), e, "ACTIVE"), e, "INSERTED")

(* A signal event records how often its callback is to run and forgets  *)
(* the closure frame ev_pncalls pointed into.                            *)
event_active_internal(b, e, r, n) ==
  IF "ACTIVE" \in b.flags[e] THEN [b EXCEPT !.res[e] = @ \cup {r}]
  ELSE IF e \in SignalEvents
       THEN event_queue_insert([b EXCEPT !.res[e] = {r}, !.ncalls[e] = n,
                                         !.pncalls[e] = NULL], e, "ACTIVE")
       ELSE event_queue_insert([b EXCEPT !.res[e] = {r}], e, "ACTIVE")

(***************************************************************************)
(* "Abort loop": event_del_internal, and event_add_internal re-arming a   *)
(* signal event that is active from a timeout, write 0 through            *)
(* ev_pncalls when ev_ncalls is non-zero.  ev_pncalls is the address of   *)
(* the local ncalls of the event_signal_closure call that set it; that    *)
(* closure is always called from the same frame of the loop thread, so   *)
(* the address holds the local ncalls of whichever signal closure runs    *)
(* now (sigLeft), or a dead stack slot when none runs.                    *)
(***************************************************************************)
AbortsLoop(b, e) == e \in SignalEvents /\ b.ncalls[e] # 0 /\ b.pncalls[e] # NULL

LiveFrame == IF pc \in {"sigloop", "sigcallback"} THEN cur ELSE NULL

WriteNcalls(w, e) ==
  /\ sigLeft' = IF w /\ LiveFrame # NULL THEN 0 ELSE sigLeft
  /\ strayWrite' = (strayWrite \/ (w /\ LiveFrame # e))

AddAborts(b, e, tv) ==
  /\ tv # NoTimeout /\ "ACTIVE" \in b.flags[e] /\ "TIMEOUT" \in b.res[e]
  /\ AbortsLoop(b, e)

(* Mutant: re-arming a timer leaves a pending EV_TIMEOUT activation.     *)
event_add_internal_keep_active(b, e, tv, t) ==
  LET b1 == IF e \in IOEvents \cup SignalEvents /\ b.flags[e] \cap {"INSERTED", "ACTIVE"} = {}
            THEN event_queue_insert(b, e, "INSERTED") ELSE b
      b2 == IF e \in PersistEvents \ SignalEvents THEN [b1 EXCEPT !.io_timeout[e] = tv]
                                   ELSE b1
      b3 == RemoveIf(b2, e, "TIMEOUT")
  IN IF tv = NoTimeout THEN b1
     ELSE event_queue_insert([b3 EXCEPT !.timeout[e] = t + tv], e, "TIMEOUT")

(* event_add_internal(ev, tv) at time t; tv = NoTimeout is tv == NULL.    *)
event_add_internal(b, e, tv, t) ==
  LET b1 == IF e \in IOEvents \cup SignalEvents /\ b.flags[e] \cap {"INSERTED", "ACTIVE"} = {}
            THEN event_queue_insert(b, e, "INSERTED") ELSE b
      b2 == IF e \in PersistEvents \ SignalEvents THEN [b1 EXCEPT !.io_timeout[e] = tv]
                                   ELSE b1
      b3 == RemoveIf(b2, e, "TIMEOUT")
      b4 == IF "ACTIVE" \in b3.flags[e] /\ "TIMEOUT" \in b3.res[e]
            THEN event_queue_remove(b3, e, "ACTIVE") ELSE b3
  IN IF tv = NoTimeout THEN b1
     ELSE event_queue_insert([b4 EXCEPT !.timeout[e] = t + tv], e, "TIMEOUT")

Init ==
  /\ base = [flags |-> [e \in Events |-> {}],
             res |-> [e \in Events |-> {}],
             pri |-> [e \in Events |-> NPRI \div 2],
             timeout |-> [e \in Events |-> 0],
             io_timeout |-> [e \in Events |-> 0],
             activeq |-> [p \in Pri |-> <<>>],
             event_count |-> 0,
             event_count_active |-> 0,
             deferred |-> <<>>,
             queued |-> [d \in DeferredCbs |-> FALSE],
             event_gotterm |-> FALSE,
             event_break |-> FALSE,
             ncalls |-> [e \in Events |-> 0],
             pncalls |-> [e \in Events |-> NULL]]
  /\ now = 0
  /\ pc = "idle"
  /\ loopFlags = {}
  /\ curPri = 0
  /\ count = 0
  /\ cur = NULL
  /\ reported = {}
  /\ lockDepth = 0
  /\ badUnlock = FALSE
  /\ calls = 0
  /\ pass = <<>>
  /\ breakReq = FALSE
  /\ retval = 0
  /\ sigLeft = 0
  /\ strayWrite = FALSE

(***************************************************************************)
(* API calls.  Each takes th_base_lock for its whole body, so it runs     *)
(* only while the loop thread does not hold it; it may be made by another *)
(* thread or by a callback the loop is running.                           *)
(***************************************************************************)
APICall(b2) ==
  /\ lockDepth = 0
  /\ calls < MaxCalls
  /\ calls' = calls + 1
  /\ base' = b2

event_add(e, tv) ==
  /\ e \notin ExitEvents
  /\ APICall(event_add_internal(base, e, tv, now))
  /\ WriteNcalls(AddAborts(base, e, tv), e)
  /\ UNCHANGED <<now, pc, loopFlags, curPri, count, cur, reported,
                 lockDepth, badUnlock, pass, breakReq, retval>>

event_del(e) ==
  /\ e \notin ExitEvents
  /\ APICall(event_del_internal(base, e))
  /\ WriteNcalls(AbortsLoop(base, e), e)
  /\ UNCHANGED <<now, pc, loopFlags, curPri, count, cur, reported,
                 lockDepth, badUnlock, pass, breakReq, retval>>

event_active(e) ==
  /\ e \notin ExitEvents
  /\ APICall(event_active_internal(base, e, IF e \in SignalEvents THEN "SIGNAL"
                                                                ELSE "READ", 1))
  /\ UNCHANGED <<sigLeft, strayWrite, now, pc, loopFlags, curPri, count, cur, reported,
                 lockDepth, badUnlock, pass, breakReq, retval>>

(* Mutant: the priority of an active event is changed in place.          *)
event_priority_set_unchecked(e, p) ==
  /\ e \notin ExitEvents
  /\ APICall([base EXCEPT !.pri[e] = p])
  /\ UNCHANGED <<sigLeft, strayWrite, now, pc, loopFlags, curPri, count, cur, reported,
                 lockDepth, badUnlock, pass, breakReq, retval>>

(* Fails, changing nothing, while the event is active. *)
event_priority_set(e, p) ==
  /\ e \notin ExitEvents
  /\ APICall(IF "ACTIVE" \in base.flags[e] THEN base
             ELSE [base EXCEPT !.pri[e] = p])
  /\ UNCHANGED <<sigLeft, strayWrite, now, pc, loopFlags, curPri, count, cur, reported,
                 lockDepth, badUnlock, pass, breakReq, retval>>

event_base_loopbreak ==
  /\ APICall([base EXCEPT !.event_break = TRUE])
  /\ breakReq' = (breakReq \/ pc \in {"callback", "sigcallback", "dcallback"})
  /\ UNCHANGED <<sigLeft, strayWrite, now, pc, loopFlags, curPri, count, cur, reported,
                 lockDepth, badUnlock, pass, retval>>

(* event_base_once(base, -1, EV_TIMEOUT, event_loopexit_cb, base, tv):     *)
(* a fresh one-shot timer; tv == NULL is a zero timeout.                   *)
event_base_loopexit(tv) ==
  \E x \in ExitEvents :
    /\ base.flags[x] = {} /\ x # cur
    /\ APICall(event_add_internal(base, x, tv, now))
    /\ UNCHANGED <<sigLeft, strayWrite, now, pc, loopFlags, curPri, count, cur, reported,
                   lockDepth, badUnlock, pass, breakReq, retval>>

event_deferred_cb_schedule(d) ==
  /\ APICall(IF base.queued[d] THEN base
             ELSE [base EXCEPT !.queued[d] = TRUE,
                               !.deferred = Append(@, d),
                               !.event_count_active = @ + 1])
  /\ UNCHANGED <<sigLeft, strayWrite, now, pc, loopFlags, curPri, count, cur, reported,
                 lockDepth, badUnlock, pass, breakReq, retval>>

event_deferred_cb_cancel(d) ==
  /\ APICall(IF ~base.queued[d] THEN base
             ELSE [base EXCEPT !.queued[d] = FALSE,
                               !.deferred = Remove(@, d),
                               !.event_count_active = @ - 1])
  /\ UNCHANGED <<sigLeft, strayWrite, now, pc, loopFlags, curPri, count, cur, reported,
                 lockDepth, badUnlock, pass, breakReq, retval>>

API ==
  \/ \E e \in Events, tv \in Timeouts \cup {NoTimeout} : event_add(e, tv)
  \/ \E e \in Events : event_del(e) \/ event_active(e)
  \/ \E e \in Events, p \in Pri : event_priority_set(e, p)
  \/ event_base_loopbreak
  \/ \E tv \in Timeouts : event_base_loopexit(tv)
  \/ \E d \in DeferredCbs :
        event_deferred_cb_schedule(d) \/ event_deferred_cb_cancel(d)

(***************************************************************************)
(* The loop thread: event_base_loop and the functions it calls.           *)
(***************************************************************************)
event_base_loop(fl) ==
  /\ pc = "idle"
  /\ pc' = "top" /\ loopFlags' = fl
  /\ UNCHANGED <<sigLeft, strayWrite, base, now, curPri, count, cur, reported, lockDepth, badUnlock,
                 calls, pass, breakReq, retval>>

(* Top of the while loop: event_gotterm, then event_break, then "no      *)
(* events registered"; each check returns from event_base_loop.          *)
LoopGotterm ==
  /\ pc = "top" /\ base.event_gotterm
  /\ base' = [base EXCEPT !.event_gotterm = FALSE]
  /\ pc' = "idle"
  /\ UNCHANGED <<sigLeft, strayWrite, now, loopFlags, curPri, count, cur, reported, lockDepth, badUnlock,
                 calls, pass, breakReq>>
  /\ retval' = 0

LoopBreak ==
  /\ pc = "top" /\ ~base.event_gotterm /\ base.event_break
  /\ base' = [base EXCEPT !.event_break = FALSE]
  /\ pc' = "idle" /\ breakReq' = FALSE
  /\ UNCHANGED <<sigLeft, strayWrite, now, loopFlags, curPri, count, cur, reported, lockDepth, badUnlock,
                 calls, pass>>
  /\ retval' = 0

LoopNoEvents ==
  /\ pc = "top" /\ ~base.event_gotterm /\ ~base.event_break
  /\ base.event_count = 0 /\ base.event_count_active = 0
  /\ pc' = "idle"
  /\ UNCHANGED <<sigLeft, strayWrite, base, now, loopFlags, curPri, count, cur, reported,
                 lockDepth, badUnlock, calls, pass, breakReq>>
  /\ retval' = 1

LoopContinue ==
  /\ pc = "top" /\ ~base.event_gotterm /\ ~base.event_break
  /\ base.event_count > 0 \/ base.event_count_active > 0
  /\ pc' = "dispatch"
  /\ UNCHANGED <<sigLeft, strayWrite, base, now, loopFlags, curPri, count, cur, reported,
                 lockDepth, badUnlock, calls, pass, breakReq, retval>>

(* evsel->dispatch blocks in select() for the timeout computed by        *)
(* timeout_next, or polls when events are already active or the loop     *)
(* is non-blocking; it may return early (EINTR) or late.                 *)
Polls == base.event_count_active > 0 \/ "NONBLOCK" \in loopFlags

select_dispatch(t) ==
  /\ pc = "dispatch"
  /\ t \in (IF Polls THEN {now} ELSE now .. MaxTime)
  /\ now' = t /\ pc' = "ready" /\ reported' = {}
  /\ UNCHANGED <<sigLeft, strayWrite, base, loopFlags, curPri, count, cur, lockDepth, badUnlock, calls,
                 pass, breakReq, retval>>

(* select() failed with an error other than EINTR: the loop returns -1.  *)
select_dispatch_fail ==
  /\ pc = "dispatch"
  /\ pc' = "idle"
  /\ UNCHANGED <<sigLeft, strayWrite, base, now, loopFlags, curPri, count, cur, reported,
                 lockDepth, badUnlock, calls, pass, breakReq>>
  /\ retval' = -1

(* select() was interrupted by, or saw, a caught signal: evsig_process    *)
(* (signal.c) calls event_active(ev, EV_SIGNAL, ncalls) for each inserted *)
(* event of that signal, ncalls being how often it was caught; this       *)
(* happens before any fd is looked at.                                   *)
DispatchSignal(e, n) ==
  /\ pc = "ready"
  /\ e \in SignalEvents /\ "INSERTED" \in base.flags[e] /\ e \notin reported
  /\ reported \cap IOEvents = {}
  /\ base' = event_active_internal(base, e, "SIGNAL", n)
  /\ reported' = reported \cup {e}
  /\ UNCHANGED <<sigLeft, strayWrite, now, pc, loopFlags, curPri, count, cur,
                 lockDepth, badUnlock, calls, pass, breakReq, retval>>

(* The fd of an inserted read event is in the readable set: evmap_io_active *)
(* marks it active with EV_READ (without th_base_lock in this version).     *)
DispatchReady(e) ==
  /\ pc = "ready"
  /\ e \in IOEvents /\ "INSERTED" \in base.flags[e] /\ e \notin reported
  /\ base' = event_active_internal(base, e, "READ", 1)
  /\ reported' = reported \cup {e}
  /\ UNCHANGED <<sigLeft, strayWrite, now, pc, loopFlags, curPri, count, cur, lockDepth, badUnlock, calls,
                 pass, breakReq, retval>>

DispatchDone ==
  /\ pc = "ready"
  /\ pc' = "timeouts" /\ lockDepth' = lockDepth + 1
  /\ UNCHANGED <<sigLeft, strayWrite, badUnlock, base, now, loopFlags, curPri, count, cur, reported, calls,
                 pass, breakReq, retval>>

(* timeout_process: the heap top, while its deadline has passed, is      *)
(* deleted from every queue and activated with EV_TIMEOUT.               *)
HeapTop(e) == \A f \in Events :
                "TIMEOUT" \in base.flags[f] => base.timeout[e] <= base.timeout[f]

timeout_process(e) ==
  /\ pc = "timeouts"
  /\ "TIMEOUT" \in base.flags[e] /\ HeapTop(e) /\ base.timeout[e] <= now
  /\ base' = event_active_internal(event_del_internal(base, e), e, "TIMEOUT", 1)
  /\ WriteNcalls(AbortsLoop(base, e), e)
  /\ UNCHANGED <<now, pc, loopFlags, curPri, count, cur, reported,
                 lockDepth, badUnlock, calls, pass, breakReq, retval>>

TimeoutsDone ==
  /\ pc = "timeouts"
  /\ ~\E e \in Events : "TIMEOUT" \in base.flags[e] /\ base.timeout[e] <= now
  /\ pc' = "active" /\ lockDepth' = lockDepth - 1
  /\ UNCHANGED <<sigLeft, strayWrite, badUnlock, base, now, loopFlags, curPri, count, cur, reported, calls,
                 pass, breakReq, retval>>

(* if (base->event_count_active) event_process_active(base);             *)
(* else if (flags & EVLOOP_NONBLOCK) done = 1;                          *)
event_process_active ==
  /\ pc = "active" /\ base.event_count_active > 0
  /\ pc' = "process" /\ lockDepth' = lockDepth + 1
  /\ curPri' = 0 /\ count' = 0 /\ pass' = <<>>
  /\ UNCHANGED <<sigLeft, strayWrite, badUnlock, base, now, loopFlags, cur, reported, calls, breakReq, retval>>

NoActive ==
  /\ pc = "active" /\ base.event_count_active = 0
  /\ pc' = IF "NONBLOCK" \in loopFlags THEN "idle" ELSE "top"
  /\ UNCHANGED <<sigLeft, strayWrite, base, now, loopFlags, curPri, count, cur, reported,
                 lockDepth, badUnlock, calls, pass, breakReq>>
  /\ retval' = IF "NONBLOCK" \in loopFlags THEN 0 ELSE retval

(* event_process_active_single_queue, one iteration: the head of the     *)
(* queue is unlinked (a persistent event only from the active queue, any *)
(* other from every queue), and the lock is released for its callback.  *)
ProcessHead ==
  /\ pc = "process" /\ curPri < NPRI /\ base.activeq[curPri] # <<>>
  /\ LET e == Head(base.activeq[curPri]) IN
       /\ base' = IF e \in PersistEvents
                  THEN event_queue_remove(base, e, "ACTIVE")
                  ELSE event_del_internal(base, e)
       /\ count' = count + Counted(e)
       /\ cur' = e
       /\ pass' = Append(pass, [pri |-> curPri, real |-> e \notin InternalEvents])
       /\ pc' = CASE e \in SignalEvents  -> "signal"
                   [] e \in PersistEvents -> "closure"
                   [] OTHER               -> "callback"
       /\ WriteNcalls(e \notin PersistEvents /\ AbortsLoop(base, e), e)
  /\ lockDepth' = lockDepth - 1
  /\ UNCHANGED <<badUnlock, now, loopFlags, curPri, reported, calls, breakReq, retval>>

(* Mutant: a level with real events does not end the walk.             *)
ProcessQueueDone_nobreak ==
  /\ pc = "process" /\ curPri < NPRI /\ base.activeq[curPri] = <<>>
  /\ curPri' = curPri + 1 /\ count' = 0
  /\ UNCHANGED <<sigLeft, strayWrite, base, now, pc, loopFlags, cur, reported, lockDepth,
                 badUnlock, calls, pass, breakReq, retval>>

(* Mutant: after a level with real events, event_process_active returns  *)
(* without running the deferred callbacks.                               *)
ProcessQueueDone_skip_deferred ==
  /\ pc = "process" /\ curPri < NPRI /\ base.activeq[curPri] = <<>>
  /\ IF count > 0 THEN pc' = "unlock" /\ UNCHANGED <<curPri, count>>
                  ELSE curPri' = curPri + 1 /\ count' = 0 /\ UNCHANGED pc
  /\ UNCHANGED <<sigLeft, strayWrite, base, now, loopFlags, cur, reported, lockDepth, badUnlock,
                 calls, pass, breakReq, retval>>

(* The queue is empty: single_queue returned count.  A level at which a  *)
(* non-internal event ran ends the walk over the priorities.             *)
ProcessQueueDone ==
  /\ pc = "process" /\ curPri < NPRI /\ base.activeq[curPri] = <<>>
  /\ IF count > 0 THEN pc' = "deferred" /\ UNCHANGED <<curPri, count>>
                  ELSE curPri' = curPri + 1 /\ count' = 0 /\ UNCHANGED pc
  /\ UNCHANGED <<sigLeft, strayWrite, base, now, loopFlags, cur, reported, lockDepth, badUnlock, calls,
                 pass, breakReq, retval>>

ProcessLevelsDone ==
  /\ pc = "process" /\ curPri = NPRI
  /\ pc' = "deferred"
  /\ UNCHANGED <<sigLeft, strayWrite, base, now, loopFlags, curPri, count, cur, reported,
                 lockDepth, badUnlock, calls, pass, breakReq, retval>>

(* event_persist_closure: re-add with ev_io_timeout if it is set.        *)
event_persist_closure ==
  /\ pc = "closure"
  /\ base' = IF base.io_timeout[cur] > 0
             THEN event_add_internal(base, cur, base.io_timeout[cur], now)
             ELSE base
  /\ pc' = "callback"
  /\ UNCHANGED <<sigLeft, strayWrite, now, loopFlags, curPri, count, cur, reported, lockDepth, badUnlock,
                 calls, pass, breakReq, retval>>

(* Mutant: the lock is re-acquired before event_break is tested.        *)
CallbackReturn_relock_first ==
  /\ pc = "callback"
  /\ LET b1 == IF cur \in ExitEvents THEN [base EXCEPT !.event_gotterm = TRUE]
               ELSE base
     IN /\ base' = b1
        /\ lockDepth' = lockDepth + 1
        /\ pc' = IF b1.event_break THEN "after" ELSE "process"
  /\ cur' = NULL
  /\ UNCHANGED <<sigLeft, strayWrite, now, loopFlags, curPri, count, reported, badUnlock, calls,
                 pass, breakReq, retval>>

(* The callback returns (what it did meanwhile are API steps).  The      *)
(* loopexit callback sets event_gotterm.  If event_break is set the      *)
(* function returns -1 with the lock released; else it relocks.          *)
CallbackReturn ==
  /\ pc = "callback"
  /\ LET b1 == IF cur \in ExitEvents THEN [base EXCEPT !.event_gotterm = TRUE]
               ELSE base
     IN /\ base' = b1
        /\ IF b1.event_break THEN pc' = "after" /\ UNCHANGED lockDepth
           ELSE pc' = "process" /\ lockDepth' = lockDepth + 1
  /\ cur' = NULL
  /\ UNCHANGED <<sigLeft, strayWrite, badUnlock, now, loopFlags, curPri, count, reported, calls, pass,
                 breakReq, retval>>

(***************************************************************************)
(* event_signal_closure: the callback runs ncalls times, ev_ncalls        *)
(* counting down, unless event_break is set after a call.  ev_pncalls     *)
(* points at the local ncalls so that an event_del from the callback      *)
(* ends the loop; neither return path clears it.                          *)
(***************************************************************************)
SignalClosureStart ==
  /\ pc = "signal"
  /\ sigLeft' = base.ncalls[cur]
  /\ base' = [base EXCEPT !.pncalls[cur] = "ncalls"]
  /\ pc' = "sigloop"
  /\ UNCHANGED <<strayWrite, now, loopFlags, curPri, count, cur, reported,
                 lockDepth, badUnlock, calls, pass, breakReq, retval>>

SignalCall ==
  /\ pc = "sigloop" /\ sigLeft # 0
  /\ sigLeft' = sigLeft - 1
  /\ base' = [base EXCEPT !.ncalls[cur] = sigLeft - 1]
  /\ pc' = "sigcallback"
  /\ UNCHANGED <<strayWrite, now, loopFlags, curPri, count, cur, reported,
                 lockDepth, badUnlock, calls, pass, breakReq, retval>>

(* The callback returns; on event_break the closure returns, and so does  *)
(* event_process_active_single_queue, with the lock released.            *)
SignalCallbackReturn ==
  /\ pc = "sigcallback"
  /\ IF base.event_break THEN pc' = "after" /\ cur' = NULL
                          ELSE pc' = "sigloop" /\ UNCHANGED cur
  /\ UNCHANGED <<sigLeft, strayWrite, base, now, loopFlags, curPri, count,
                 reported, lockDepth, badUnlock, calls, pass, breakReq, retval>>

(* ncalls is 0: the closure returns and the queue loop goes on as after   *)
(* any callback.                                                          *)
SignalClosureDone ==
  /\ pc = "sigloop" /\ sigLeft = 0
  /\ IF base.event_break THEN pc' = "after" /\ UNCHANGED lockDepth
                          ELSE pc' = "process" /\ lockDepth' = lockDepth + 1
  /\ cur' = NULL
  /\ UNCHANGED <<sigLeft, strayWrite, base, now, loopFlags, curPri, count,
                 reported, badUnlock, calls, pass, breakReq, retval>>

(* event_process_deferred_callbacks, one iteration.                      *)
DeferredHead ==
  /\ pc = "deferred" /\ base.deferred # <<>>
  /\ LET d == Head(base.deferred) IN
       /\ base' = [base EXCEPT !.queued[d] = FALSE,
                               !.deferred = Tail(@),
                               !.event_count_active = @ - 1]
       /\ cur' = d
  /\ pc' = "dcallback" /\ lockDepth' = lockDepth - 1
  /\ UNCHANGED <<sigLeft, strayWrite, badUnlock, now, loopFlags, curPri, count, reported, calls, pass,
                 breakReq, retval>>

(* The deferred list is drained: the helper returns with the lock held.  *)
DeferredDone ==
  /\ pc = "deferred" /\ base.deferred = <<>>
  /\ pc' = "unlock"
  /\ UNCHANGED <<sigLeft, strayWrite, base, now, loopFlags, curPri, count, cur, reported,
                 lockDepth, badUnlock, calls, pass, breakReq, retval>>

(* A deferred callback returns.  On event_break the helper returns -1    *)
(* without relocking; otherwise it relocks and takes the next entry.     *)
DeferredReturn ==
  /\ pc = "dcallback"
  /\ IF base.event_break
     THEN pc' = "unlock" /\ UNCHANGED lockDepth
     ELSE pc' = "deferred" /\ lockDepth' = lockDepth + 1
  /\ cur' = NULL
  /\ UNCHANGED <<sigLeft, strayWrite, badUnlock, base, now, loopFlags, curPri, count, reported, calls, pass,
                 breakReq, retval>>

(* event_process_active ignores the helper's result and executes         *)
(* EVBASE_RELEASE_LOCK.  Releasing a lock nobody holds leaves it free.   *)
ActiveUnlock ==
  /\ pc = "unlock"
  /\ pc' = "after"
  /\ lockDepth' = 0
  /\ badUnlock' = (badUnlock \/ lockDepth = 0)
  /\ UNCHANGED <<sigLeft, strayWrite, base, now, loopFlags, curPri, count, cur, reported, calls,
                 pass, breakReq, retval>>

(* if (!base->event_count_active && (flags & EVLOOP_ONCE)) done = 1;    *)
LoopAfter ==
  /\ pc = "after"
  /\ pc' = IF base.event_count_active = 0 /\ "ONCE" \in loopFlags
           THEN "idle" ELSE "top"
  /\ UNCHANGED <<sigLeft, strayWrite, base, now, loopFlags, curPri, count, cur, reported,
                 lockDepth, badUnlock, calls, pass, breakReq>>
  /\ retval' = IF pc' = "idle" THEN 0 ELSE retval

LoopStep ==
  \/ \E fl \in LoopFlagSets : event_base_loop(fl)
  \/ LoopGotterm \/ LoopBreak \/ LoopNoEvents \/ LoopContinue
  \/ \E t \in 0 .. MaxTime : select_dispatch(t)
  \/ select_dispatch_fail
  \/ \E e \in Events : DispatchReady(e) \/ timeout_process(e)
  \/ \E e \in Events, n \in 1 .. MaxNcalls : DispatchSignal(e, n)
  \/ DispatchDone \/ TimeoutsDone \/ event_process_active \/ NoActive
  \/ ProcessHead \/ ProcessQueueDone \/ ProcessLevelsDone
  \/ event_persist_closure \/ CallbackReturn
  \/ SignalClosureStart \/ SignalCall \/ SignalCallbackReturn
  \/ SignalClosureDone
  \/ DeferredHead \/ DeferredDone \/ DeferredReturn \/ ActiveUnlock
  \/ LoopAfter

Next == LoopStep \/ API

Spec == Init /\ [][Next]_vars

(***************************************************************************)
(* Properties.                                                            *)
(***************************************************************************)
TypeOK ==
  /\ base.flags \in [Events -> SUBSET Lists]
  /\ base.res \in [Events -> SUBSET Results]
  /\ base.pri \in [Events -> Pri]
  /\ base.timeout \in [Events -> Time]
  /\ base.io_timeout \in [Events -> Timeouts \cup {0, NoTimeout}]
  /\ base.activeq \in [Pri -> Seq(Events)]
  /\ base.event_count \in Nat /\ base.event_count_active \in Nat
  /\ base.deferred \in Seq(DeferredCbs)
  /\ base.queued \in [DeferredCbs -> BOOLEAN]
  /\ base.event_gotterm \in BOOLEAN /\ base.event_break \in BOOLEAN
  /\ base.ncalls \in [Events -> 0 .. MaxNcalls]
  /\ base.pncalls \in [Events -> {NULL, "ncalls"}]
  /\ now \in 0 .. MaxTime
  /\ pc \in LoopPCs /\ loopFlags \in LoopFlagSets
  /\ curPri \in 0 .. NPRI /\ count \in Nat
  /\ cur \in Events \cup DeferredCbs \cup {NULL}
  /\ reported \subseteq IOEvents \cup SignalEvents /\ lockDepth \in {0, 1}
  /\ badUnlock \in BOOLEAN
  /\ calls \in 0 .. MaxCalls /\ breakReq \in BOOLEAN
  /\ retval \in {-1, 0, 1}
  /\ sigLeft \in 0 .. MaxNcalls /\ strayWrite \in BOOLEAN

(* Queue integrity, the bookkeeping event_queue_insert/remove keep and    *)
(* event_errx aborts on: an event sits in the active queue of its         *)
(* current priority exactly when it is flagged ACTIVE, at most once; the  *)
(* counters event_count and event_count_active that event_base_loop reads *)
(* unlocked agree with the queues; a deferred_cb is queued exactly when   *)
(* it is on deferred_cb_list.                                             *)
QueueIntegrity ==
  /\ \A p \in Pri, e \in Events :
        Contains(base.activeq[p], e) <=> ("ACTIVE" \in base.flags[e] /\ base.pri[e] = p)
  /\ \A p \in Pri : Len(base.activeq[p]) = Cardinality(ToSet(base.activeq[p]))
  /\ base.event_count_active =
        SumFunction([p \in Pri |-> Len(base.activeq[p])]) + Len(base.deferred)
  /\ base.event_count =
        SumFunction([e \in Events |-> Counted(e) * Cardinality(base.flags[e])])
  /\ \A d \in DeferredCbs : base.queued[d] <=> Contains(base.deferred, d)
  /\ Len(base.deferred) = Cardinality(ToSet(base.deferred))

(* The priority rule of event_process_active: within one pass callbacks   *)
(* run from the highest priority (0) down, and once a level has run a     *)
(* non-internal event, no callback of a lower-priority level runs in the  *)
(* same pass, even if events are activated while the pass is under way.   *)
PassPriorityRule ==
  \A i, j \in 1 .. Len(pass) :
     i < j => /\ pass[i].pri <= pass[j].pri
              /\ pass[i].real => pass[j].pri = pass[i].pri

(* An event queued for its callback with EV_TIMEOUT has reached its       *)
(* current deadline: re-arming a timer (event_add with a timeout) after   *)
(* it fired but before its callback ran cancels that firing.              *)
TimedOutAfterDeadline ==
  \A p \in Pri : \A i \in 1 .. Len(base.activeq[p]) :
     LET e == base.activeq[p][i] IN
       "TIMEOUT" \in base.res[e] => base.timeout[e] <= now

(* th_base_lock is released only by the thread holding it: the loop      *)
(* thread never unlocks it more often than it locked it.                 *)
LockBalanced == ~badUnlock

(* A loopbreak or loopexit request made by a callback of the running loop *)
(* stops that run and is consumed by it: when event_base_loop has        *)
(* returned 0, no such request is left to stop the next call at once.     *)
LoopRequestsConsumed ==
  pc = "idle" /\ retval = 0 =>
     ~base.event_gotterm /\ ~(base.event_break /\ breakReq)

(* An IO registration with a pending timer is still watched for          *)
(* readiness: it is in the multiplexer (INSERTED) or already queued for   *)
(* its callback.  event_add documents that it inserts read interest into  *)
(* the multiplexer; re-arming the timer of an event made active by a      *)
(* timeout must not leave it waiting for the timer alone.                 *)
TimedIOWatched ==
  \A e \in IOEvents :
     "TIMEOUT" \in base.flags[e] => base.flags[e] \cap {"INSERTED", "ACTIVE"} # {}

(* ev_pncalls is written ("Abort loop" in event_del and event_add) only  *)
(* while it points into a running event_signal_closure of the same       *)
(* event: "see if we are just active executing this event in a loop".    *)
(* A write after that closure returned lands in a dead stack slot, or in  *)
(* the ncalls of another signal event's closure, ending its loop.         *)
NoStrayNcallsWrite == ~strayWrite

(* Every scheduled deferred callback eventually runs or is cancelled,    *)
(* provided the application keeps calling event_base_loop.               *)
DeferredEventuallyRun ==
  \A d \in DeferredCbs : base.queued[d] ~> ~base.queued[d]

(* The application keeps calling event_base_loop and the loop thread     *)
(* keeps running (weak fairness of its steps); select() does not fail      *)
(* forever (strong fairness of a successful dispatch).                     *)
FairSpec == /\ Spec /\ WF_vars(LoopStep)
            /\ SF_vars(\E t \in 0 .. MaxTime : select_dispatch(t))

====
