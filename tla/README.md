# TLA+ models of libevent-2.0.1-alpha (jingxian-project)

The repository bundles a snapshot of libevent 2.0.1-alpha under
`src/libevent-2.0.1-alpha/` and the headers of a Windows networking library
(`src/jingxian-network`, `src/trunk/...`). This directory models the parts of
libevent that have concurrent or protocol behaviour. Those are the event reactor
(`event.c`, `select.c`) with its signal closure and the select backend's fd sets, the chained buffer
(`buffer.c`, `evbuffer-internal.h`) the buffered event that couples the
two (`bufferevent.c`), and the RPC layer (`evrpc.c`): its client pool and its server, composed through the http connection between them. The models are written for the TLC model checker.

## 1. The system

| Part | Source | State | Operations | Interacts with |
|---|---|---|---|---|
| Event registrations | `event.c` 955-1335, 1485-1547 | per event: `ev_flags` (INSERTED/TIMEOUT/ACTIVE/INTERNAL), `ev_res`, `ev_pri`, `ev_timeout`, `ev_io_timeout` | `event_add`, `event_del`, `event_active`, `event_priority_set` | the base's queues and counters |
| Event base / loop | `event.c` 577-880 | `activequeues[]`, `event_count`, `event_count_active`, `event_gotterm`, `event_break`, `th_base_lock` | `event_base_loop`, `event_process_active`, `timeout_process`, `event_base_loopbreak`, `event_base_loopexit` | the backend and every callback |
| Timer heap | `event.c` 1376-1483 (`min_heap.h` is not in the repository) | heap of TIMEOUT events keyed by deadline | `timeout_next`, `timeout_process`, `timeout_correct` | the loop |
| Deferred-callback queue | `event.c` 655-681, 1337-1374 | `deferred_cb_list`, `cb->queued` | schedule, cancel, run | the evbuffer callbacks |
| select backend | `select.c` | `event_fds`, `event_fdsz`, the four fd_set buffers | `select_init`, `select_add`, `select_del`, `select_resize`, `select_dispatch`, `select_dealloc` | the loop (dispatch), evmap (add, del, `evmap_io_active`) |
| Cross-thread notify | `event.c` 1115-1149, 1662-1754 | a socketpair/eventfd | `evthread_notify_base` | wakes the loop |
| Signals | `event.c` 591-606, 1210-1220, 1273-1279, 1327-1330; `select.c` 138-148 (`signal.c` is not in the repository) | `ev_ncalls`, `ev_pncalls` | `event_signal_closure`, `evsig_process` | the loop, `event_add`/`event_del` |
| Chained buffer | `buffer.c`, `evbuffer-internal.h` | a list of chains (`first`, `last`, `previous_to_last`), `total_len`, `n_add_for_cb`, `n_del_for_cb`, `freeze_start/end`, chain pin flags, `refcnt` | add, prepend, drain, remove, remove_buffer, add_buffer, prepend_buffer, pullup, expand, reserve/commit, add_reference, read, write, readln, search | its callbacks; optionally the deferred queue |
| Buffer callbacks | `buffer.c` 300-420 | callback list, deferred entry | `evbuffer_invoke_callbacks`, `evbuffer_deferred_callback` | the event base (deferred mode) |
| bufferevent | `bufferevent.c` (its backends are not in the repository) | `enabled`, `read_suspended`, `wm_read`/`wm_write`, `read_watermarks_cb`, timeouts, `refcnt`, the lock | write, read, enable, disable, set_timeouts, setwatermark, incref, free; the input watermark callback | its two evbuffers and the backend's events |
| evrpc client pool | `evrpc.c` 478-945, `evrpc.h` 197-220 | `pool->connections`, `pool->requests`, `pool->paused_requests`, `pool->timeout`; per request wrapper `evcon`, `ev_timeout` | `EVRPC_MAKE_REQUEST`, `evrpc_pool_add_connection`, `evrpc_pool_set_timeout`, `evrpc_resume_request`, `evrpc_pool_free`, and the callbacks `evrpc_reply_done`, `evrpc_request_timeout` | evhttp (not in the repository), the user's hooks and callbacks |
| evrpc server | `evrpc.c` 69-110, 221-470, `evrpc.h` 243-246 | the base, its registered RPC, per request an `evrpc_req_generic` | `evrpc_init`, `evrpc_free`, `evrpc_register_rpc`, `evrpc_unregister_rpc`, `EVRPC_REQUEST_DONE`, `evrpc_resume_request`, and the callback `evrpc_request_cb` | evhttp's server side, the user's handler and hooks |

What makes the code hard to test is this:
- The loop releases `th_base_lock` around every callback. API calls from the callback, or from other threads, then interleave with a pass over the active queues.
- The loop's exits through `event_break` and `event_gotterm` leave the lock and the flags in states no test inspects.
- Timer re-arming interacts with activation.
- The buffer keeps a cached `previous_to_last` pointer and a cached `total_len` that every operation must keep consistent, including on the edge cases of empty chains, allocation failure and chains split between two calls.

## 2. Modules

### EventBase.tla (with MC_EventBase.tla)

The reactor. The whole `struct event_base`, together with the fields of each
`struct event`, is one record variable `base`. The helpers
`event_queue_insert`, `event_queue_remove`, `event_del_internal`,
`event_active_internal` and `event_add_internal` are pure operators from a
base to a base. Each action composes them exactly as the C function calls them.

- **API calls.** `event_add`, `event_del`, `event_active`, `event_priority_set`, `event_base_loopbreak`, `event_base_loopexit` and `event_deferred_cb_schedule/cancel` each take `th_base_lock` for their whole body. Each is therefore one atomic step, enabled only while the loop thread does not hold the lock (`lockDepth = 0`). A caller may be another thread or a callback the loop is running. Either way the step is the same, so one action covers both. `MaxCalls` bounds how many calls are made.
- **The loop thread** is a program counter `pc` through `event_base_loop`. Its labels are:
  - `top`: the gotterm, break and no-events checks;
  - `dispatch`: `select_dispatch`, or its failure;
  - `ready`: `evmap_io_active` for each readable fd;
  - `timeouts`: `timeout_process` under the lock;
  - `active`: `event_process_active` or "nothing active";
  - `process`: `event_process_active_single_queue`, one head per step, with its `EV_PERSIST` closure and the callback;
  - `deferred` / `dcallback`: `event_process_deferred_callbacks`;
  - `unlock`: the final `EVBASE_RELEASE_LOCK`;
  - `after`: the `EVLOOP_ONCE` test.

  - `signal` / `sigloop` / `sigcallback`: `event_signal_closure`, one call of its `ncalls` loop per step.

  The callback itself is not modelled: what it does is whatever API steps happen while `pc = "callback"` (or `sigcallback`, `dcallback`). The loopexit callback (`event_loopexit_cb`) sets `event_gotterm` in `CallbackReturn`.
- **Data.** An event is a model value. Its kind is given by membership in `IOEvents` (has `EV_READ`), `PersistEvents`, `InternalEvents` and `ExitEvents`. `ExitEvents` are the `event_base_once` timers that `event_base_loopexit` creates. Time is an integer in `0..MaxTime`. `select` may return at any time up to `MaxTime`, or at once when the loop polls. This covers EINTR, a wake-up by the notify fd, and a late return.
- **Signals.** `SignalEvents` are the `EV_SIGNAL` events (`tm` in the runs, which may also be given a timeout). `signal.c` is not in the repository, so `evsig_process` is modelled from the spec: `DispatchSignal` lets `select_dispatch` activate an added signal event with `ncalls` in `1..MaxNcalls`, through `event_active_internal`, which sets `ev_ncalls` and clears `ev_pncalls` (event.c 1327-1330). The closure is translated line by line:
  - `SignalClosureStart` copies `ev_ncalls` into the local `ncalls` (variable `sigLeft`) and points `ev_pncalls` at it;
  - `SignalCall` decrements it, stores it in `ev_ncalls` and runs the callback;
  - `SignalCallbackReturn` returns at once when `event_break` is set (event.c 603-604), with `ev_pncalls` left as it is;
  - `SignalClosureDone` ends the loop when `ncalls` is 0.

  `ev_pncalls` is either NULL or "the address of `ncalls`". The closure always runs in the same stack frame of the loop thread, so that address names whichever closure is live now (`LiveFrame`), or a dead slot when none is. `event_del_internal`, `event_add_internal` (re-arm of an event active from a timeout) and `timeout_process` write 0 through it when `ev_ncalls && ev_pncalls` (`AbortsLoop`). `WriteNcalls` applies the write: it ends the live closure's loop, and it records in `strayWrite` a write into a frame that is not the event's own closure.
- **The timer heap** (`min_heap.h`, not in the repository) is the set of events flagged TIMEOUT. Its top is one with the least deadline (`HeapTop`).
- **History variables** serve the properties:
  - `pass`: the callbacks run in the current `event_process_active`;
  - `breakReq`: a break requested by a running callback;
  - `badUnlock`: the lock was released while free;
  - `retval`: what the last `event_base_loop` returned;
  - `strayWrite`: some write through `ev_pncalls` landed outside that event's running closure.

### EvBuffer.tla (with MC_EvBuffer.tla)

The chained buffer. The heap is one record variable `m`:
- `m.ch` maps each chain address (a model value of `ChainIds`) to the fields of `struct evbuffer_chain`: `used`, `next`, `buffer_len`, `misalign`, `off`, `flags`, and `data`, the bytes it holds;
- `m.bf` maps each buffer to the fields of `struct evbuffer`: `first`, `last`, `previous_to_last`, `total_len`, `n_add_for_cb`, `n_del_for_cb` and `freeze_start/end`, plus the sizes the callbacks were last told;
- `m.fault` records a write through NULL or freed memory, or a double free.

An address that is not `used` is free memory. `mm_malloc` fails exactly when no address is free, so the chain pool is also the allocation-failure model.

Bytes are serial numbers: the k-th byte ever written is `k`, and `produced` counts them. Loss, duplication and reordering are therefore visible without byte values. Uninitialized memory read as data is the value `Garbage` (0).

**Helpers as operators.** The internal helpers are pure operators from a heap to a heap, or to a heap and a result, and keep the C names. They are:
- `evbuffer_chain_new`, `evbuffer_chain_free`, `evbuffer_chain_insert` and `evbuffer_chain_align`;
- the macros `ZERO_CHAIN`, `COPY_CHAIN`, `APPEND_CHAIN` and `PREPEND_CHAIN`;
- `_evbuffer_expand_fast`, `_evbuffer_read_setup_vecs` and `evbuffer_invoke_callbacks`.

The list walks of drain, remove, remove_buffer and pullup are RECURSIVE operators (`DrainLoop`, `RemoveLoop`, `MoveLoop`, `PullLoop`). Each walk is bounded by `Fuel`, the number of addresses plus one, so a corrupted list cannot make them diverge.

**Actions.** Each public function is one action (`Add`, `Prepend`, `Expand`, `ReserveSpace`, `CommitSpace`, `AddReference`, `Drain`, `RemoveOut`, `Pullup`, `AddBuffer`, `PrependBuffer`, `RemoveBuffer`, `Read`, `Write`, `Freeze`). Each one applies the whole function body in the order the C code runs it, ending with `evbuffer_invoke_callbacks`. The functions take `EVBUFFER_LOCK` (or `LOCK2`) for their whole body, so each call is atomic. **The model assumes `evbuffer_enable_locking` was called, or that one thread uses the buffers.** Without the lock, concurrent calls race on the list, and that is not modelled.

`Ops` restricts which functions the environment calls. This lets a run that checks one property leave out a function whose known bug would hide the rest.

**The system calls.** For `Read`, `readv` returns any count from 0 up to the vectors' capacity. For `Write`, `writev` sends any count from 1 up to what the iovec offers; `n <= 0` changes nothing.

**Pins.** `_evbuffer_chain_pin` is called nowhere in this tree, since there is no IOCP implementation, so no chain is ever pinned. The pin guards of the code are kept and are always false.

**Callbacks.** `evbuffer_invoke_callbacks` is modelled by what `evbuffer_run_callbacks` reports: `orig_size = total_len + n_del_for_cb - n_add_for_cb` and `new_size = total_len`. For a buffer in `CbBufs` (one with a callback registered), `cb_due` is the `new_size` the previous call reported and `cb_orig` the `orig_size` of this one. A buffer with no callback just has its counters reset.

**Scans.** `evbuffer_strpbrk`, `evbuffer_strchr`, `evbuffer_strspn`, `evbuffer_getchr`, `evbuffer_readln` (the four EOL styles, and the `mm_malloc` failure of the line), `evbuffer_ptr_set` (SET and ADD), `evbuffer_ptr_memcmp`, `evbuffer_search` and `evbuffer_find` are RECURSIVE operators over the chain list, walking an iterator (chain, offset) exactly as the code does. Bytes carry no value of their own; a run assigns one to each serial number through `ByteVal` (CR, LF or another character), and the properties quantify over every assignment. `Readln`, `Find` and `Search` are the calls. `evbuffer_readline` is `readln` with `EOL_ANY`.

**add_printf.** `evbuffer_add_vprintf` is modelled by what it does to the chains: `PrintfLoop` calls `evbuffer_expand` for room, formats into the last chain, and retries with more room when the formatted length (a choice from `Sizes`) does not fit. The text is a run of fresh bytes.

**History variables.** `taking` is TRUE after a call that hands bytes to its caller: drain, remove and write. `saved[b]` is an `evbuffer_ptr` a caller kept from `evbuffer_search` on `b`, to resume from later.

### EvBufferStream.tla

What an evbuffer promises: a byte queue per buffer, with a length. Its actions are:
- `AddToEnd`: add, read, commit_space, add_reference;
- `AddToFront`: prepend;
- `Consume`: drain, remove and write; allowed only when `taking`;
- `MoveToEnd`: add_buffer, remove_buffer;
- `MoveToFront`: prepend_buffer;
- `Idle`: calls that move no byte.

New bytes are exactly the next serial numbers.

`EvBuffer` is shown to implement it. `Stream == INSTANCE EvBufferStream WITH content <- Content(b), length <- total_len, written <- produced, taking <- taking`, where `Content(b)` flattens the `data` of the chains on `b`'s list. The property `StreamSpec == Stream!Spec` is checked as a temporal property.

### BufferEvent.tla

A bufferevent over its two evbuffers, with the buffers abstracted to their
lengths (`input`, `output`). The variable `bev` is `struct bufferevent` with
`struct bufferevent_private`: `enabled`, `read_suspended`, the watermarks, the
state of `read_watermarks_cb` (`"none"` while NULL, else the callback's
`EVBUFFER_CB_ENABLED`/`DISABLED` flag), the timeouts, `refcnt`, the lock and
whether the object is freed. `impl` is the set of events the backend has added.

- **User calls** are actions with the C names: `bufferevent_write`, `bufferevent_read` (with `evbuffer_remove`'s clamp to the length; `read_buffer` is a read of everything), `bufferevent_enable`, `bufferevent_disable`, `bufferevent_set_timeouts`, `bufferevent_setwatermark`, `bufferevent_incref` and `bufferevent_free` (`_bufferevent_decref_and_unlock`, which frees input with its callback, then the lock).
- **The watermark path.** `bufferevent_wm_suspend_read`, `bufferevent_wm_unsuspend_read` and `bufferevent_inbuf_wm_cb` are operators on `bev`. Every change of `input` runs `evbuffer_run_callbacks` (`InputCallbacks`), which calls the watermark callback when it is enabled and something was added or deleted.
- **The backend** (`bufferevent_sock.c`, not in the repository) is modelled from the spec: its `enable`/`disable` add and delete its events (`be_enable`, `be_disable`). While its read event is added it may read 1 or 2 bytes into input (`BackendRead`), and while its write event is added it drains output (`BackendWrite`).
- **The lock.** With `Threadsafe` (`BEV_OPT_THREADSAFE`), `bufferevent_enable_locking` gives the bufferevent a recursive lock, shared with its evbuffers. `BEV_LOCK`/`BEV_UNLOCK` keep its owner and depth. A thread calls in only while the lock is free or its own (`AppCall`, `BackendCall`). `bufferevent-internal.h` is not in the repository, so these macros are modelled from the spec, like `EVBUFFER_LOCK` (evbuffer-internal.h 215-224).

### EvRpc.tla (with MC_EvRpc.tla)

Both sides of evrpc. On the client side, `pool` holds `timeout` and whether the pool is freed;
`connections` and `requests` are `pool->connections` and `pool->requests` in
order; `ctx[r]` is the request wrapper: where it is (`st`), `ctx->evcon`, and
whether `ctx->ev_timeout` is armed. `pool->paused_requests` is represented by
the states `paused_out` (paused by an output hook, to be resumed into
`evrpc_schedule_request_closure`) and `paused_in` (paused by an input hook, to
be resumed into `evrpc_reply_done_closure`). `cb[r]` records the statuses the
user's callback was called with, and `started` the wrappers that
`evhttp_make_request` accepted.

- **One action per entry point.** `SendRequest` is the `EVRPC_GENERATE` send function (with `evrpc_make_request_ctx` failing or `evrpc_make_request` queueing), then `AddConnection`, `SetTimeout`, `ResumeRequest`, `RequestTimeout` (the timer callback) and `PoolFree`. A step runs the whole call chain of the event-loop callback: the reply closure frees the wrapper and calls `evrpc_pool_schedule`, which may run `evrpc_schedule_request`, the output hooks and `evhttp_make_request` in the same action. The functions of the chain are operators on a record of the state (`ScheduleRequest`, `ScheduleClosure`, `StartRequest`, `ReplyDone`, `ReplyClosure`, `PoolSchedule`, `IdleConnection`).
- **Choices.** Each step draws one `Outcome`: whether an allocation fails (`evhttp_request_new`, the pause entry, `evrpc_construct_uri`, all of which take the same error label), what the output hooks return, and whether `evhttp_make_request` returns -1. Input hooks and the unmarshal result are drawn where the reply arrives.
- **evhttp** (`http.c`, not in the repository) is modelled from its interface: `evq[c]` is the connection's request list. `HttpReply` answers the head and `HttpFail` fails it (a connection error or evhttp's own timeout), each removing it before calling `evrpc_reply_done`. `evrpc_request_timeout` calls `evhttp_connection_fail` on `ctx->evcon`, which fails whatever request heads that connection. `evhttp_connection_free`, called by `evrpc_pool_free`, frees the requests on the connection without calling back.
- **Server side.** `base` is the `evrpc_base` with one RPC: whether it is freed, whether the RPC is registered, `gen` (how many times `evrpc_register_rpc` ran, bounded by `MaxRegister`, so a state can tell the evrpc it points to from a later one), and `aborted` (the assert in `evrpc_free` fired). `srv[r]` is the `evrpc_req_generic` of request r: `none` (not read), `refused` (evhttp answered 404), `paused_in`, `user` (the handler holds it), `paused_out`, `freed`, `lost` (paused without a pause entry) or `orphan` (paused when `evrpc_free` freed the pause entries), and the `gen` of its evrpc. `resp[r]` records what the server sent: `OK` for `evhttp_send_reply`, `ERR` for `evhttp_send_error`. The actions are `ServerRequest` (evhttp reads the head request of a connection and calls `evrpc_request_cb`, or answers 404 when no RPC is registered), `RequestDone` (the handler's `EVRPC_REQUEST_DONE`), `ServerResume`, `Register`, `Unregister` and `ServerFree`. The functions they run are operators on the state record (`RequestCb`, `RequestCbClosure`, `RequestDoneStep`, `RequestDoneClosure`, `SrvError`).
- **Composition.** The client's `HttpReply` happens only after the server has answered the head request, and its reply unmarshals (`Unmarshal`) exactly when the server sent a marshaled reply; the error page does not parse. A paused input hook resumes with the same response.
- **Hooks' data.** The hook list itself is not modelled: a hook's result is a choice, and its meta data only carries user data.

### SelectOp.tla (with MC_SelectOp.tla)

The select backend's own state, which EventBase abstracts to a readiness report. `sop` is `struct selectop`:
- `fds` is `event_fds` and `fdsz` is `event_fdsz`;
- `cap[s]` is the number of bytes buffer `s` owns (`ri`, `ro`, `wi`, `wo` for the read and write in- and out-sets; 0 is NULL);
- `clean[s]` is how many leading bytes of an in-set hold written values (realloc leaves the rest uninitialized);
- `bits[s]` is the set of descriptors FD_SET has set;
- `wild` records an access outside a buffer.

evmap.c is not in the repository, so it is modelled at the backend contract (spec section 6). `want[fd]` is the interest evmap has registered, updated when `select_add` or `select_del` return 0. evmap only adds events not yet registered and only deletes registered ones.

- **Actions.**
  - `Init` is `select_init`. Its `select_resize` may fail at any of the four reallocs when `InitMayFail` holds.
  - `Add` and `Del` are `select_add` and `select_del`.
  - `SelectDispatch` is `select_dispatch`.
  - `SelectDealloc` is `select_dealloc`.
- **Helpers.**
  - `Resize` is `select_resize`: the first k of its reallocs succeed, in the code's order, and all four are followed by the memset.
  - `Grow` is select_add's doubling loop.
  - `FdSet` and `FdClr` write the byte of the bit.
- **Dispatch.** One step copies `event_fdsz` bytes from each in-set to its out-set and calls `select()` with `event_fds + 1` descriptors. The kernel reads and writes `howmany(nfds, NFDBITS)` masks of each non-NULL out-set. The step then loops `FD_ISSET` over `0..event_fds`.
  - **Readiness.** Which descriptors the OS finds ready is a choice of at most `MaxReady` pairs.
  - **Unwritten bytes.** A bit in a byte that was never written reads as a nondeterministic value.
  - **Failure.** `select()` may fail (an error or EINTR), and then nothing is reported.
- **Evidence.** `reported` is what the step passed to `evmap_io_active`; `expected` is the registered interest that was ready.

### RpcService.tla

The abstract promise of one RPC call, client and server together, with no pools, connections, hooks or timers. `calls[r]` is a record:
- `phase`: `new`, `open`, `done` or `abandoned`;
- `sent`: whether the request left;
- `answer`: what the server sent, if anything;
- `status`: the status the callback received.

A call is made, is optionally sent, is answered at most once, and ends either in `done` with one callback or in `abandoned` when the pool is freed. The callback's status must be `Truthful`, which is the documented meaning of `evrpc_status` in `evrpc.h`:
- `UNSTARTED` exactly when the request never left;
- `NONE` only for a reply the server marshaled;
- `BADPAYLOAD` only for the server's error page.

One step may move several calls, because one event-loop callback completes a request and schedules the next. `EvRpc` is shown to implement it with `Service == INSTANCE RpcService WITH calls <- [r \in Req |-> CallView(r)]`. `CallView` maps the implementation state onto a call:
- `cb[r]` non-empty means `done`;
- an unmade wrapper means `new`;
- a freed pool means `abandoned`;
- `sent` is membership of `started`;
- `answer` is `resp[r]`;
- `status` is `cb[r]`.


| Run | Config | Expect | Properties | What it shows |
|---|---|---|---|---|
| eventbase_safety | `EventBase_safety.cfg` | pass | TypeOK, QueueIntegrity, PassPriorityRule, TimedOutAfterDeadline, DeferredEventuallyRun | Queue bookkeeping, the priority rule of a pass and timer re-arming stay correct under every interleaving of the loop, its signal closure and up to 3 API calls, and a queued deferred callback is eventually run or cancelled (under `FairSpec`). |
| eventbase_double_unlock | `EventBase_lock.cfg` | violation | LockBalanced | A deferred callback calling loopbreak makes `event_process_active` unlock twice. |
| eventbase_signal_stray | `EventBase_signal.cfg` | violation | NoStrayNcallsWrite | After a signal callback breaks the loop, `event_del` writes through `ev_pncalls` into a returned frame. |
| evbuffer_heap | `EvBuffer_heap.cfg` | pass | TypeOK, MemorySafe, Valid, ReadlnAgrees | Every public function except remove_buffer, add_reference and freeze keeps the lists sound and the cached pointers and length right, and readln returns the line each EOL style promises in every buffer so built. |
| evbuffer_stream | `EvBuffer_stream.cfg` | pass | NoLeak, StreamSpec | add, prepend, add_reference, drain, remove, pullup, write, freeze, add_buffer, prepend_buffer and commit_space implement the byte queue and leak no chain. |
| evbuffer_move | `EvBuffer_move.cfg` | pass | SearchAgrees, StreamSpec | remove_buffer between buffers filled by add moves bytes as the queue allows while memory lasts, and search from any placed pointer finds the first match across chains. |
| evbuffer_cb_add | `EvBuffer_cb_add.cfg` | violation | CallbackSizesAgree | add's new-chain path under-counts (two adds). |
| bufferevent_wm | `BufferEvent_wm.cfg` | pass | TypeOK, ReadGate, WatermarkRespected | Whatever the order of user calls and backend reads and writes, the read event is added exactly when reading is enabled and not suspended, and a read high-water mark suspends reading above it and resumes it below. |
| evrpc_client | `EvRpc_client.cfg` | pass | TypeOK, CallbackOnce, CtxAccounted, ServerAnswersOnce, ImplementsService | With every hook result on both sides, every allocation and `evhttp_make_request` failure, and the RPC registered and unregistered, each callback runs once, no list holds a released wrapper, the server answers each request once, and client and server together implement `RpcService`. |
| evrpc_live | `EvRpc_live.cfg` | pass | AllAnswered, ServerAnswered | When no scheduling step can fail, every queued request eventually gets its callback, and the server answers every request it read. |
| evrpc_stall | `EvRpc_stall.cfg` | violation | AllAnswered | A request the pool schedules after a reply and an output hook terminates strands the requests queued behind it. |
| select_fdsets | `SelectOp.cfg` | pass | NoWildAccess, InitializedSets, DispatchReportsReady | With descriptors on both sides of every fd_set size `select_add` computes, and any realloc of a later resize failing part way, no call touches memory outside the fd sets, every byte `select_dispatch` copies was written, and each dispatch reports exactly the registered interest that `select()` found ready. |

The project keeps at most twelve runs. More configurations reproduce findings
that no listed run checks (section 5):
- `EventBase_stale.cfg` checks LoopRequestsConsumed (the stale break or exit);
- `EventBase_rearm.cfg` checks TimedIOWatched (the lost read interest);
- `EvBuffer_insert_null.cfg` checks MemorySafe with add_reference (the NULL `previous_to_last`);
- `EvBuffer_read_garbage.cfg` checks StreamSpec with read (the wrong chain credited);
- `EvRpc_timer.cfg` checks TimerTargetsLive (a failed `evhttp_make_request` leaves the timeout armed);
- `SelectOp_init.cfg` checks NoWildAccess with `InitMayFail = TRUE` (the ignored resize failure of `select_init`);
- `EvRpc_poolfree.cfg` checks TimerTargetsLive without failures (`evrpc_pool_free` with an armed timeout);
- `EvRpc_abort.cfg` checks TimerAbortsOwnRpc (a timeout aborting another request);
- `EvRpc_free.cfg` checks FreeReturns (the assert in `evrpc_free`);
- `EvRpc_unregister.cfg` checks RpcStateLive (a request state outliving its evrpc);
- `EvRpc_srvlost.cfg` checks ServerAnswered with allocation failures (the ignored pause result of `evrpc_request_cb`);
- `EvBuffer_p2l.cfg` checks Valid (remove_buffer's `previous_to_last`);
- `EvBuffer_resume.cfg` checks SavedPtrValid (a search pointer across add_printf);
- `BufferEvent_lock.cfg` checks BevLockReleased (the watermark functions' double lock).

### The properties

- **QueueIntegrity.** An event is in the active queue of its current priority exactly when it is flagged ACTIVE, and at most once. `event_count` and `event_count_active` agree with the flags, the queues and the deferred list. The loop reads those counters to decide between "no events" and dispatch. The property breaks if any path, such as a priority change while active, a double insertion or a missed decrement, loses track.
- **PassPriorityRule.** Within one `event_process_active`, priorities never go back up. Once a level has run a real event, no lower level runs in that pass. This includes events activated by the callbacks of the pass.
- **TimedOutAfterDeadline.** An event queued with `EV_TIMEOUT` has reached its *current* deadline. Re-arming a timer before its callback runs must cancel the pending firing, which is the spec's "rearming cancels a pending firing".
- **DeferredEventuallyRun.** For every deferred entry, `queued ~> ~queued`.
- **NoStrayNcallsWrite.** Every write through `ev_pncalls` lands in the `ncalls` of that event's own running closure, which is what the code's comment "see if we are just active executing this event in a loop" intends.
- **LockBalanced, LoopRequestsConsumed, TimedIOWatched, NoStrayNcallsWrite, TimerTargetsLive, TimerAbortsOwnRpc, FreeReturns, RpcStateLive** are properties the code violates (section 5); AllAnswered and ServerAnswered hold in evrpc_live, AllAnswered is violated in evrpc_stall and ServerAnswered once allocations may fail.
- **MemorySafe.** No call writes through NULL or a freed chain or frees one twice. Each list ends, holds only allocated chains, and no chain is on two lists. The splices of add_buffer, prepend_buffer and remove_buffer and the chain replacements of expand and expand_fast are where this can go wrong.
- **NoLeak.** Every allocated chain is on some list.
- **Valid.** `_evbuffer_validate` of `test/regress_buffer.c`, the invariant the tests assert, after every call: `last`, `previous_to_last` and `total_len` agree with the list, and no chain overflows its buffer.
- **CallbackSizesAgree.** A buffer's callbacks are told as `orig_size` the `new_size` of their previous call. This holds only if every path counts exactly the bytes it adds and removes. The run kept for it is the violation `evbuffer_cb_add`. With `Ops` restricted to reserve_space, commit_space, expand, remove, add_buffer, prepend_buffer, pullup and freeze, and `CbBufs = {b1}`, TLC finds no violation.
- **StreamSpec.** The refinement described in section 2. No byte is lost, duplicated, reordered or invented, and `total_len` is the byte count. Bytes leave a buffer only to another buffer or to a caller that takes them.
- **ReadlnAgrees.** In every reachable buffer, for every EOL style and every assignment of CR, LF or another character to its bytes, `evbuffer_readln` returns the line that a reference `RefReadln` over the flattened bytes defines, and leaves exactly the bytes after the end of line. This exercises the iterator walk across chains, the CRLF_STRICT retry, the CR strip of EOL_CRLF, and a line that spans chains.
- **SearchAgrees.** `evbuffer_search` from the start, or from any pointer that `evbuffer_ptr_set` places (SET to k, then ADD 0 or 1), returns the first match at or after it (`RefSearch`). Its pointer names the chain and offset of its position, and `ptr_set` fails at or past the end.
- **SavedPtrValid.** A pointer that `evbuffer_search` returned still names the chain and offset of its position while the buffer only grows, so a resumed search reads live bytes (spec 4.4).
- **ReadGate.** While the bufferevent lives, its backend's read event is added exactly when `EV_READ` is enabled and reading is not suspended. This must hold whatever order enable, disable, setwatermark and the reads that cross the mark come in.
- **WatermarkRespected.** While a read high mark is set (the callback is enabled), reading is suspended whenever input holds more than the mark and resumed whenever it holds less. Equality is left open (hazard `bufferevent.c:337`).
- **BevLockReleased.** Between calls no thread holds the bufferevent lock.
- **CallbackOnce.** A request's callback has run exactly once when its wrapper is released, and never before. Each error label, the reply closure and the send macro's allocation failure each call it once. A fall-through from a success path into an error label, or a release path that skips the callback, breaks it.
- **CtxAccounted.** A live wrapper is on the list its state names, exactly once: `pool->requests` while queued, `ctx->evcon`'s list while sent, none otherwise. No list ever holds a released wrapper.
- **ImplementsService.** Client and server together implement `RpcService` (`Service!Spec`) under the mapping `CallView`. Each call changes only by a step the abstract call allows: it is sent at most once, it is answered only after it was sent, and it completes at most once, with a truthful status. `EVRPC_STATUS_ERR_UNSTARTED` is reported exactly when `evhttp_make_request` never accepted the request, so a caller may resend it without the server running it twice. `ERR_NONE` is reported only for a reply the server's handler marshaled, and `ERR_BADPAYLOAD` only for the server's error page. A wrapper whose callback has run never comes back to life.
- **ServerAnswersOnce.** The server sends exactly one response, a reply or an error page, for each request it has finished with, and none for a request whose state is still held. Every path out of `evrpc_request_cb`, `evrpc_request_done` and their closures must end in exactly one send.
- **RpcStateLive.** A request state the handler or a pause entry holds points to a live, registered evrpc.
- **FreeReturns.** `evrpc_free` returns normally.
- **NoWildAccess.** No call of `select_add`, `select_del` or `select_dispatch` reads or writes outside the fd_set buffers. This covers:
  - FD_SET and FD_CLR;
  - the memcpy of `event_fdsz` bytes;
  - the kernel's reading of `event_fds + 1` bits;
  - the FD_ISSET loop.

  This must hold for descriptors at each boundary of the size `select_add` computes, and after resizes that failed part way and left the four buffers with different sizes.
- **InitializedSets.** The `event_fdsz` bytes that `select_dispatch` copies out of each in-set have all been written. `select_resize` must zero what realloc added, from the old `event_fdsz`, before it raises `event_fdsz`. This also holds after a failed resize grew some buffers.
- **DispatchReportsReady.** `select_dispatch` passes to `evmap_io_active` exactly the registered interest that `select()` found ready (spec section 6). It passes nothing evmap has deleted, and misses no registered descriptor up to `event_fds`.
- **TimerTargetsLive.** An armed `ev_timeout` belongs to a wrapper that is still allocated, in a pool that is not freed; `evrpc_request_timeout` reads `ctx->evcon`.
- **TimerAbortsOwnRpc.** When a timeout is armed, its request heads its connection, so `evhttp_connection_fail` aborts that request (evrpc.h: "The RPC is completely aborted if it does not complete by then").
- **AllAnswered.** Every queued request eventually gets its callback, unless the pool is freed first.
- **ServerAnswered.** Every request the server has read is eventually answered, unless the base is freed first.

### Bounds

The EventBase runs use one model:
- three events: `io` (read, persistent), `tm` (a signal event, which may also be given a timeout) and `ex` (the loopexit slot);
- one deferred entry;
- two priorities;
- timeouts `{0, 1}`;
- `MaxNcalls = 2`.

The safety run uses `MaxTime = 1` and `MaxCalls = 3`; the violation runs use `MaxTime = 2` and `MaxCalls = 3` (`EventBase_rearm.cfg` uses 2).

With two priorities, `event_priority_set` can put `tm` above `io`. The priority rule then has two levels to order, and a callback can activate an event in a level the pass has already passed. Timeout 0 fires at once and timeout 1 fires in a later dispatch, or not at all within the bound. With three calls, a pass can be set up (priority change, timer, activation) and a callback can still act during it. `MaxNcalls = 2` makes a signal closure loop twice, so a callback can act between two calls of the same closure; this is the smallest value at which a delete or a break can cut the loop short.

The safety run declares `VIEW SafetyView`, which leaves out the history variables `badUnlock`, `breakReq`, `retval` and `strayWrite`. None of its properties reads them and no step is guarded by them, so states that differ only in them have the same futures. Every action and every branch fires in the safety run (checked with TLC's coverage report), including all the signal-closure actions. `InternalEvents` is empty in the runs, so the "internal events do not end a pass" branch is checked only through `Counted`.

The EvBuffer runs use:
- two buffers;
- three chain addresses;
- `Sizes = {1, 2}`, `MaxBytes = 3`;
- `MIN_BUFFER_SIZE = 2`, `CHAIN_SIZE = 0`, `EVBUFFER_CHAIN_MAX_AUTO_SIZE = 8` and `PRINTF_MIN_SPACE = 1`;
- `ByteVal` mapping byte k to CR, LF or another character by k mod 3; `Needles` are `CR LF` and `LF`.

With these sizes a new chain holds 2 bytes. A 2-byte add into a chain holding 1 byte therefore takes the split path, and two adds already need two chains. Three addresses allow lists of up to three chains, a buffer with two chains next to one with one, and allocation failure once both buffers hold chains. Three bytes are enough to fill and split chains, to move part of a chain, and to hold a CR LF pair that spans two chains. Every action and every branch of `Next` fires in some passing run.

The heap run leaves out `freeze`. A frozen buffer only sends the other calls down their early returns, which the stream and move runs already reach. The two flags per buffer would multiply the states by 16. The heap run also uses `VIEW HeapView`, which leaves out `taking`, and the stream run declares the buffers symmetric (`SYMMETRY BufSymmetry`); its properties treat the two buffers alike.

The BufferEvent run uses:
- `MaxLen = 3`;
- reads of 1 or 2 bytes (and "everything");
- marks `{0, 1, 2}`;
- timeouts `{0, 1}`;
- `MaxRef = 2`.

With these values input can be below, at and above each non-zero mark, and a read can cross a mark by one or two bytes. The run finds about 118k distinct states in under 20 seconds. It sets `CHECK_DEADLOCK FALSE` because freeing the last reference ends the bufferevent: nothing can happen after it.

The EvRpc runs use timeouts `{0, 1}` (0 is "never", as documented, and 1 arms the timer), `MaxRegister = 2` (so an RPC can be registered, unregistered and registered again while a state of the first registration is held) and model values for `NONE`. evrpc_client uses two request wrappers, two connections, every hook result on both sides, resumes with CONTINUE or TERMINATE and both failure switches, and declares wrappers and connections symmetric: the model never distinguishes two wrappers or two connections except by their state. Two wrappers are the most the composed model allows within the run budget (three did not finish in ten minutes); two already put a request behind another on a connection and in the queue. Two connections let `evrpc_pool_find_connection` choose, and let an output-paused request's connection be reused. evrpc_live uses two wrappers and one connection, no failures, output hooks that continue or pause and resumes that continue, with no symmetry (it checks liveness). The violation runs and reproductions use three wrappers where the trace needs them (the stall needs one request in flight and two waiting, so a completion schedules the second while the third is still queued). evrpc_client finds about 167k distinct states in under a minute, and evrpc_live about 64k in under two minutes with coverage. Both set `CHECK_DEADLOCK FALSE`: the client really stops once every request is answered or the pool is freed, and, as evrpc_stall shows, when a request is stranded.

The SelectOp run uses one-byte masks (`MaskBytes = 1`, so `NFDBITS = 8`). The code's arithmetic depends on `sizeof(fd_mask)` only through these two values.
- **Descriptors `{0, 39, 40, 79, 80}`.** `select_init` allocates `howmany(33, 8) = 5` bytes, so 39 is the last descriptor that fits and 40 needs the first doubling, to 10 bytes. 79 is the last descriptor that fits in 10 bytes and 80 needs 20. Descriptor 0 is the one `select_add` never resizes for, because `event_fds` starts at 0.
- **Failures.** Any of the four reallocs of a later resize may fail.
- **`MaxReady = 1`.** One ready pair per `select()`. Each loop iteration of `select_dispatch` is independent of the others, and one pair already reaches the descriptor at `event_fds` and a deleted descriptor; two pairs multiply the states by about 20 (more than a million) without a new case.

The run finds about 47k distinct states in 25 seconds. It sets `CHECK_DEADLOCK FALSE` because nothing can happen after `select_dealloc`.

### Fairness

`FairSpec` (EventBase) assumes two things:
- **Weak fairness of the loop thread's steps.** The application keeps calling `event_base_loop`, and the loop thread is not descheduled forever.
- **Strong fairness of a successful `select_dispatch`.** `select` does not fail forever. A backend error returns -1, and the liveness property holds only if the application can keep running the loop.

API calls get no fairness: they are the environment's choice.

`Spec` (EvRpc) assumes weak fairness for four things:
- **The http layer answering or failing the head request of each connection.** evhttp has its own read/write timeouts, so a request on a connection does not wait forever.
- **The user resuming a paused request.** evrpc.h says processing "stops until evrpc_resume_request() has been called", and a hook that pauses takes on that duty.
- **An armed timer firing.** The event loop keeps running.
- **The server reading each arrived request, the handler calling `EVRPC_REQUEST_DONE`, and the user resuming a paused server request.** evhttp's server side reads what arrives while the loop runs, and evrpc.h makes `EVRPC_REQUEST_DONE` the handler's duty ("To send the reply, call EVRPC_REQUEST_DONE").

Sending, adding connections, setting the timeout, freeing the pool, registering, unregistering and freeing the base get no fairness. The EvBuffer and BufferEvent runs check only safety (the refinement is a safety property), so they assume no fairness.

## 4. Mutants

Each property of a passing run has a mutant. A mutant is a plausible bug in the code, and TLC must find the property violated when the mutant replaces the original:

| Property | Mutant | The bug |
|---|---|---|
| TypeOK | `CallbackReturn_relock_first` | re-acquires the lock before testing `event_break` |
| QueueIntegrity | `event_priority_set_unchecked` | drops the ACTIVE guard |
| PassPriorityRule | `ProcessQueueDone_nobreak` | drops the `break` after a real event |
| TimedOutAfterDeadline | `event_add_internal_keep_active` | drops the removal from the active queue on re-arm |
| DeferredEventuallyRun | `ProcessQueueDone_skip_deferred` | returns before running deferred callbacks |
| TypeOK (evbuffer_heap) | `ChainConsume_backwards` | moves misalign the wrong way when consuming |
| MemorySafe | `ReplaceLast_unlinked` | expand does not redirect `previous_to_last->next` to the new chain |
| Valid | `APPEND_CHAIN_src_p2l` | APPEND_CHAIN keeps dst's `previous_to_last` |
| ReadlnAgrees | `CrlfStrictScan_uncounted` | the CRLF_STRICT retry does not count the skipped CR |
| StreamSpec (evbuffer_stream) | `ChainPrepend_at_end` | prepend writes the bytes after the data instead of before |
| NoLeak | `FreeList_first_only` | drain of everything frees only the first chain |
| StreamSpec (evbuffer_move) | `SpliceChains_linked` | remove_buffer does not cut the moved chains off the rest of src |
| SearchAgrees | `MemcmpFrom_first_chain` | `evbuffer_ptr_memcmp` does not continue into the next chain |
| TypeOK (bufferevent_wm) | `bufferevent_read_unclamped` | `evbuffer_remove` without the clamp to the length |
| ReadGate | `bufferevent_enable_unmasked` | enable passes `EV_READ` to the backend while suspended |
| WatermarkRespected | `SetReadHighMark_no_resume` | setwatermark does not resume reading when the new mark is above the length |
| TypeOK (evrpc_client) | `ReplyStatus_hookres` | the reply closure stores the hook result as `status.error` |
| CallbackOnce | `StartRequest_fallthrough` | the schedule closure falls into its error label after `evhttp_make_request` succeeded |
| CtxAccounted | `PoolSchedule_no_remove` | `evrpc_pool_schedule` schedules the head without `TAILQ_REMOVE` |
| ImplementsService | `ReplyStatus_unstarted` | a NULL reply reports UNSTARTED |
| ServerAnswersOnce | `RequestDoneClosure_fallthrough` | `evrpc_request_done_closure` falls into its error label after `evhttp_send_reply` |
| AllAnswered | `ReplyClosure_no_schedule` | the reply closure does not call `evrpc_pool_schedule` |
| ServerAnswered | `RequestDoneStep_no_pause_entry` | `evrpc_request_done` returns on PAUSE without registering a pause entry |
| NoWildAccess | `Grow_short` | the size loop of `select_add` sizes for `fd` descriptors instead of `fd + 1` |
| InitializedSets | `Resize_no_memset` | `select_resize` does not zero the grown part of the in-sets |
| DispatchReportsReady | `SelectDel_early` | `select_del` returns early also for `fd == event_fds` |

## 5. Findings

1. **Double unlock** (`event.c:668` and `:706`). A deferred callback calls `event_base_loopbreak`. `event_process_deferred_callbacks` then returns -1 without relocking. `event_process_active` ignores the result and releases `th_base_lock` again. Trace (six steps): schedule a deferred callback, loop, dispatch, run the deferred callback, the callback calls loopbreak, unlock.
2. **Stale break/exit** (`event.c:808-816`, `865-868`). The flags are cleared only at the top of the while loop. A callback calls `event_base_loopbreak` (or a loopexit timer fires) on the last active event of an `EVLOOP_ONCE` loop, or in a `EVLOOP_NONBLOCK` pass. The loop then returns 0 with the flag still set, and the next `event_base_loop` returns at once without dispatching.
3. **Read interest lost on re-arm** (`event.c:1177`, `1222`). An IO event with a timeout times out: `timeout_process` deletes it from every queue and activates it with `EV_TIMEOUT`. Before its callback runs, `event_add(ev, tv)` is called. It skips `evmap_io_add` because the event is ACTIVE, and then removes it from the active queue. The event ends up pending on the timer only.
4. **Dangling `ev_pncalls`** (`event.c:598`, `604`, `1277`). `event_signal_closure` points `ev_pncalls` at its local `ncalls` and returns when a callback set `event_break`, without clearing it. A later `event_del` of the event (or `event_add` with a timeout, or `timeout_process`) sees `ev_ncalls && ev_pncalls` and writes 0 into a stack frame that has returned: whatever the loop thread's stack holds there now. Trace (16 steps): add the signal event, dispatch delivers it with `ncalls = 2`, the closure runs the first call, the callback calls loopbreak, the closure returns, `event_del`.
5. **add under-counts for callbacks** (`buffer.c:1179`). When the data does not fit, `evbuffer_add` adds only `remain` to `n_add_for_cb`. Two adds are enough for a callback to be told a wrong old size.
6. **prepend counts the misalignment** (`buffer.c:1254`). On the new-chain path, `evbuffer_prepend` adds `chain->misalign` to `n_add_for_cb` instead of the bytes written into the new chain. Reproduced with `Ops = {"prepend", "freeze"}` in a copy of `EvBuffer_cb_add.cfg`: two prepends.
7. **drain counts the residual** (`buffer.c:670`). `len` is decremented by the loop over whole chains before it is added to `n_del_for_cb`. Reproduced with `Ops = {"reserve_space", "commit_space", "add_buffer", "drain", "freeze"}` in a copy of `EvBuffer_cb_add.cfg`.
8. **remove_buffer corrupts `previous_to_last`** (`buffer.c:792`). Moving whole chains onto a non-empty dst sets `dst->previous_to_last` to `previous_to_previous` of src. That is NULL or a chain of src, not the chain before `dst->last`, so `_evbuffer_validate` fails after add, add, remove_buffer. Reproduced by `EvBuffer_p2l.cfg`.
9. **NULL dereference in chain_insert** (`buffer.c:221`). When the buffer's only chain is empty, left by reserve_space or expand, `evbuffer_chain_insert` frees it and writes `previous_to_last->next`, which is NULL.
10. **add_buffer leaks** (`buffer.c:565`). `COPY_CHAIN` is used when `outbuf`'s total_len is 0. It overwrites `first`/`last` without freeing the empty chains `outbuf` still holds. Reproduced with `Ops = {"add", "reserve_space", "add_buffer", "freeze"}` and the invariant `NoLeak`.
11. **read credits the wrong chain** (`buffer.c:1613`, with `_evbuffer_read_setup_vecs` at 1458-1473). When the last chain is empty and `previous_to_last` has room, one vector points into `previous_to_last`, but `evbuffer_read` adds `n` to the last chain's `off`. The bytes read are lost, and the buffer exposes uninitialized bytes.
12. **remove_buffer ignores allocation failure** (`buffer.c:805`). The partial bytes are drained from src even when `evbuffer_add` into dst fails, so they are lost, while the spec says a failed allocation leaves the buffers unmodified. Reproduced with two chain addresses (`ChainIds <- MC_Chains2`), `Ops = {"add", "remove_buffer"}` and `PROPERTY StreamSpec` in a copy of `EvBuffer_move.cfg`: add, add, remove_buffer.
13. **A saved search pointer dangles** (`buffer.c:1959`, `1331`). `evbuffer_add_vprintf` grows the buffer through `evbuffer_expand`, which copies a last chain without room into a bigger one and frees it. A pointer `evbuffer_search` returned into that chain then names freed memory, while the spec (4.4) says a search resumes from a returned position over growing buffers. Reproduced by `EvBuffer_resume.cfg`.
14. **The watermark functions never unlock** (`bufferevent.c:68`, `83`). `bufferevent_wm_suspend_read` and `bufferevent_wm_unsuspend_read` end with `BEV_LOCK` where `BEV_UNLOCK` belongs. With `BEV_OPT_THREADSAFE`, one `bufferevent_setwatermark` leaves the recursive lock held twice, and the loop thread then blocks forever on its next `BEV_LOCK`. Reproduced by `BufferEvent_lock.cfg`, at depth 1.
15. **A failed schedule strands the queue** (`evrpc.c:677`, `722`, `918`). After a reply, `evrpc_reply_done_closure` calls `evrpc_pool_schedule`, which takes the next request from the queue. If that request fails (an output hook returns TERMINATE, an allocation fails, `evhttp_make_request` fails, or a resume passes TERMINATE), the error label calls its callback and frees it, but never calls `evrpc_pool_schedule` again. The connection stays idle and the requests behind it are never sent, until the user makes another request or adds a connection. The shortest traces of `evrpc_stall` have eight or nine states, and TLC's two workers may print different ones. The steps that matter are these: add a connection, send one request (it goes onto the connection), and queue two more. The first request then completes, by a reply or by a connection failure that reports TIMEOUT. `evrpc_pool_schedule` takes the second request, and that request fails with UNSTARTED, because its output hook terminates or `evhttp_make_request` fails. The third request stays queued on an idle connection. The traces also contain steps that do not matter to the stall, such as `SetTimeout` with the value 0 ("never") or a `ServerFree` of the server.
16. **Timeout left armed on a freed wrapper** (`evrpc.c:710`, `717`). `evrpc_schedule_request_closure` arms `ctx->ev_timeout` and then calls `evhttp_make_request`. If that returns -1, the error label frees the wrapper without `event_del`, and `evrpc_request_timeout` later runs on freed memory Reproduced by `EvRpc_timer.cfg`: set the timeout, add a connection, send.
17. **`evrpc_pool_free` leaves timeouts armed** (`evrpc.c:528`). The pool frees its connections and the requests on them, but the wrappers of those requests keep their timeouts armed, and each one later calls `evhttp_connection_fail` on a freed connection. Reproduced by `EvRpc_poolfree.cfg`: set the timeout, add a connection, send, free the pool.
18. **A timeout aborts another RPC** (`evrpc.c:943`). A request paused by an output hook has not yet reached its connection, so the connection looks idle, and `evrpc_pool_schedule` sends a second request on it. Once the first is resumed, it queues behind the second with its own timeout armed. When that timeout fires, `evhttp_connection_fail` fails the head of the connection, which is the second request, while the first request's timer is gone. evrpc.h says the timed-out RPC "is completely aborted". Reproduced by `EvRpc_abort.cfg`. This depends on the modelled evhttp, which keeps a FIFO per connection.
19. **A failed input pause loses the request** (`evrpc.c:865`). `evrpc_reply_done` ignores the result of `evrpc_pause_request`. When its malloc fails, the wrapper is on no list, so `evrpc_resume_request` cannot find it and its callback never runs. The model reaches this (state `lost`) in evrpc_client; no listed run checks a property that it breaks.
20. **`evrpc_free` asserts on success** (`evrpc.c:97`). The loop `while ((rpc = TAILQ_FIRST(&base->registered_rpcs)) != NULL) assert(evrpc_unregister_rpc(base, rpc->uri));` asserts a call that returns 0 when it succeeds. With an RPC registered, a debug build aborts in `evrpc_free`. Under NDEBUG the call disappears with the assert, the RPC stays at the head of the list, and the loop never ends. The call also passes `rpc->uri`, which `evrpc_unregister_rpc` frees (line 259) before it builds the uri from `name` (line 262). Reproduced by `EvRpc_free.cfg`: register the RPC, free the base.
21. **Request states outlive their evrpc** (`evrpc.c:259`). `evrpc_unregister_rpc` and `evrpc_free` free the evrpc without looking for request states that point to it. A handler that later calls `EVRPC_REQUEST_DONE`, or a resume of a paused state, reads `rpc->reply_complete` and `rpc->base` from freed memory. Reproduced by `EvRpc_unregister.cfg`: register, the client sends, the server hands the state to the handler, unregister.
22. **A failed server-side pause loses the request** (`evrpc.c:307`). As on the client, `evrpc_request_cb` ignores the result of `evrpc_pause_request`. When its malloc fails, the state is on no list and the client's request is never answered, except by the client's own timeout. Reproduced by `EvRpc_srvlost.cfg` (ServerAnswered). `evrpc_request_done` checks the same result and sends an error page instead.
23. **select_init ignores a failed resize** (`select.c:103`). `select_init` calls `select_resize` and returns the selectop whatever the result. When a realloc fails, the fd sets are NULL or only partly allocated, and `event_fdsz` stays 0. `select_add` never resizes for descriptor 0, because `event_fds` starts at 0, so adding it runs FD_SET on a NULL read set. The first `select_dispatch` runs FD_ISSET on a NULL out-set. The spec says `create` fails when no backend can be set up. Reproduced by `SelectOp_init.cfg`: the first realloc fails, then `select_add` of fd 0.

Findings 2, 3, 9 and 11 are also reproduced by configurations no listed run uses (`EventBase_stale.cfg`, `EventBase_rearm.cfg`, `EvBuffer_insert_null.cfg`, `EvBuffer_read_garbage.cfg`); PROJECT.json records only the findings of the listed runs.

Not checked by a run, but reachable in the model: a signal callback that calls `event_active` on its own event while its closure runs. `event_active_internal` then finds the event not ACTIVE (it left the queue when the closure began) and resets `ev_pncalls` to NULL (`event.c:1329`). An `event_del` from the callback no longer aborts the running loop, so the deleted event's callback runs again. The spec says deletes must work even for signal callbacks that re-raise themselves.

## 6. Not modelled, and why

- **`timeout_correct` and `timeout_next`.** `timeout_correct` handles a clock going backwards on systems without a monotonic clock. It shifts all deadlines equally and does not change their order, and time is abstract here. `timeout_next` only bounds how long `select` may block, and the model already lets `select` return at any time up to `MaxTime`.
- **Notify socketpair, `evthread_make_base_notifiable`.** It is a wake-up, and `select` returning at any time already covers it.
- **evmap** (`evmap.c` is not in the repository). SelectOp models its calls at the backend contract. EventBase does not compose with SelectOp: the readiness report EventBase uses is what SelectOp shows `select_dispatch` delivers. The data race of `evmap_io_active` running without the lock is listed as a hazard. It is not modelled, because interleaved atomic steps cannot represent a torn queue update.
- **`signal.c`, `event_gotsig`, `event_sigcb`.** These are not in the repository, or are set by a signal handler the model does not have. `evsig_process` is modelled from the spec (section 2).
- **Event base creation and free, `event_config_*`, `mm_*`, version queries, `event_pending`, `event_once`.** Sequential set-up, teardown and queries that change no modelled state.
- **The bufferevent backends** (`bufferevent_sock.c`, `bufferevent_pair.c`, `bufferevent-internal.h`). These are not in the repository, so their enable/disable and I/O callbacks are modelled from the spec. `bufferevent_setcb`, `get_input`/`get_output` and `flush` change no modelled state. The write watermark is stored, but only the backend acts on it.
- **evbuffer incref/decref for deferred callbacks, and add_file (mmap/sendfile).** The first is reference counting for the deferred mode, which is not composed with EventBase. The second builds chains of kinds (MMAP, SENDFILE) that the modelled configuration does not build.
- **Callback registration** (`evbuffer_add_cb`, `remove_cb`, `setcb`, `cb_set_flags`, `cb_suspend`) in EvBuffer. The model records only which buffers have a callback (`CbBufs`). BufferEvent models `add_cb` and `cb_set_flags` for its one watermark callback.
- **Unlocked buffers.** Concurrent calls without `evbuffer_enable_locking` are data races on the list, and each step of the model is a whole locked call.
- **Several RPCs on one base** and the uri a registration builds (`evrpc_construct_uri`). The RPCs of a base share only its hooks and its pause list, so one RPC shows every path. **The hook list** (`evrpc_add_hook`, `evrpc_remove_hook`, `evrpc_process_hooks`) and **the hook meta data**. A hook is only its result, and `evhttp_handle_request` (server side, not in the repository) is modelled only as the call of the uri's callback or a 404. `evrpc_pool_remove_connection` is left out too: removing every connection strands the queue by contract, and that would hide the stall. evhttp's behaviour is modelled only where evrpc depends on it (section 2).
- **jingxian-network.** Headers of Windows IOCP wrappers, configuration, logging and string helpers. The acceptor depends on classes that are not in the repository.
- **Regression tests and samples.** Used as statements of intended behaviour (for example `_evbuffer_validate`).
