------------------------------- MODULE EvRpc -------------------------------
(***************************************************************************)
(* The client side of evrpc (evrpc.c): an evrpc_pool queues request       *)
(* wrappers (ctx), hands each to an idle evhttp connection, runs the      *)
(* output hooks before the request leaves and the input hooks when the    *)
(* reply arrives, arms a per-request timeout, and calls the user's        *)
(* callback exactly once with an evrpc_status.                            *)
(*                                                                         *)
(* The server side (evrpc_init to evrpc_request_done) answers the same    *)
(* requests: one RPC is registered and unregistered, its input hooks, the *)
(* user's handler and its output hooks run, and it sends a reply or an    *)
(* error page, which is what the client's reply carries.                  *)
(*                                                                         *)
(* evhttp (http.c) is not in the repository; it appears here only at the  *)
(* boundary evrpc uses: a connection keeps a FIFO of requests, answers or *)
(* fails the one at its head and then calls evrpc_reply_done with the     *)
(* reply or with NULL, and evhttp_make_request may return -1.             *)
(*                                                                         *)
(* Every step of the event loop runs to completion, so a handler and the  *)
(* evrpc functions it calls form one action.  The choices a step can meet *)
(* (a failed allocation, a hook result, evhttp_make_request's result)     *)
(* are drawn together as one Outcome.                                     *)
(***************************************************************************)
EXTENDS Integers, Sequences, SequencesExt, FiniteSets

CONSTANTS
    Req,        \* the request wrappers the user sends (model values)
    Conn,       \* the evhttp connections the user may add to the pool
    Timeouts,   \* values given to evrpc_pool_set_timeout
    OutHook,    \* results the output hooks can return ({"CONTINUE"}: none)
    InHook,     \* results the input hooks can return
    ResumeRes,  \* results the user passes to evrpc_resume_request
    AllocFails, \* TRUE: an mm_malloc / evhttp_request_new may return NULL
    MakeFails,  \* TRUE: evhttp_make_request may return -1
    MaxRegister,\* how many times the server may call evrpc_register_rpc
    NONE

HookResult == {"CONTINUE", "PAUSE", "TERMINATE"}

ASSUME /\ Timeouts \subseteq Int
       /\ OutHook \cup InHook \cup ResumeRes \subseteq HookResult
       /\ AllocFails \in BOOLEAN /\ MakeFails \in BOOLEAN
       /\ MaxRegister \in Nat

\* evrpc_status.error values (evrpc.h)
Status == {"NONE", "TIMEOUT", "BADPAYLOAD", "UNSTARTED", "HOOKABORTED"}

(* Where a ctx is: not yet sent, on pool->requests, paused by an output   *)
(* hook, on an evhttp connection, paused by an input hook, freed after    *)
(* its callback, dropped (freed without a callback), orphaned (still      *)
(* allocated when evrpc_pool_free let go of it), or lost (paused by an    *)
(* input hook whose pause entry could not be allocated).                  *)
CtxState == {"unmade", "queued", "paused_out", "sent", "paused_in",
             "freed", "dropped", "orphan", "lost"}

VARIABLES
    pool,         \* [timeout, freed]
    connections,  \* pool->connections
    requests,     \* pool->requests
    ctx,          \* per wrapper: [st, evcon, timer]
    evq,          \* per connection: evcon->requests (evhttp)
    cb,           \* per wrapper: the statuses its callback was called with
    started,      \* wrappers evhttp_make_request accepted (history)
    base,         \* the server's evrpc_base and its one evrpc:
                  \* [freed, registered, gen, aborted]
    srv,          \* per request, its server-side evrpc_req_generic: [st, gen]
    resp          \* per request, the responses the server sent (history)

vars == <<pool, connections, requests, ctx, evq, cb, started, base, srv, resp>>

S == [pool |-> pool, connections |-> connections, requests |-> requests,
      ctx |-> ctx, evq |-> evq, cb |-> cb, started |-> started,
      base |-> base, srv |-> srv, resp |-> resp]

Goto(t) == /\ pool' = t.pool /\ connections' = t.connections
           /\ requests' = t.requests /\ ctx' = t.ctx /\ evq' = t.evq
           /\ cb' = t.cb /\ started' = t.started
           /\ base' = t.base /\ srv' = t.srv /\ resp' = t.resp

(* Where a request's server-side state is: not received, refused by       *)
(* evhttp (no callback for the uri), paused by an input hook, with the    *)
(* user's handler, paused by an output hook, freed, lost (paused without  *)
(* a pause entry) or orphaned by evrpc_free.                              *)
SrvState == {"none", "refused", "paused_in", "user", "paused_out", "freed",
             "lost", "orphan"}

\* The server states that hold rpc_state->rpc and use it later.
Holding == {"paused_in", "user", "paused_out"}

Outcome == [alloc : IF AllocFails THEN {"ok", "fail"} ELSE {"ok"},
            hook : OutHook,
            make : IF MakeFails THEN {0, -1} ELSE {0}]

(* reply_unmarshal of the response the server sent: the marshaled reply  *)
(* of evhttp_send_reply parses, the page of evhttp_send_error does not.   *)
Unmarshal(x) == IF x = "OK" THEN "NONE" ELSE "BADPAYLOAD"

-----------------------------------------------------------------------------
(* evrpc_init: a base with no registered RPC. *)
SrvInit == /\ base = [freed |-> FALSE, registered |-> FALSE, gen |-> 0,
                      aborted |-> FALSE]
           /\ srv = [r \in Req |-> [st |-> "none", gen |-> 0]]
           /\ resp = [r \in Req |-> <<>>]

(* evrpc_pool_new, with the server's base beside it *)
Init == /\ pool = [timeout |-> -1, freed |-> FALSE]
        /\ connections = <<>>
        /\ requests = <<>>
        /\ ctx = [r \in Req |-> [st |-> "unmade", evcon |-> NONE,
                                 timer |-> FALSE]]
        /\ evq = [c \in Conn |-> <<>>]
        /\ cb = [r \in Req |-> <<>>]
        /\ started = {}
        /\ SrvInit

(* The error label of evrpc_schedule_request and of its closure: the      *)
(* callback gets EVRPC_STATUS_ERR_UNSTARTED and the wrapper is freed.     *)
ScheduleError(s, r) ==
    [s EXCEPT !.cb[r] = Append(@, "UNSTARTED"), !.ctx[r].st = "freed"]

(* evrpc_schedule_request_closure, after a TERMINATE or a failed          *)
(* evrpc_construct_uri: the error label.  Otherwise the timeout is armed   *)
(* when pool->timeout > 0 and evhttp_make_request is called.              *)
ArmTimeout(s, r) == [s EXCEPT !.ctx[r].timer = s.pool.timeout > 0]

(* Mutant: the success path falls through into the error label.          *)
StartRequest_fallthrough(s, r, o) ==
    IF o.make = -1 THEN ScheduleError(s, r)
    ELSE ScheduleError([s EXCEPT !.evq[s.ctx[r].evcon] = Append(@, r),
                                 !.ctx[r].st = "sent", !.started = @ \cup {r}], r)

StartRequest(s, r, o) ==
    IF o.make = -1 THEN ScheduleError(s, r)
    ELSE [s EXCEPT !.evq[s.ctx[r].evcon] = Append(@, r),
                   !.ctx[r].st = "sent", !.started = @ \cup {r}]

ScheduleClosure(s, r, hook_res, o) ==
    IF hook_res = "TERMINATE" \/ o.alloc = "fail"
    THEN ScheduleError(s, r)
    ELSE StartRequest(ArmTimeout(s, r), r, o)

(* evrpc_pause_request: a pause entry for the ctx and the closure to      *)
(* resume is appended to pool->paused_requests; here the ctx's state      *)
(* records which closure that is.                                         *)
PauseRequest(s, r, phase) == [s EXCEPT !.ctx[r].st = phase]

(* evrpc_schedule_request: evhttp_request_new, then the output hooks;     *)
(* PAUSE queues the ctx on pool->paused_requests (evrpc_pause_request).   *)
(* A NULL from evhttp_request_new or from the pause entry's malloc takes  *)
(* the error label.                                                       *)
ScheduleRequest(s, c, r, o) ==
    LET t == [s EXCEPT !.ctx[r].evcon = c] IN
    CASE o.alloc = "fail"      -> ScheduleError(s, r)
      [] o.hook = "TERMINATE"  -> ScheduleError(t, r)
      [] o.hook = "PAUSE"      -> PauseRequest(t, r, "paused_out")
      [] OTHER                 -> ScheduleClosure(t, r, "CONTINUE", o)

(* evrpc_pool_find_connection: the first connection with no request.      *)
Idle(s, i) == s.evq[s.connections[i]] = <<>>

IdleConnection(s) ==
    IF \E i \in DOMAIN s.connections : Idle(s, i)
    THEN CHOOSE i \in DOMAIN s.connections :
             Idle(s, i) /\ \A j \in 1..(i - 1) : ~Idle(s, j)
    ELSE 0

(* evrpc_pool_schedule: the head of pool->requests goes to an idle        *)
(* connection, if there is one.                                           *)
(* Mutant: the head is scheduled without TAILQ_REMOVE from the pool.      *)
PoolSchedule_no_remove(s, o) ==
    IF s.requests = <<>> \/ IdleConnection(s) = 0 THEN s
    ELSE ScheduleRequest(s, s.connections[IdleConnection(s)], Head(s.requests), o)

PoolSchedule(s, o) ==
    IF s.requests = <<>> \/ IdleConnection(s) = 0 THEN s
    ELSE ScheduleRequest([s EXCEPT !.requests = Tail(@)],
                         s.connections[IdleConnection(s)], Head(s.requests), o)

(* evrpc_reply_done_closure: the status comes from a NULL request         *)
(* (TIMEOUT), a TERMINATE from the hooks (HOOKABORTED) or                  *)
(* reply_unmarshal; the callback runs, the wrapper is freed and the pool  *)
(* schedules its next request.                                            *)
(* Mutant: the hook result is stored as the status error.                 *)
ReplyStatus_hookres(req, hook_res, pay) ==
    CASE req = NONE              -> "TIMEOUT"
      [] hook_res = "TERMINATE"  -> hook_res
      [] OTHER                   -> pay

(* Mutant: a NULL request reports EVRPC_STATUS_ERR_UNSTARTED.             *)
ReplyStatus_unstarted(req, hook_res, pay) ==
    CASE req = NONE              -> "UNSTARTED"
      [] hook_res = "TERMINATE"  -> "HOOKABORTED"
      [] OTHER                   -> pay

ReplyStatus(req, hook_res, pay) ==
    CASE req = NONE              -> "TIMEOUT"
      [] hook_res = "TERMINATE"  -> "HOOKABORTED"
      [] OTHER                   -> pay

(* Mutant: the closure does not call evrpc_pool_schedule.                 *)
ReplyClosure_no_schedule(s, r, req, hook_res, pay, o) ==
    [s EXCEPT !.cb[r] = Append(@, ReplyStatus(req, hook_res, pay)),
              !.ctx[r].st = "freed"]

ReplyClosure(s, r, req, hook_res, pay, o) ==
    PoolSchedule([s EXCEPT !.cb[r] = Append(@, ReplyStatus(req, hook_res, pay)),
                           !.ctx[r].st = "freed"], o)

(* evrpc_reply_done: the timeout is deleted; a NULL request goes straight *)
(* to the closure, a reply through the input hooks.  On PAUSE the result  *)
(* of evrpc_pause_request is not checked: when its malloc fails the ctx   *)
(* is on no list and nothing will resume it.                              *)
ReplyDone(s, r, req, o, hook_res, pay) ==
    LET t == [s EXCEPT !.ctx[r].timer = FALSE] IN
    CASE req = NONE              -> ReplyClosure(t, r, NONE, "CONTINUE", pay, o)
      [] hook_res # "PAUSE"      -> ReplyClosure(t, r, "req", hook_res, pay, o)
      [] o.alloc = "fail"        -> [t EXCEPT !.ctx[r].st = "lost"]
      [] OTHER                   -> PauseRequest(t, r, "paused_in")

-----------------------------------------------------------------------------
(* evrpc_make_request: asserts that the pool has a connection, appends    *)
(* the wrapper to pool->requests and schedules.                           *)
evrpc_make_request(s, r, o) ==
    PoolSchedule([s EXCEPT !.requests = Append(@, r), !.ctx[r].st = "queued"], o)

(* EVRPC_MAKE_REQUEST (evrpc_send_request_<name>, evrpc.h): the wrapper   *)
(* is allocated by evrpc_make_request_ctx; if that fails the callback     *)
(* gets UNSTARTED.                                                        *)
SendRequest(r) ==
    /\ ~pool.freed
    /\ ctx[r].st = "unmade"
    /\ \/ /\ AllocFails
          /\ Goto([S EXCEPT !.cb[r] = <<"UNSTARTED">>, !.ctx[r].st = "freed"])
       \/ /\ connections # <<>>
          /\ \E o \in Outcome :
               Goto(evrpc_make_request(S, r, o))

(* evrpc_pool_add_connection: a newly created connection is appended and  *)
(* takes the head of pool->requests, if any.  The timeout it inherits     *)
(* from the pool is evhttp's and is part of HttpFail.                     *)
AddToPool(s, c) == [s EXCEPT !.connections = Append(@, c)]

AddConnection(c) ==
    /\ ~pool.freed
    /\ c \notin ToSet(connections)
    /\ \E o \in Outcome :
         Goto(IF requests = <<>> THEN AddToPool(S, c)
              ELSE ScheduleRequest([AddToPool(S, c) EXCEPT !.requests = Tail(@)],
                                   c, Head(requests), o))

(* evrpc_pool_set_timeout *)
SetTimeout(t) ==
    /\ ~pool.freed
    /\ pool' = [pool EXCEPT !.timeout = t]
    /\ UNCHANGED <<connections, requests, ctx, evq, cb, started, base, srv, resp>>

(* evrpc_resume_request: finds the pause entry of the ctx, calls its      *)
(* closure with the user's result, then unlinks the entry.                *)
ResumeRequest(r) ==
    /\ ~pool.freed
    /\ ctx[r].st \in {"paused_out", "paused_in"}
    /\ \E res \in ResumeRes, o \in Outcome :
         Goto(IF ctx[r].st = "paused_out" THEN ScheduleClosure(S, r, res, o)
              ELSE ReplyClosure(S, r, "req", res, Unmarshal(Head(resp[r])), o))

(* The server's response to the request at the head of a connection      *)
(* arrives: the request leaves the connection's list and evrpc_reply_done *)
(* gets it.                                                               *)
HttpReply(c) ==
    /\ ~pool.freed
    /\ evq[c] # <<>>
    /\ resp[Head(evq[c])] # <<>>
    /\ \E o \in Outcome, h \in InHook :
         Goto(ReplyDone([S EXCEPT !.evq[c] = Tail(@)], Head(evq[c]), "req", o, h,
                        Unmarshal(Head(resp[Head(evq[c])]))))

(* evhttp_connection_fail on a connection error or evhttp's own timeout:  *)
(* the head request leaves the list and evrpc_reply_done gets NULL.       *)
HttpFail(c) ==
    /\ ~pool.freed
    /\ evq[c] # <<>>
    /\ \E o \in Outcome :
         Goto(ReplyDone([S EXCEPT !.evq[c] = Tail(@)], Head(evq[c]), NONE,
                        o, "CONTINUE", "NONE"))

(* evrpc_request_timeout: the ctx's timer fires and fails ctx->evcon,     *)
(* which fails whichever request heads that connection.  A timer of a     *)
(* freed ctx reads freed memory; TimerTargetsLive reports that state.     *)
RequestTimeout(r) ==
    /\ ~pool.freed
    /\ ctx[r].timer
    /\ ctx[r].st \notin {"freed", "dropped"}
    /\ evq[ctx[r].evcon] # <<>>
    /\ \E o \in Outcome :
         LET c == ctx[r].evcon IN
         Goto(ReplyDone([S EXCEPT !.ctx[r].timer = FALSE, !.evq[c] = Tail(@)],
                        Head(evq[c]), NONE, o, "CONTINUE", "NONE"))

(* evrpc_pool_free: queued wrappers are freed without a callback, pause   *)
(* entries are freed and their ctx left allocated, and the connections    *)
(* are freed with the requests on them (evhttp calls no callback).        *)
(* Pending timeouts are not deleted.                                      *)
PoolFreeCtx(r) ==
    CASE ctx[r].st = "queued"                          -> "dropped"
      [] ctx[r].st \in {"paused_out", "sent", "paused_in"} -> "orphan"
      [] OTHER                                          -> ctx[r].st

PoolFree ==
    /\ ~pool.freed
    /\ pool' = [pool EXCEPT !.freed = TRUE]
    /\ connections' = <<>>
    /\ requests' = <<>>
    /\ ctx' = [r \in Req |-> [ctx[r] EXCEPT !.st = PoolFreeCtx(r)]]
    /\ evq' = [c \in Conn |-> <<>>]
    /\ UNCHANGED <<cb, started, base, srv, resp>>

-----------------------------------------------------------------------------
(* The server side: an evrpc_base with one RPC, served through evhttp's   *)
(* callback for its uri.  srv[r] is the evrpc_req_generic of request r;   *)
(* its gen is the registration of the evrpc it points to (rpc_state->rpc).*)

ClientVars == <<pool, connections, requests, ctx, evq, cb, started>>

(* The error label of the server functions: evrpc_reqstate_free and       *)
(* evhttp_send_error(req, HTTP_SERVUNAVAIL).                              *)
SrvError(s, r) == [s EXCEPT !.srv[r].st = "freed", !.resp[r] = Append(@, "ERR")]

(* evrpc_request_done_closure: TERMINATE takes the error label; otherwise *)
(* evhttp_send_reply sends rpc_data and the state is freed.               *)
RequestDoneClosure_fallthrough(s, r, hook_res) ==
    IF hook_res = "TERMINATE" THEN SrvError(s, r)
    ELSE SrvError([s EXCEPT !.resp[r] = Append(@, "OK")], r)

RequestDoneClosure(s, r, hook_res) ==
    IF hook_res = "TERMINATE" THEN SrvError(s, r)
    ELSE [s EXCEPT !.srv[r].st = "freed", !.resp[r] = Append(@, "OK")]

(* evrpc_request_done: reply_complete, evbuffer_new for rpc_data, then    *)
(* the output hooks; a pause entry that cannot be allocated takes the     *)
(* error label.                                                           *)
RequestDoneStep_no_pause_entry(s, r, complete, o) ==
    CASE ~complete \/ o.alloc = "fail" \/ o.hook = "TERMINATE" -> SrvError(s, r)
      [] o.hook = "PAUSE" -> [s EXCEPT !.srv[r].st = "lost"]
      [] OTHER            -> RequestDoneClosure(s, r, "CONTINUE")

RequestDoneStep(s, r, complete, o) ==
    CASE ~complete \/ o.alloc = "fail" \/ o.hook = "TERMINATE" -> SrvError(s, r)
      [] o.hook = "PAUSE" -> [s EXCEPT !.srv[r].st = "paused_out"]
      [] OTHER            -> RequestDoneClosure(s, r, "CONTINUE")

(* evrpc_request_cb_closure: request_new, request_unmarshal and reply_new *)
(* (a NULL or a parse error takes the error label), then rpc->cb hands    *)
(* the state to the user.                                                 *)
RequestCbClosure(s, r, hook_res, o) ==
    IF hook_res = "TERMINATE" \/ o.alloc = "fail" THEN SrvError(s, r)
    ELSE [s EXCEPT !.srv[r].st = "user"]

(* evrpc_request_cb: the calloc of rpc_state, then the input hooks.  The  *)
(* result of evrpc_pause_request is ignored, so a failed pause entry      *)
(* leaves the state allocated and the request unanswered.  With           *)
(* o.alloc = "fail", PAUSE stands for that failure and any other hook     *)
(* result for the failed calloc (the closure's failures end the same).    *)
RequestCb(s, r, h, o) ==
    LET t == [s EXCEPT !.srv[r].gen = s.base.gen] IN
    CASE h = "PAUSE" /\ o.alloc = "fail" -> [t EXCEPT !.srv[r].st = "lost"]
      [] o.alloc = "fail" \/ h = "TERMINATE" -> SrvError(t, r)
      [] h = "PAUSE" -> [t EXCEPT !.srv[r].st = "paused_in"]
      [] OTHER       -> RequestCbClosure(t, r, "CONTINUE", o)

(* evhttp reads the request at the head of a connection and calls the     *)
(* callback set for its uri, evrpc_request_cb, or answers 404 itself.     *)
ServerRequest(c) ==
    /\ evq[c] # <<>>
    /\ srv[Head(evq[c])].st = "none"
    /\ \E o \in Outcome, h \in InHook :
         LET r == Head(evq[c]) IN
         Goto(IF base.registered THEN RequestCb(S, r, h, o)
              ELSE [S EXCEPT !.srv[r].st = "refused", !.resp[r] = Append(@, "ERR")])

(* The user's handler calls evrpc_request_done (EVRPC_REQUEST_DONE) with  *)
(* a reply that is complete or not.                                       *)
RequestDone(r) ==
    /\ srv[r].st = "user"
    /\ \E complete \in BOOLEAN, o \in Outcome :
         Goto(RequestDoneStep(S, r, complete, o))

(* evrpc_resume_request on the base: the pause entry's closure runs.     *)
ServerResume(r) ==
    /\ ~base.freed
    /\ srv[r].st \in {"paused_in", "paused_out"}
    /\ \E res \in ResumeRes, o \in Outcome :
         Goto(IF srv[r].st = "paused_in" THEN RequestCbClosure(S, r, res, o)
              ELSE RequestDoneClosure(S, r, res))

(* evrpc_register_rpc (EVRPC_REGISTER): a fresh evrpc for the uri.       *)
Register ==
    /\ ~base.freed /\ ~base.registered /\ base.gen < MaxRegister
    /\ base' = [base EXCEPT !.registered = TRUE, !.gen = @ + 1]
    /\ UNCHANGED <<ClientVars, srv, resp>>

(* evrpc_unregister_rpc: the evrpc is freed and the uri callback deleted; *)
(* states still pointing to it are not looked at.                         *)
Unregister ==
    /\ ~base.freed /\ base.registered
    /\ base' = [base EXCEPT !.registered = FALSE]
    /\ UNCHANGED <<ClientVars, srv, resp>>

(* evrpc_free: the loop runs assert(evrpc_unregister_rpc(...)), which     *)
(* returns 0 on success, so with an RPC registered the assert aborts the  *)
(* process (and under NDEBUG the loop never ends).  Otherwise the pause   *)
(* entries are freed and the paused states left allocated for good.       *)
ServerFree ==
    /\ ~base.freed
    /\ base' = [base EXCEPT !.freed = TRUE, !.aborted = base.registered]
    /\ srv' = [r \in Req |->
                 IF srv[r].st \in {"paused_in", "paused_out"}
                 THEN [srv[r] EXCEPT !.st = "orphan"] ELSE srv[r]]
    /\ UNCHANGED <<ClientVars, resp>>

Next ==
    \/ \E r \in Req : SendRequest(r) \/ ResumeRequest(r) \/ RequestTimeout(r)
    \/ \E c \in Conn : AddConnection(c) \/ HttpReply(c) \/ HttpFail(c)
    \/ \E t \in Timeouts : SetTimeout(t)
    \/ PoolFree
    \/ \E c \in Conn : ServerRequest(c)
    \/ \E r \in Req : RequestDone(r) \/ ServerResume(r)
    \/ Register \/ Unregister \/ ServerFree

(* The http layer eventually answers or fails the head request of each    *)
(* connection (it has its own timeouts), a user who paused a request      *)
(* resumes it (the hook contract in evrpc.h), and an armed timer fires.   *)
(* On the server, evhttp reads each request that has arrived, and the     *)
(* user's handler calls EVRPC_REQUEST_DONE (evrpc.h requires it) and      *)
(* resumes what it paused.                                                *)
Fairness ==
    /\ \A c \in Conn : WF_vars(HttpReply(c) \/ HttpFail(c)) /\ WF_vars(ServerRequest(c))
    /\ \A r \in Req : /\ WF_vars(ResumeRequest(r)) /\ WF_vars(RequestTimeout(r))
                     /\ WF_vars(RequestDone(r)) /\ WF_vars(ServerResume(r))

Spec == Init /\ [][Next]_vars /\ Fairness

-----------------------------------------------------------------------------
TypeOK ==
    /\ pool \in [timeout : Timeouts \cup {-1}, freed : BOOLEAN]
    /\ connections \in Seq(Conn) /\ requests \in Seq(Req)
    /\ ctx \in [Req -> [st : CtxState, evcon : Conn \cup {NONE}, timer : BOOLEAN]]
    /\ evq \in [Conn -> Seq(Req)]
    /\ cb \in [Req -> Seq(Status)]
    /\ started \subseteq Req
    /\ base \in [freed : BOOLEAN, registered : BOOLEAN, gen : 0..MaxRegister,
                 aborted : BOOLEAN]
    /\ srv \in [Req -> [st : SrvState, gen : 0..MaxRegister]]
    /\ resp \in [Req -> Seq({"OK", "ERR"})]

\* The number of times r occurs in the sequence q.
Occurrences(q, r) == Len(SelectSeq(q, LAMBDA x : x = r))

(* Every wrapper's callback runs exactly once, at the moment the wrapper  *)
(* is released: the error labels of evrpc_schedule_request and its        *)
(* closure, evrpc_reply_done_closure and the send macro's allocation      *)
(* failure each call it once and no path calls it again or skips it.      *)
CallbackOnce ==
    \A r \in Req : Len(cb[r]) = IF ctx[r].st = "freed" THEN 1 ELSE 0

(* A live wrapper is on exactly the list its state names, once: on        *)
(* pool->requests while queued, on the connection ctx->evcon while sent,  *)
(* and on no list otherwise, so no list ever holds a freed wrapper.       *)
(* evrpc_pool_schedule and evrpc_pool_add_connection must unlink the head *)
(* before evrpc_schedule_request.                                         *)
CtxAccounted ==
    \A r \in Req :
        /\ Occurrences(requests, r) = IF ctx[r].st = "queued" THEN 1 ELSE 0
        /\ \A c \in Conn :
             Occurrences(evq[c], r) =
                 IF ctx[r].st = "sent" /\ ctx[r].evcon = c THEN 1 ELSE 0

(* The client and the server together implement RpcService: each call   *)
(* is made, sent by evhttp_make_request at most once and before the       *)
(* server can answer it, answered by the server at most once, and ends    *)
(* with at most one callback, whose status agrees with what happened:     *)
(* EVRPC_STATUS_ERR_UNSTARTED exactly for a request that never left (so   *)
(* a caller may resend it), ERR_NONE only after the server's handler sent *)
(* a marshaled reply, ERR_BADPAYLOAD only after an error page.            *)
(* evrpc_reply_done_closure picks the status from the reply, the hook     *)
(* result and the unmarshal, in that order; the schedule paths report     *)
(* UNSTARTED.  A call still open when evrpc_pool_free runs is abandoned.  *)
CallView(r) ==
    [phase  |-> CASE cb[r] # <<>>          -> "done"
                  [] ctx[r].st = "unmade"  -> "new"
                  [] pool.freed            -> "abandoned"
                  [] OTHER                 -> "open",
     sent   |-> r \in started,
     answer |-> resp[r],
     status |-> cb[r]]

Service == INSTANCE RpcService WITH calls <- [r \in Req |-> CallView(r)]

ImplementsService == Service!Spec

(* The server answers each request it read exactly once: every path out  *)
(* of evrpc_request_cb, its closure, evrpc_request_done and its closure   *)
(* ends in one evhttp_send_reply or one evhttp_send_error, and a state    *)
(* still held (by the user, a pause, or nobody) has sent nothing.         *)
ServerAnswersOnce ==
    \A r \in Req : Len(resp[r]) = IF srv[r].st \in {"freed", "refused"} THEN 1 ELSE 0

(* A server state the user or a pause entry still holds points to a live *)
(* evrpc: rpc_state->rpc is dereferenced by evrpc_request_done and the    *)
(* closures, but evrpc_unregister_rpc and evrpc_free free the evrpc      *)
(* without looking for such states.                                      *)
RpcStateLive ==
    \A r \in Req : srv[r].st \in Holding =>
        /\ base.registered /\ ~base.freed
        /\ srv[r].gen = base.gen

(* evrpc_free returns: its loop over registered_rpcs unregisters each    *)
(* RPC and goes on with the pause entries and the hooks.                  *)
FreeReturns == ~base.aborted

(* An armed request timeout (ctx->ev_timeout) belongs to a wrapper that   *)
(* is still allocated in a live pool: evrpc_request_timeout reads         *)
(* ctx->evcon when it fires.                                              *)
TimerTargetsLive ==
    \A r \in Req : ctx[r].timer => ctx[r].st \notin {"freed", "dropped"} /\ ~pool.freed

(* When a request's timeout fires, evhttp_connection_fail(ctx->evcon)     *)
(* aborts that request: it is the one at the head of its connection.      *)
TimerAbortsOwnRpc ==
    ~pool.freed =>
        \A r \in Req : ctx[r].timer =>
            evq[ctx[r].evcon] # <<>> /\ Head(evq[ctx[r].evcon]) = r

(* Every request put on pool->requests eventually gets its callback,      *)
(* unless the pool is freed first.                                        *)
AllAnswered ==
    \A r \in Req : ctx[r].st = "queued" ~> (cb[r] # <<>> \/ pool.freed)

(* Every request the server has read is eventually answered with a      *)
(* reply or an error page, unless evrpc_free releases the base first:     *)
(* each pause the hooks ask for is registered so that                     *)
(* evrpc_resume_request can find it.                                      *)
ServerAnswered ==
    \A r \in Req : srv[r].st # "none" ~> (resp[r] # <<>> \/ base.freed)
=============================================================================
