---------------------------- MODULE MC_EventBase ----------------------------
(* Instantiates EventBase: a persistent read event io, a one-shot signal *)
(* event tm that may also be given a timeout, one loopexit slot, one     *)
(* deferred callback, two priorities.                                    *)
EXTENDS EventBase

CONSTANTS io, tm, ex, dcb

MC_Events == {io, tm, ex}
MC_IOEvents == {io}
MC_PersistEvents == {io}
MC_ExitEvents == {ex}
MC_DeferredCbs == {dcb}
MC_SignalEvents == {tm}

(* badUnlock, breakReq, retval and strayWrite are history variables: no *)
(* step reads them except to update itself, and the properties of the   *)
(* safety run do not, so states that differ only in them have the same  *)
(* futures and satisfy the same properties.                             *)
SafetyView == <<base, now, pc, loopFlags, curPri, count, cur, reported,
                lockDepth, calls, pass, sigLeft>>
====
