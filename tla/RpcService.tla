------------------------------ MODULE RpcService ------------------------------
(***************************************************************************)
(* What evrpc promises about one RPC call, client and server together,    *)
(* without pools, connections, hooks or timers.  A call is made, may be   *)
(* handed to the server (sent), may be answered by the server once, and   *)
(* ends either with exactly one callback whose status tells the truth     *)
(* about what happened, or abandoned when the pool is freed.              *)
(*                                                                         *)
(* The status rules are the documented meaning of evrpc_status (evrpc.h): *)
(* ERR_UNSTARTED for a request that never left, ERR_NONE for a reply that *)
(* was received and unmarshaled, ERR_BADPAYLOAD for one that was not.     *)
(***************************************************************************)
EXTENDS Sequences

CONSTANTS Req

Status == {"NONE", "TIMEOUT", "BADPAYLOAD", "UNSTARTED", "HOOKABORTED"}

Phase == {"new", "open", "done", "abandoned"}

VARIABLES calls   \* per request: [phase, sent, answer, status]

Call == [phase : Phase, sent : BOOLEAN,
         answer : Seq({"OK", "ERR"}), status : Seq(Status)]

Init == calls = [r \in Req |-> [phase |-> "new", sent |-> FALSE,
                                answer |-> <<>>, status |-> <<>>]]

(* The status a completed call may report, given what happened to it.    *)
Truthful(c, s) ==
    /\ s = "UNSTARTED" <=> ~c.sent
    /\ s = "NONE" => c.answer = <<"OK">>
    /\ s = "BADPAYLOAD" => c.answer = <<"ERR">>

(* The transitions of one call. *)
Make(c, d)     == c.phase = "new" /\ d = [c EXCEPT !.phase = "open"]
Start(c, d)    == /\ c.phase \in {"new", "open"} /\ ~c.sent
                  /\ d = [c EXCEPT !.phase = "open", !.sent = TRUE]
Complete(c, d) == /\ c.phase \in {"new", "open"}
                  /\ \E s \in Status :
                       Truthful(c, s) /\ d = [c EXCEPT !.phase = "done", !.status = <<s>>]
Abandon(c, d)  == c.phase = "open" /\ d = [c EXCEPT !.phase = "abandoned"]
Answer(c, d)   == /\ c.sent /\ c.answer = <<>>
                  /\ \E a \in {"OK", "ERR"} : d = [c EXCEPT !.answer = <<a>>]

Step(c, d) == Make(c, d) \/ Start(c, d) \/ Complete(c, d) \/ Abandon(c, d) \/ Answer(c, d)

(* One event-loop step may move several calls (a reply completes one and *)
(* schedules the next), each by one transition.                           *)
Next == /\ calls' # calls
        /\ \A r \in Req : calls'[r] = calls[r] \/ Step(calls[r], calls'[r])

Spec == Init /\ [][Next]_calls

TypeOK == calls \in [Req -> Call]
=============================================================================
