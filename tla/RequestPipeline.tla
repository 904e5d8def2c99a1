---------------------------- MODULE RequestPipeline ----------------------------
(***************************************************************************)
(* One request of each operation of Routes on its way through the API: a   *)
(* gate lets it pass or refuses it, the handler succeeds or fails, and     *)
(* GlobalExceptionFilter turns a refusal or a failure into a status.       *)
(***************************************************************************)
EXTENDS Routes, Sequences

VARIABLE call   \* the request, the stage it is at, and who answered what

NoCall == [stage |-> 0, op |-> "none", by |-> "none", status |-> 0]
(* The order main.ts and NestJS give the gates; the handler comes last.    *)
Stages == <<"csrf", "limit", "jwt", "pipe", "handler">>
Arrived == {n \in 1..5 : n = call.stage}
Here == Stages[call.stage]

AnswerIs(by, status) ==
    call' = [call EXCEPT !.stage = 6, !.by = by, !.status = status]

ArriveRequest(op) ==
    /\ call = NoCall
    /\ call' = [NoCall EXCEPT !.stage = 1, !.op = op]

PassGate ==
    /\ Arrived # {} /\ Here # "handler"
    /\ call' = [call EXCEPT !.stage = @ + 1]

RefuseAtGate ==
    /\ Arrived # {} /\ Here \in Gates(Routes[call.op])
    /\ AnswerIs(Here, catch(Refusal[Here]))

HandlerFails(e) ==
    /\ Arrived # {} /\ Here = "handler"
    /\ e \in Routes[call.op].throws
    /\ AnswerIs("failure", catch(e))

HandlerSucceeds(s) ==
    /\ Arrived # {} /\ Here = "handler"
    /\ s \in Routes[call.op].ok
    /\ AnswerIs("success", s)

AnswerTaken == call.stage = 6 /\ call' = NoCall

PipelineInit == call = NoCall

PipelineNext ==
    \/ \E op \in DOMAIN Routes : ArriveRequest(op)
    \/ PassGate \/ RefuseAtGate
    \/ \E e \in Failures : HandlerFails(e)
    \/ \E s \in Successes : HandlerSucceeds(s)
    \/ AnswerTaken

PipelineSpec == PipelineInit /\ [][PipelineNext]_call
-----------------------------------------------------------------------------
PipelineTypeOK ==
    /\ call.stage \in 0..6 /\ call.op \in DOMAIN Routes \cup {"none"}
    /\ call.by \in Gate \cup {"failure", "success", "none"}
    /\ call.status \in {0} \cup 200..599

(* The client can tell from the status alone that it has to fetch a CSRF   *)
(* token (403), to wait for the limit (429), or that what it asked for was *)
(* done (2xx): the filter gives no other refusal and no failure of any     *)
(* handler the same status, although the limiter throws a                  *)
(* BadRequestException.                                                    *)
StatusTellsGate ==
    call.stage = 6 => /\ call.status = 403 <=> call.by = "csrf"
                      /\ call.status = 429 <=> call.by = "limit"
                      /\ call.status \in 200..299 <=> call.by = "success"
=============================================================================
