--------------------------- MODULE ResourceReader ---------------------------
(***************************************************************************)
(* A reader without memory: what it answers depends on the request alone.   *)
(* A request is answered at once, or begun and answered later.              *)
(***************************************************************************)
EXTENDS Sequences

CONSTANTS
  Requests,     \* the requests that can be made
  Readable(_),  \* whether a request can be served
  Window(_)     \* the cells a readable request asks for

VARIABLES
  busy,     \* a request has been begun and not yet answered
  request,  \* the last request
  reply     \* the answer to it, empty while busy

vars == <<busy, request, reply>>

Answer(r) == IF Readable(r) THEN Window(r) ELSE <<"failed">>

Init == ~busy

AnswerAtOnce(r) ==
  /\ ~busy /\ ~busy'
  /\ request' = r
  /\ reply' = Answer(r)

Begin(r) ==
  /\ ~busy /\ busy'
  /\ request' = r
  /\ reply' = <<>>

Finish ==
  /\ busy /\ ~busy'
  /\ reply' = Answer(request)
  /\ UNCHANGED request

Next == (\E r \in Requests : AnswerAtOnce(r) \/ Begin(r)) \/ Finish

Spec == Init /\ [][Next]_vars
=============================================================================
