------------------------------ MODULE Requests ------------------------------
(***************************************************************************)
(* The life of HTTP requests, for the modules that model controllers.  A   *)
(* handler admits a request when its guards and pipes have let it in; each *)
(* await of the service behind it is a stage.  Any number of requests      *)
(* follow one another in each element of Call.  Answers are named as in    *)
(* HttpStatus; the 2xx codes are "OK".                                     *)
(***************************************************************************)

CONSTANTS
  Call,      \* requests under way at one time
  None

VARIABLE call

Status == {"OK", "BAD_REQUEST", "UNAUTHORIZED", "FORBIDDEN", "NOT_FOUND", "CONFLICT",
           "UNPROCESSABLE_ENTITY", "INTERNAL_SERVER_ERROR"}

\* "docs": the statuses the controller documents; "id" and "body": what the client sent; "memo":
\* what the service has read or made; "overtaken": history, another request was faster.
Idle == [op |-> "none", stage |-> "idle", docs |-> {}, id |-> None, body |-> None,
         memo |-> None, answer |-> "none", overtaken |-> FALSE]

Request(Op, Stage, Id, Body, Memo) ==
  [op : Op, stage : Stage \cup {"idle", "odd"}, docs : SUBSET Status, id : Id, body : Body,
   memo : Memo, answer : Status \cup {"none"}, overtaken : BOOLEAN]

At(c, stage) == call[c].stage = stage
Free(c) == At(c, "idle")
Odd(c) == At(c, "odd")

Arrival(op, docs, stage, id, body) ==
  [Idle EXCEPT !.op = op, !.docs = docs, !.stage = stage, !.id = id, !.body = body]

\* A request that ends with a documented answer is forgotten at once; any other answer is kept as
\* "odd" for one state.
Ended(request, code) ==
  IF code \in request.docs THEN Idle
  ELSE [request EXCEPT !.docs = {}, !.stage = "odd", !.answer = code]

\* Guards and pipes let the request in ("OK") or answer it.
Admit(c, request, code) ==
  /\ Free(c)
  /\ call' = [call EXCEPT ![c] = IF code = "OK" THEN request ELSE Ended(request, code)]

\* A read that leaves nothing behind is answered in the step of its guards.
Answer(c, request, code) ==
  /\ Free(c)
  /\ call' = [call EXCEPT ![c] = Ended(request, code)]

Reply(c, code) == call' = [call EXCEPT ![c] = Ended(@, code)]
Goto(c, stage) == call' = [call EXCEPT ![c].stage = stage]

\* History: the requests about to write what another one has just written learn so.
Overtaking(c, concerned) ==
  [k \in Call |-> IF k # c /\ k \in concerned THEN [call[k] EXCEPT !.overtaken = TRUE]
                  ELSE call[k]]

\* ValidationPipe: a body that breaks its DTO's rules is answered 400.
ValidationPipe(valid) == IF valid THEN "OK" ELSE "BAD_REQUEST"

\* An odd answer is on its way before anything else happens.
Unhurried == \A c \in Call : ~Odd(c)
SendOddAnswer(c) == Odd(c) /\ call' = [call EXCEPT ![c] = Idle]
=============================================================================
