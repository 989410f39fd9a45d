------------------------------ MODULE Requests ------------------------------
(***************************************************************************)
(* What the layers of the HTTP server make of one request, from the        *)
(* outside in: recovery, logging, OpenAPI validation, the router, the      *)
(* generated wrapper that binds parameters, and the generated strict       *)
(* handler that calls the program's handler and writes what it answers.    *)
(* Each is an operator that takes the exchange so far and what the next    *)
(* layer would make of it. Which status the handler decides on is the      *)
(* business of the modules that use this one. The timeout layer only ends  *)
(* the request's context, so that the next Kubernetes call fails. Headers, *)
(* problem details and bodies are reduced to the status and to whether the *)
(* body is whole.                                                          *)
(***************************************************************************)
EXTENDS Naturals

(***************************************************************************)
(* What may be wrong with a request before a handler sees it:              *)
(*   schema       the OpenAPI description does not allow it                *)
(*   unknown      it has no such path or method                            *)
(*   noId         GET or DELETE of containers/                             *)
(*   repeated     one value twice: allowed by validation, not by binding   *)
(*   undecodable  a body of numbers like 1e2, likewise                     *)
(***************************************************************************)
Flaws == {"schema", "unknown", "noId", "repeated", "undecodable"}

(***************************************************************************)
(* What may go wrong with its answer:                                      *)
(*   panic        the handler panics                                       *)
(*   abort        it panics with http.ErrAbortHandler                      *)
(*   latePanic    it panics after the status line                          *)
(*   unencodable  the answer has no JSON                                   *)
(*   cut          the connection breaks, or the server's WriteTimeout is   *)
(*                over, while the body is written                          *)
(*   lost         the same after the handler, when the buffer is flushed   *)
(***************************************************************************)
Faults == {"none", "panic", "abort", "latePanic", "unencodable", "cut", "lost"}

(***************************************************************************)
(* status    of the status line that goes out (0: none yet)                *)
(* lines     status lines the code has asked for                           *)
(* whole     the body of that status is complete                           *)
(* recorded  statusCode of the logging layer's writer                      *)
(* logged    the status in the log line (0: no line)                       *)
(* panic     the panic unwinding the layers                                *)
(* broken    the connection is                                             *)
(***************************************************************************)
NewExchange ==
  [status |-> 0, lines |-> 0, whole |-> FALSE, recorded |-> 200, logged |-> 0,
   panic |-> "none", broken |-> FALSE]

-----------------------------------------------------------------------------
(* net/http sends the first status line and ignores all others.            *)
SendHeader(x, code) ==
  [x EXCEPT !.status = IF x.lines = 0 THEN code ELSE @, !.lines = @ + 1]

(* Mutant of WriteHeader: the status is not recorded.                      *)
WriteHeaderUnrecorded(x, code) == SendHeader(x, code)

WriteHeader(x, code) == [SendHeader(x, code) EXCEPT !.recorded = code]

Body(x) == [x EXCEPT !.whole = ~x.broken /\ x.lines = 1]

WriteResponse(x, code) == Body(WriteHeader(x, code))

BadRequest(x)    == WriteResponse(x, 400)
ResponseError(x) == WriteResponse(x, 500)

(* The answer's Visit function: JSON into a buffer, status, buffer.        *)
Visit(x, code, fault) ==
  LET headed == WriteHeader(x, code)
  IN CASE fault = "unencodable" /\ code # 204 -> ResponseError(x)
       [] fault = "latePanic"                 -> [headed EXCEPT !.panic = "panic"]
       [] fault = "cut" /\ code # 204         -> ResponseError([headed EXCEPT !.broken = TRUE])
       [] OTHER                               -> Body(headed)

StrictHandler(x, flaw, code, fault) ==
  IF flaw = "undecodable" THEN BadRequest(x)
  ELSE IF fault \in {"panic", "abort"} THEN [x EXCEPT !.panic = fault]
  ELSE Visit(x, code, fault)

(* What the next layer makes of the exchange is inner.                     *)
Bind(inner, x, flaw) == IF flaw = "repeated" THEN BadRequest(x) ELSE inner

Route(inner, x, flaw) ==
  CASE flaw = "unknown" -> WriteResponse(x, 404)
    [] flaw = "noId"    -> BadRequest(x)
    [] OTHER            -> inner

Validate(inner, x, flaw) == IF flaw = "schema" THEN BadRequest(x) ELSE inner

(* The log line is written after the next layer returns, not in a defer.   *)
Log(after) ==
  IF after.panic = "none" THEN [after EXCEPT !.logged = after.recorded] ELSE after

(* What recovery does when the other layers have returned or panicked; it  *)
(* writes below the logging layer's writer.  The mutant does not ask       *)
(* whether a status line is out already.                                   *)
RecoveredAlways(after) ==
  CASE after.panic = "none"  -> after
    [] after.panic = "abort" -> [after EXCEPT !.broken = TRUE]
    [] after.panic = "panic" -> Body(SendHeader(after, 500))

Recovered(after) ==
  CASE after.panic = "none"  -> after
    [] after.panic = "abort" -> [after EXCEPT !.broken = TRUE]
    [] after.panic = "panic" -> IF after.lines > 0 THEN after ELSE Body(SendHeader(after, 500))

(* The server as New builds it, for a request to which the handler, if it  *)
(* is reached, answers code.                                               *)
Serve(flaw, code, fault) ==
  LET x         == NewExchange
      handled   == StrictHandler(x, flaw, code, fault)
      bound     == Bind(handled, x, flaw)
      routed    == Route(bound, x, flaw)
      validated == Validate(routed, x, flaw)
      served    == Recovered(Log(validated))
  IN [served EXCEPT !.broken = @ \/ fault = "lost"]

-----------------------------------------------------------------------------
(* The client (pkg/client).                                                *)

Received(x) == x.lines > 0 /\ ~x.broken

(* It reads the whole body and decodes it: JSON200 of the response is set. *)
Accepted(x) == Received(x) /\ x.whole /\ x.status = 200
=============================================================================
