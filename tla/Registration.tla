---------------------------- MODULE Registration ----------------------------
(***************************************************************************)
(* The registrar of internal/registration: one goroutine posts the         *)
(* provider to the DCM registry until that works, is refused with a 4xx,   *)
(* or the context is cancelled, waiting between attempts for a backoff     *)
(* that doubles up to a maximum.                                           *)
(*                                                                         *)
(* A post may take effect and lose its response.  The registry (external)  *)
(* tells providers apart by name, so that a second post updates the first. *)
(***************************************************************************)
EXTENDS Integers

CONSTANTS
  InitialBackoff, MaxBackoff,  \* initialBackoff and maxBackoff, in seconds
  MaxFailures                  \* bound: posts that fail

VARIABLES
  loop,        \* off, sending, waiting, done
  outcome,     \* none, registered, refused, cancelled
  backoff,     \* the next wait
  registered,  \* the registry has an entry for this provider
  failures,    \* posts that have failed
  ctxDone      \* the context given to Start is cancelled

regvars == <<loop, outcome, backoff, registered, failures>>

Init ==
  /\ loop = "off" /\ outcome = "none"
  /\ backoff = InitialBackoff
  /\ registered = FALSE
  /\ failures = 0

(* Start: the first call starts the goroutine, the others do nothing.      *)
Start ==
  /\ loop' = IF loop = "off" THEN "sending" ELSE loop
  /\ UNCHANGED <<outcome, backoff, registered, failures>>

Finish(result) ==
  /\ loop' = "done"
  /\ outcome' = result
  /\ UNCHANGED <<backoff, failures>>

(* The registry answers 200 or 201.                                        *)
Accepted ==
  /\ loop = "sending"
  /\ registered' = TRUE
  /\ Finish("registered")

(* It answers 4xx, which is not retried.                                   *)
Refused ==
  /\ loop = "sending"
  /\ UNCHANGED registered
  /\ Finish("refused")

(* It answers something else, is not reached, or its response is lost; or  *)
(* the context has been cancelled.                                         *)
SendFails ==
  /\ loop = "sending"
  /\ IF ctxDone THEN UNCHANGED failures
     ELSE failures < MaxFailures /\ failures' = failures + 1
  /\ registered' \in {registered, TRUE}
  /\ loop' = "waiting"
  /\ UNCHANGED <<outcome, backoff>>

(* Mutants of WaitEnds: the loop is left after the wait; the doubled       *)
(* backoff is not capped.                                                  *)
WaitEndsLoop ==
  /\ loop = "waiting"
  /\ loop' = "done"
  /\ UNCHANGED <<outcome, backoff, registered, failures>>

WaitEndsUncapped ==
  /\ loop = "waiting"
  /\ loop' = "sending"
  /\ backoff' = 2 * backoff
  /\ UNCHANGED <<outcome, registered, failures>>

(* The backoff timer fires.                                                *)
WaitEnds ==
  /\ loop = "waiting"
  /\ loop' = "sending"
  /\ backoff' = IF 2 * backoff > MaxBackoff THEN MaxBackoff ELSE 2 * backoff
  /\ UNCHANGED <<outcome, registered, failures>>

WaitCancelled ==
  /\ loop = "waiting" /\ ctxDone
  /\ UNCHANGED registered
  /\ Finish("cancelled")

Post == Accepted \/ Refused \/ SendFails

-----------------------------------------------------------------------------
RegTypeOK ==
  /\ loop \in {"off", "sending", "waiting", "done"}
  /\ outcome \in {"none", "registered", "refused", "cancelled"}
  /\ backoff \in InitialBackoff .. MaxBackoff
  /\ registered \in BOOLEAN
  /\ failures \in 0 .. MaxFailures
=============================================================================
