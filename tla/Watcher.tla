------------------------------- MODULE Watcher -------------------------------
(***************************************************************************)
(* What the rest of the process may rely on of the monitor's goroutine,    *)
(* StatusMonitor.Start: it begins publications only before its context's   *)
(* cancellation has reached it, and it returns after that, with none under *)
(* way.  Module Lifecycle composes the process from these steps, and       *)
(* module StatusMonitor, which has the informers, handlers, timers and     *)
(* retries, implements them.                                               *)
(***************************************************************************)
VARIABLES
  ctxDone,     \* the context of Start is cancelled
  monitor,     \* off, running, stopping (in the deferred calls), returned
  publishing   \* a publishWithRetry is under way

watching == <<ctxDone, monitor, publishing>>

Init == ctxDone = FALSE /\ monitor = "running" /\ publishing = FALSE

Cancel ==
  /\ ~ctxDone
  /\ ctxDone' = TRUE
  /\ UNCHANGED <<monitor, publishing>>

PublishBegins ==
  /\ monitor = "running" /\ ~publishing
  /\ publishing' = TRUE
  /\ UNCHANGED <<ctxDone, monitor>>

(* The last one under way ends, published or given up.                     *)
PublishEnds ==
  /\ publishing
  /\ publishing' = FALSE
  /\ UNCHANGED <<ctxDone, monitor>>

(* Start leaves its wait for the context: debouncer.Stop.                  *)
MonitorStops ==
  /\ monitor = "running" /\ ctxDone
  /\ monitor' = "stopping"
  /\ UNCHANGED <<ctxDone, publishing>>

MonitorReturns ==
  /\ monitor = "stopping" /\ ~publishing
  /\ monitor' = "returned"
  /\ UNCHANGED <<ctxDone, publishing>>

Next == Cancel \/ PublishBegins \/ PublishEnds \/ MonitorStops \/ MonitorReturns

Spec == Init /\ [][Next]_watching
=============================================================================
