----------------------------- MODULE Debouncer -----------------------------
(***************************************************************************)
(* The debouncer of internal/monitoring/debouncer.go.  Submit arms one     *)
(* timer per event and stops the timer it finds in the map; a timer that   *)
(* expires runs its callback on a goroutine of its own, which publishes    *)
(* the event; Stop forbids new publications and waits for the ones under   *)
(* way.                                                                    *)
(*                                                                         *)
(* Everything the code does between mu.Lock and mu.Unlock is one step here *)
(* (nothing in those sections blocks).  What interleaves is what the mutex *)
(* does not cover: a timer expires, its callback reaches the lock later,   *)
(* it publishes outside the lock, Stop waits outside the lock.             *)
(*                                                                         *)
(* Events are numbered in the order of their Submit calls and a timer has  *)
(* the number of its event.                                                *)
(***************************************************************************)
EXTENDS Integers, FiniteSets

CONSTANTS
  Instances,    \* the instance IDs, keys of the timers map
  MaxSubmits    \* bound: the number of Submit calls of a behaviour

Timer == 1 .. MaxSubmits
NoTimer == 0            \* the map has no entry for an instance
NoOwner == "none"       \* the timer has not been created yet

ASSUME DebouncerAssumption == MaxSubmits \in Nat /\ NoOwner \notin Instances

(***************************************************************************)
(* unused      no Submit has created it                                    *)
(* armed       counting down the debounce window                           *)
(* halted      stopped by t.Stop() before it expired                       *)
(* fired       expired: the callback's goroutine has not got the lock yet  *)
(* dropped     the callback found the debouncer stopped and returned       *)
(* publishing  inside publishFn, outside the lock                          *)
(* published   publishFn has returned and wg.Done has run                  *)
(***************************************************************************)
Phases == {"unused", "armed", "halted", "fired", "dropped", "publishing",
           "published"}

VARIABLES
  submits,   \* how many Submit calls have armed a timer
  owner,     \* the instance each timer's event is about
  phase,     \* where each timer is in its life
  timers,    \* d.timers: the timer the map holds for each instance
  wg,        \* the counter of d.wg
  stopped,   \* d.stopped
  stopPC     \* the goroutine calling Stop: running, waiting, returned

vars == <<submits, owner, phase, timers, wg, stopped, stopPC>>

Init ==
  /\ submits = 0
  /\ owner = [t \in Timer |-> NoOwner]
  /\ phase = [t \in Timer |-> "unused"]
  /\ timers = [i \in Instances |-> NoTimer]
  /\ wg = 0
  /\ stopped = FALSE
  /\ stopPC = "running"

-----------------------------------------------------------------------------
(* t.Stop() on every timer of a set: only one that has not expired yet is  *)
(* affected.                                                               *)
Halted(ts) ==
  [t \in Timer |-> IF t \in ts /\ phase[t] = "armed" THEN "halted" ELSE phase[t]]

(* Mutant of Submit: one window for all instances.                         *)
SubmitHaltsAll(i) ==
  /\ ~stopped
  /\ submits < MaxSubmits
  /\ submits' = submits + 1
  /\ owner' = [owner EXCEPT ![submits + 1] = i]
  /\ phase' = [Halted({timers[k] : k \in Instances}) EXCEPT ![submits + 1] = "armed"]
  /\ timers' = [timers EXCEPT ![i] = submits + 1]
  /\ UNCHANGED <<wg, stopped, stopPC>>

(* Submit on a running debouncer.  On a stopped one it returns at once and *)
(* changes nothing, which is the guard.                                    *)
Submit(i) ==
  /\ ~stopped
  /\ submits < MaxSubmits
  /\ submits' = submits + 1
  /\ owner' = [owner EXCEPT ![submits + 1] = i]
  /\ phase' = [Halted({timers[i]}) EXCEPT ![submits + 1] = "armed"]
  /\ timers' = [timers EXCEPT ![i] = submits + 1]
  /\ UNCHANGED <<wg, stopped, stopPC>>

(* Mutant of Expire: a sweep over the map instead of a timer per event.    *)
ExpireTracked(t) ==
  /\ phase[t] = "armed"
  /\ timers[owner[t]] = t
  /\ phase' = [phase EXCEPT ![t] = "fired"]
  /\ UNCHANGED <<submits, owner, timers, wg, stopped, stopPC>>

(* The debounce window ends: the runtime starts the callback's goroutine.  *)
Expire(t) ==
  /\ phase[t] = "armed"
  /\ phase' = [phase EXCEPT ![t] = "fired"]
  /\ UNCHANGED <<submits, owner, timers, wg, stopped, stopPC>>

(* Mutant of CallbackReturns: wg.Done is deferred before the stopped check.*)
CallbackReturnsDone(t) ==
  /\ phase[t] = "fired"
  /\ stopped
  /\ phase' = [phase EXCEPT ![t] = "dropped"]
  /\ wg' = wg - 1
  /\ UNCHANGED <<submits, owner, timers, stopped, stopPC>>

(* The callback's locked section on a stopped debouncer.                   *)
CallbackReturns(t) ==
  /\ phase[t] = "fired"
  /\ stopped
  /\ phase' = [phase EXCEPT ![t] = "dropped"]
  /\ UNCHANGED <<submits, owner, timers, wg, stopped, stopPC>>

(* Mutants of CallbackPublishes: the stopped flag is not read; the entry is*)
(* not removed.                                                            *)
CallbackIgnoresStop(t) ==
  /\ phase[t] = "fired"
  /\ timers' = [timers EXCEPT ![owner[t]] = NoTimer]
  /\ wg' = wg + 1
  /\ phase' = [phase EXCEPT ![t] = "publishing"]
  /\ UNCHANGED <<submits, owner, stopped, stopPC>>

CallbackKeepsEntry(t) ==
  /\ phase[t] = "fired"
  /\ ~stopped
  /\ wg' = wg + 1
  /\ phase' = [phase EXCEPT ![t] = "publishing"]
  /\ UNCHANGED <<submits, owner, timers, stopped, stopPC>>

(* The callback's locked section on a running one.  It removes the entry   *)
(* of its instance whichever timer the entry is for.                       *)
CallbackPublishes(t) ==
  /\ phase[t] = "fired"
  /\ ~stopped
  /\ timers' = [timers EXCEPT ![owner[t]] = NoTimer]
  /\ wg' = wg + 1
  /\ phase' = [phase EXCEPT ![t] = "publishing"]
  /\ UNCHANGED <<submits, owner, stopped, stopPC>>

(* Mutant of PublishReturns: wg.Done is forgotten.                         *)
PublishNotDone(t) ==
  /\ phase[t] = "publishing"
  /\ phase' = [phase EXCEPT ![t] = "published"]
  /\ UNCHANGED <<submits, owner, timers, wg, stopped, stopPC>>

(* publishFn returns and the deferred wg.Done runs.                        *)
PublishReturns(t) ==
  /\ phase[t] = "publishing"
  /\ phase' = [phase EXCEPT ![t] = "published"]
  /\ wg' = wg - 1
  /\ UNCHANGED <<submits, owner, timers, stopped, stopPC>>

(* Stop's locked section: it halts the timers the map still holds.         *)
StopLocked ==
  /\ stopPC = "running"
  /\ stopPC' = "waiting"
  /\ stopped' = TRUE
  /\ phase' = Halted({timers[i] : i \in Instances})
  /\ timers' = [i \in Instances |-> NoTimer]
  /\ UNCHANGED <<submits, owner, wg>>

(* wg.Wait sees the counter at zero and Stop returns.                      *)
StopReturns ==
  /\ stopPC = "waiting"
  /\ wg = 0
  /\ stopPC' = "returned"
  /\ UNCHANGED <<submits, owner, phase, timers, wg, stopped>>

Callback(t) == CallbackReturns(t) \/ CallbackPublishes(t)

Next ==
  \/ \E i \in Instances : Submit(i)
  \/ \E t \in Timer : Expire(t) \/ Callback(t) \/ PublishReturns(t)
  \/ StopLocked
  \/ StopReturns

(***************************************************************************)
(* The runtime fires every armed timer and runs every goroutine; publishFn *)
(* returns (publishWithRetry makes at most five attempts).  Nothing says   *)
(* that anyone calls Submit or Stop.                                       *)
(***************************************************************************)
Fairness ==
  /\ \A t \in Timer : WF_vars(Expire(t)) /\ WF_vars(Callback(t))
                                         /\ WF_vars(PublishReturns(t))
  /\ WF_vars(StopReturns)

Spec == Init /\ [][Next]_vars
FairSpec == Spec /\ Fairness

-----------------------------------------------------------------------------
TypeOK ==
  /\ submits \in 0 .. MaxSubmits
  /\ owner \in [Timer -> Instances \cup {NoOwner}]
  /\ phase \in [Timer -> Phases]
  /\ timers \in [Instances -> Timer \cup {NoTimer}]
  /\ wg \in Nat
  /\ stopped \in BOOLEAN
  /\ stopPC \in {"running", "waiting", "returned"}

Publishing == {t \in Timer : phase[t] = "publishing"}

(* The timers in use are the numbered ones.                                *)
Numbered ==
  \A t \in Timer :
    IF t <= submits THEN owner[t] \in Instances /\ phase[t] # "unused"
                    ELSE owner[t] = NoOwner /\ phase[t] = "unused"

(* The wait group counts the callbacks that are publishing.                *)
WgCountsPublishing == wg = Cardinality(Publishing)

(* Stop's progress and the flag agree, it emptied the map for good, and it *)
(* returned with the count at 0.                                           *)
StopStages ==
  /\ stopped <=> stopPC # "running"
  /\ stopped => \A i \in Instances : timers[i] = NoTimer
  /\ stopPC = "returned" => wg = 0

(* A later event of the same instance has been submitted.                  *)
Superseded(t) == \E u \in Timer : u > t /\ owner[u] = owner[t]

(* Once Stop has returned no callback is publishing, nor will be: what     *)
(* main's shutdown and the deferred debouncer.Stop of Monitor.Start rely   *)
(* on, although Stop does not halt the timers the map has lost.            *)
QuietAfterStop == stopPC = "returned" => Publishing = {}

(* The map never keeps the timer of an older event, of another instance,   *)
(* or one whose callback has run, although callbacks delete the entry by   *)
(* key without looking at whose it is.                                     *)
TrackedIsNewest ==
  \A i \in Instances :
    timers[i] # NoTimer =>
      /\ owner[timers[i]] = i
      /\ phase[timers[i]] \in {"armed", "fired"}
      /\ \A u \in Timer : owner[u] = i => u <= timers[i]

(* Coalescing loses no final status: an event ends unpublished only because*)
(* a later event of its instance exists or the debouncer was stopped.      *)
LastEventKept ==
  \A t \in Timer :
    phase[t] \in {"halted", "dropped"} => Superseded(t) \/ stopped

(* The conjunction that the steps preserve, for the proofs.                *)
IInv == /\ TypeOK
        /\ Numbered
        /\ WgCountsPublishing
        /\ StopStages
        /\ TrackedIsNewest
        /\ LastEventKept

(* Every event is published in the end, unless a later one of its instance *)
(* arrives or the debouncer stops.                                         *)
EventuallyPublished ==
  \A t \in Timer :
    phase[t] = "armed" ~> phase[t] = "published" \/ Superseded(t) \/ stopped

(* Stop always returns once it has taken the lock: every Add is matched    *)
(* by a Done, so the wait group gets to zero.                              *)
StopTerminates == stopped ~> stopPC = "returned"

(* "If another event arrives within the debounce window, the previous      *)
(* event is replaced" (debouncer.go:28-29): an instance never has two      *)
(* events whose windows are both open.                                     *)
ReplacedInWindow ==
  \A t, u \in Timer :
    phase[t] = "armed" /\ phase[u] = "armed" /\ owner[t] = owner[u] => t = u
=============================================================================
