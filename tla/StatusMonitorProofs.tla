------------------------- MODULE StatusMonitorProofs -------------------------
(***************************************************************************)
(* Proofs about the status monitor of module StatusMonitor, for any        *)
(* instances, Pods and bounds: its shutdown is quiet and it does no more   *)
(* to the rest of the process than module Watcher says; its state has its  *)
(* types; what was published last is the truth once nothing is on its way, *)
(* readers see the same, and a resync repairs what was dropped or          *)
(* overtaken. What the debouncer keeps is not proved again: its lemmas are *)
(* taken from DebouncerProofs.                                             *)
(***************************************************************************)
EXTENDS StatusMonitor, FiniteSetTheorems, TLAPS

DP == INSTANCE DebouncerProofs

-----------------------------------------------------------------------------
(* D, the debouncer the monitor contains, and DP, the one its proofs are   *)
(* about, are two instances of one module on the same variables.           *)
LEMMA SameInvariant == D!IInv <=> DP!IInv
<1>1. D!Timer = DP!Timer
  BY DEF D!Timer, DP!Timer
<1>2. D!TypeOK <=> DP!TypeOK
  BY <1>1 DEF D!TypeOK, DP!TypeOK, D!NoOwner, DP!NoOwner, D!NoTimer, DP!NoTimer,
     D!Phases, DP!Phases
<1>3. D!Numbered <=> DP!Numbered
  BY <1>1 DEF D!Numbered, DP!Numbered, D!NoOwner, DP!NoOwner
<1>4. D!WgCountsPublishing <=> DP!WgCountsPublishing
  BY <1>1 DEF D!WgCountsPublishing, DP!WgCountsPublishing, D!Publishing, DP!Publishing,
     D!Cardinality, DP!Cardinality, D!IsFiniteSet, DP!IsFiniteSet
<1>5. D!StopStages <=> DP!StopStages
  BY DEF D!StopStages, DP!StopStages, D!NoTimer, DP!NoTimer
<1>6. D!TrackedIsNewest <=> DP!TrackedIsNewest
  BY <1>1 DEF D!TrackedIsNewest, DP!TrackedIsNewest, D!NoTimer, DP!NoTimer
<1>7. D!LastEventKept <=> DP!LastEventKept
  BY <1>1 DEF D!LastEventKept, DP!LastEventKept, D!Superseded, DP!Superseded
<1> QED BY <1>2, <1>3, <1>4, <1>5, <1>6, <1>7 DEF D!IInv, DP!IInv

(* They start alike, ...                                                   *)
LEMMA SameInit == D!Init => DP!Init
BY DEF D!Init, DP!Init, D!Timer, DP!Timer, D!NoOwner, DP!NoOwner, D!NoTimer, DP!NoTimer

(* ... step alike, ...                                                     *)
LEMMA SameStep == [D!Next]_debouncer => [DP!Next]_(DP!vars)
<1>1. D!Timer = DP!Timer
  BY DEF D!Timer, DP!Timer
<1>2. ASSUME NEW ts PROVE D!Halted(ts) = DP!Halted(ts)
  BY <1>1 DEF D!Halted, DP!Halted
<1>3. ASSUME NEW i \in Instances, D!Submit(i) PROVE DP!Submit(i)
  BY <1>2, <1>3 DEF D!Submit, DP!Submit
<1>4. ASSUME NEW t \in D!Timer, D!Expire(t) PROVE DP!Expire(t)
  BY <1>4 DEF D!Expire, DP!Expire
<1>5. ASSUME NEW t \in D!Timer, D!Callback(t) PROVE DP!Callback(t)
  BY <1>5 DEF D!Callback, DP!Callback, D!CallbackReturns, DP!CallbackReturns,
     D!CallbackPublishes, DP!CallbackPublishes, D!NoTimer, DP!NoTimer
<1>6. ASSUME NEW t \in D!Timer, D!PublishReturns(t) PROVE DP!PublishReturns(t)
  BY <1>6 DEF D!PublishReturns, DP!PublishReturns
<1>7. D!StopLocked => DP!StopLocked
  BY <1>2 DEF D!StopLocked, DP!StopLocked, D!NoTimer, DP!NoTimer
<1>8. D!StopReturns => DP!StopReturns
  BY DEF D!StopReturns, DP!StopReturns
<1> QED BY <1>1, <1>3, <1>4, <1>5, <1>6, <1>7, <1>8 DEF D!Next, DP!Next, debouncer, DP!vars

(* ... and the monitor's assumption contains the debouncer's.              *)
LEMMA DebouncerAssumed == DP!DebouncerAssumption
BY MonitorAssumption DEF DP!DebouncerAssumption, DP!NoOwner

(* The debouncer's invariant holds at first, ...                           *)
LEMMA DebouncerStart == D!Init => D!IInv
BY SameInit, SameInvariant, DP!InitIInv, DebouncerAssumed DEF DP!DebouncerAssumption

(* ... is kept by its steps, ...                                           *)
LEMMA DebouncerStep == D!IInv /\ [D!Next]_debouncer => D!IInv'
<1>1. DP!IInv /\ [DP!Next]_(DP!vars) => DP!IInv'
  BY DP!TypeStep, DP!NumberedStep, DP!WgStep, DP!StagesStep, DP!TrackedStep, DP!KeptStep,
     DebouncerAssumed DEF DP!IInv, DP!DebouncerAssumption
<1>2. D!IInv' <=> DP!IInv'
  BY SameInvariant, PTL
<1> QED BY <1>1, <1>2, SameInvariant, SameStep

(* ... and has no callback publish after Stop has returned.                *)
LEMMA DebouncerQuiet == D!IInv => D!QuietAfterStop
<1> SUFFICES ASSUME D!IInv, stopPC = "returned" PROVE D!Publishing = {}
  BY DEF D!QuietAfterStop
<1>1. D!Cardinality(D!Publishing) = 0
  BY DEF D!IInv, D!StopStages, D!WgCountsPublishing
<1>2. D!Cardinality(D!Publishing) = Cardinality(D!Publishing)
  BY DEF D!Cardinality, D!IsFiniteSet, Cardinality, IsFiniteSet
<1>3. IsFiniteSet(D!Publishing)
  <2>1. IsFiniteSet(D!Timer)
    BY FS_Interval, MonitorAssumption DEF D!Timer
  <2>2. D!Publishing \in SUBSET D!Timer
    BY DEF D!Publishing
  <2> QED BY <2>1, <2>2, FS_Subset
<1> QED BY <1>1, <1>2, <1>3, FS_EmptySet

-----------------------------------------------------------------------------
(* In a life of the provider, only the debouncer's steps, the cancellation *)
(* and Start's return touch what Watcher shows, and nothing stops the      *)
(* debouncer before the cancellation.                                      *)
LEMMA MonitorMoves ==
  [Next]_vars =>
    \/ UNCHANGED <<debouncer, ctxDone, shut>>
    \/ D!Next /\ UNCHANGED <<ctxDone, shut>> /\ (D!StopLocked => ctxDone)
    \/ Cancel \/ Shutdown \/ Restart
<1> SUFFICES ASSUME [Next]_vars
             PROVE  \/ UNCHANGED <<debouncer, ctxDone, shut>>
                    \/ D!Next /\ UNCHANGED <<ctxDone, shut>> /\ (D!StopLocked => ctxDone)
                    \/ Cancel \/ Shutdown \/ Restart
  OBVIOUS
<1>1. CASE UNCHANGED vars
  BY <1>1 DEF vars
<1>2. ASSUME NEW o \in Objects, NEW state \in StatesOf(o), ClusterChanges(o, state)
      PROVE  UNCHANGED <<debouncer, ctxDone, shut>>
  BY <1>2 DEF ClusterChanges
<1>3. ASSUME NEW inf \in Informers,
             Disconnect(inf) \/ Resync(inf) \/ Informer(inf) \/ HandlerReads(inf)
      PROVE  UNCHANGED <<debouncer, ctxDone, shut>>
  BY <1>3 DEF Disconnect, Resync, Informer, Deliver, List, HandlerReads
<1>4. ASSUME D!StopLocked PROVE stopPC' # stopPC
  BY <1>4 DEF D!StopLocked
<1>5. ASSUME NEW i \in Instances, D!Submit(i) PROVE D!Next /\ ~D!StopLocked
  BY <1>4, <1>5 DEF D!Submit, D!Next
<1>6. ASSUME NEW t \in D!Timer, D!Expire(t) \/ D!Callback(t) \/ D!PublishReturns(t)
      PROVE  D!Next /\ ~D!StopLocked
  BY <1>4, <1>6 DEF D!Expire, D!Callback, D!CallbackReturns, D!CallbackPublishes,
     D!PublishReturns, D!Next
<1>7. ASSUME NEW inf \in Informers, HandlerSubmits(inf)
      PROVE  \/ UNCHANGED <<debouncer, ctxDone, shut>>
             \/ D!Next /\ UNCHANGED <<ctxDone, shut>> /\ ~D!StopLocked
  BY <1>5, <1>7 DEF HandlerSubmits
<1>8. ASSUME NEW t \in D!Timer, TimerExpires(t) \/ CallbackRuns(t) \/ Publish(t)
      PROVE  \/ UNCHANGED <<debouncer, ctxDone, shut>>
             \/ D!Next /\ UNCHANGED <<ctxDone, shut>> /\ ~D!StopLocked
  <2>1. CASE TimerExpires(t) \/ CallbackRuns(t)
    BY <1>6, <2>1 DEF TimerExpires, CallbackRuns, NotOurs
  <2>2. CASE Publish(t)
    <3>1. \/ UNCHANGED debouncer
          \/ D!PublishReturns(t)
      BY <2>2 DEF Publish, PublishSucceeds, PublishFails, PublishAborts, PublishEnds
    <3>2. UNCHANGED <<ctxDone, shut>>
      BY <2>2 DEF Publish, PublishSucceeds, PublishFails, PublishAborts, NotOurs
    <3> QED BY <1>6, <3>1, <3>2
  <2> QED BY <1>8, <2>1, <2>2
<1>9. CASE StopDebouncer
  BY <1>9 DEF StopDebouncer, NotOurs, D!Next
<1> QED BY <1>1, <1>2, <1>3, <1>7, <1>8, <1>9 DEF Next, System, Handler, Stop

(* What the steps of shutdown have in common: they come in order.          *)
ShutdownInOrder ==
  /\ stopped => ctxDone
  /\ shut => stopPC = "returned"
  /\ shut => \A inf \in Informers : submitting[inf] = <<>>

(* The inductive invariant of the monitor.                                 *)
MInv == D!IInv /\ ShutdownInOrder

(* It holds at first ...                                                   *)
LEMMA MonitorStart == Init => MInv
BY DebouncerStart DEF Init, D!Init, MInv, ShutdownInOrder

(* ... and every step keeps it: the order of shutdown, action by action,   *)
LEMMA OrderStep == MInv /\ [Next]_vars => ShutdownInOrder'
<1> SUFFICES ASSUME MInv, [Next]_vars PROVE ShutdownInOrder'
  OBVIOUS
<1> USE DEF MInv, ShutdownInOrder
<1>1. CASE UNCHANGED vars
  BY <1>1 DEF vars, debouncer
<1>2. ASSUME NEW o \in Objects, NEW state \in StatesOf(o), ClusterChanges(o, state)
      PROVE  ShutdownInOrder'
  BY <1>2 DEF ClusterChanges, debouncer
<1>3. ASSUME NEW inf \in Informers, Disconnect(inf) \/ Resync(inf) \/ Informer(inf)
      PROVE  ShutdownInOrder'
  BY <1>3 DEF Disconnect, Resync, Informer, Deliver, List, debouncer
<1>4. ASSUME NEW inf \in Informers, HandlerReads(inf) PROVE ShutdownInOrder'
  BY <1>4 DEF HandlerReads, debouncer
<1>5. ASSUME NEW inf \in Informers, HandlerSubmits(inf) PROVE ShutdownInOrder'
  <2>1. ~shut /\ UNCHANGED <<shut, ctxDone>>
    BY <1>5 DEF HandlerSubmits
  <2>2. UNCHANGED <<stopped, stopPC>>
    BY <1>5 DEF HandlerSubmits, D!Submit, debouncer
  <2> QED BY <2>1, <2>2
<1>6. ASSUME NEW t \in D!Timer, TimerExpires(t) \/ CallbackRuns(t) PROVE ShutdownInOrder'
  BY <1>6 DEF TimerExpires, CallbackRuns, NotOurs, D!Expire, D!Callback, D!CallbackReturns,
     D!CallbackPublishes
<1>7. ASSUME NEW t \in D!Timer, Publish(t) PROVE ShutdownInOrder'
  BY <1>7 DEF Publish, PublishSucceeds, PublishFails, PublishAborts, PublishEnds, NotOurs,
     D!PublishReturns, debouncer
<1>8. CASE StopDebouncer
  BY <1>8 DEF StopDebouncer, NotOurs, D!StopLocked, D!StopReturns
<1>9. CASE Shutdown
  BY <1>9 DEF Shutdown, debouncer
<1>10. CASE Cancel
  BY <1>10 DEF Cancel, debouncer
<1>11. CASE Restart
  BY <1>11 DEF Restart
<1> QED BY <1>1, <1>2, <1>3, <1>4, <1>5, <1>6, <1>7, <1>8, <1>9, <1>10, <1>11
  DEF Next, System, Handler, Stop

(* and the debouncer's part, through what drives it.                       *)
LEMMA MonitorStep == MInv /\ [Next]_vars => MInv'
<1>1. Restart => D!Init'
  BY DEF Restart, D!Init
<1>2. D!Init' => D!IInv'
  BY DebouncerStart, PTL
<1>3. [Next]_vars => [D!Next]_debouncer \/ Restart
  BY MonitorMoves DEF Cancel, Shutdown
<1> QED BY <1>1, <1>2, <1>3, DebouncerStep, OrderStep DEF MInv

(* Once Start has returned nothing of the monitor publishes, retries or    *)
(* submits, whatever the informers, the number of instances and the bounds *)
(* are, and however often the provider crashes.                            *)
THEOREM ShutdownIsQuiet == Spec => []QuietAfterShutdown
<1>1. MInv => QuietAfterShutdown
  BY DebouncerQuiet DEF MInv, ShutdownInOrder, QuietAfterShutdown, D!QuietAfterStop
<1> QED BY <1>1, MonitorStart, MonitorStep, PTL DEF Spec

-----------------------------------------------------------------------------
(* The refinement of module Watcher, for one life of the provider.         *)

(* What a step of the debouncer does to the publications under way.        *)
LEMMA PublishingChanges ==
  ASSUME D!IInv, D!Next
  PROVE  \/ UnderWay' = UnderWay /\ UNCHANGED stopped
         \/ UnderWay' = TRUE /\ ~stopped /\ ~stopped'
         \/ UnderWay = TRUE /\ UnderWay' = FALSE /\ UNCHANGED stopped
         \/ D!StopLocked /\ UnderWay' = UnderWay
<1> USE DEF UnderWay, D!Publishing, D!IInv, D!TypeOK
<1>1. ASSUME NEW i \in Instances, D!Submit(i)
      PROVE  D!Publishing' = D!Publishing /\ UNCHANGED stopped
  <2>1. submits + 1 \in D!Timer /\ phase[submits + 1] = "unused"
    BY <1>1, MonitorAssumption DEF D!Submit, D!Numbered, D!Timer
  <2> QED BY <1>1, <2>1 DEF D!Submit, D!Halted
<1>2. ASSUME NEW t \in D!Timer, D!Expire(t) \/ D!CallbackReturns(t)
      PROVE  D!Publishing' = D!Publishing /\ UNCHANGED stopped
  BY <1>2 DEF D!Expire, D!CallbackReturns
<1>3. ASSUME NEW t \in D!Timer, D!CallbackPublishes(t)
      PROVE  UnderWay' = TRUE /\ ~stopped /\ ~stopped'
  BY <1>3 DEF D!CallbackPublishes
<1>4. ASSUME NEW t \in D!Timer, D!PublishReturns(t)
      PROVE  UnderWay = TRUE /\ UnderWay' \in BOOLEAN /\ UNCHANGED stopped
  BY <1>4 DEF D!PublishReturns
<1>5. CASE D!StopLocked
  BY <1>5 DEF D!StopLocked, D!Halted
<1>6. CASE D!StopReturns
  BY <1>6 DEF D!StopReturns
<1> QED BY <1>1, <1>2, <1>3, <1>4, <1>5, <1>6 DEF D!Next, D!Callback

(* In one life of the provider no step is a restart.                       *)
OneLife == "restarts" \in DOMAIN budget /\ budget["restarts"] = 0

(* Without crashes it stays so.                                            *)
LEMMA OneLifeStep ==
  ASSUME MaxRestarts = 0, OneLife, [Next]_vars
  PROVE  OneLife' /\ ~Restart
<1> USE DEF OneLife
<1>1. ~Restart
  BY DEF Restart, Spend
<1> SUFFICES OneLife'
  BY <1>1
<1>2. ASSUME NEW what, NEW max, Spend(what, max), what # "restarts" PROVE OneLife'
  BY <1>2 DEF Spend
<1>3. CASE UNCHANGED vars
  BY <1>3 DEF vars
<1>4. ASSUME NEW o \in Objects, NEW state \in StatesOf(o), ClusterChanges(o, state) PROVE OneLife'
  BY <1>2, <1>4 DEF ClusterChanges
<1>5. ASSUME NEW inf \in Informers, Disconnect(inf) \/ Resync(inf) PROVE OneLife'
  BY <1>2, <1>5 DEF Disconnect, Resync, Informers
<1>6. ASSUME NEW t \in D!Timer, PublishFails(t) PROVE OneLife'
  BY <1>2, <1>6 DEF PublishFails
<1>7. CASE UNCHANGED budget
  BY <1>7
<1>8. CASE Cancel \/ Stop
  BY <1>8, <1>7 DEF Cancel, Stop, StopDebouncer, Shutdown
<1>9. ASSUME NEW inf \in Informers, Informer(inf) \/ Handler(inf) PROVE OneLife'
  BY <1>9, <1>7 DEF Informer, Handler, Deliver, List, HandlerReads, HandlerSubmits
<1>10. ASSUME NEW t \in D!Timer,
              TimerExpires(t) \/ CallbackRuns(t) \/ PublishSucceeds(t) \/ PublishAborts(t)
       PROVE  OneLife'
  BY <1>10, <1>7 DEF TimerExpires, CallbackRuns, PublishSucceeds, PublishAborts
<1> QED BY <1>1, <1>3, <1>4, <1>5, <1>6, <1>8, <1>9, <1>10 DEF Next, System, Publish, Stop

(* Every step but a crash is one of Watcher or leaves it alone.            *)
LEMMA WatcherStep ==
  ASSUME MInv, [Next]_vars, ~Restart
  PROVE  [Watching!Next]_(Watching!watching)
<1> USE DEF Watching!Next, Watching!watching, Stage
<1>1. CASE UNCHANGED <<debouncer, ctxDone, shut>>
  BY <1>1 DEF debouncer, UnderWay, D!Publishing
<1>2. CASE D!Next /\ UNCHANGED <<ctxDone, shut>> /\ (D!StopLocked => ctxDone)
  <2>1. ~stopped => ~shut
    BY DEF MInv, ShutdownInOrder, D!IInv, D!StopStages
  <2>2. UnderWay \in BOOLEAN /\ stopped \in BOOLEAN
    BY DEF UnderWay, MInv, D!IInv, D!TypeOK
  <2>3. CASE UnderWay' = UnderWay /\ UNCHANGED stopped
    BY <1>2, <2>3
  <2>4. CASE UnderWay' = TRUE /\ ~stopped /\ ~stopped'
    BY <1>2, <2>1, <2>2, <2>4 DEF Watching!PublishBegins
  <2>5. CASE UnderWay = TRUE /\ UnderWay' = FALSE /\ UNCHANGED stopped
    BY <1>2, <2>5 DEF Watching!PublishEnds
  <2>6. CASE D!StopLocked /\ UnderWay' = UnderWay
    <3>1. ~stopped /\ stopped' /\ ctxDone
      BY <1>2, <2>6 DEF D!StopLocked, MInv, D!IInv, D!StopStages
    <3> QED BY <1>2, <2>1, <2>6, <3>1 DEF Watching!MonitorStops
  <2> QED BY <1>2, <2>3, <2>4, <2>5, <2>6, PublishingChanges DEF MInv
<1>3. CASE Cancel
  BY <1>3 DEF Cancel, Watching!Cancel, debouncer, UnderWay, D!Publishing
<1>4. CASE Shutdown
  <2>1. ~shut /\ shut' /\ stopped /\ UNCHANGED <<ctxDone, phase>>
    BY <1>4 DEF Shutdown, debouncer, MInv, D!IInv, D!StopStages
  <2>2. ~UnderWay /\ UnderWay' = UnderWay
    BY <1>4, <2>1, DebouncerQuiet DEF Shutdown, MInv, D!QuietAfterStop, UnderWay, D!Publishing
  <2> QED BY <2>1, <2>2 DEF Watching!MonitorReturns
<1> QED BY <1>1, <1>2, <1>3, <1>4, MonitorMoves

(* In one life of the provider the monitor, with its informers, handlers,  *)
(* timers and retries, does to the rest of the process only what module    *)
(* Watcher says.                                                           *)
THEOREM WatcherImplemented ==
  ASSUME MaxRestarts = 0 PROVE Spec => ImplementsWatcher
<1>1. Init => OneLife /\ Watching!Init
  BY DEF Init, OneLife, Watching!Init, Stage, UnderWay, D!Publishing, D!Init
<1>2. MInv /\ OneLife /\ [Next]_vars => MInv' /\ OneLife' /\ [Watching!Next]_(Watching!watching)
  BY MonitorStep, OneLifeStep, WatcherStep
<1> QED BY <1>1, <1>2, MonitorStart, PTL DEF Spec, ImplementsWatcher, Watching!Spec

-----------------------------------------------------------------------------
(* Sequences of pairs: what a queue says last of an object.                *)

(* A queue of pairs mentions an object ...                                 *)
Mentions(seq, o) == \E k \in 1 .. Len(seq) : seq[k][1] = o

(* ... and the last thing it says of it, if it says anything, is x.        *)
Latest(seq, o, x) ==
  \A k \in 1 .. Len(seq) :
    seq[k][1] = o /\ (\A j \in k + 1 .. Len(seq) : seq[j][1] # o) => seq[k][2] = x

(* One more pair mentions one more object.                                 *)
LEMMA MentionsAppend ==
  ASSUME NEW T, NEW s \in Seq(T), NEW c, NEW o
  PROVE  Mentions(Append(s, c), o) <=> Mentions(s, o) \/ c[1] = o
<1>1. /\ Len(Append(s, c)) = Len(s) + 1 /\ Append(s, c)[Len(s) + 1] = c
      /\ \A k \in 1 .. Len(s) : Append(s, c)[k] = s[k]
  OBVIOUS
<1> QED BY <1>1 DEF Mentions

(* The last pair of a queue has the last word.                             *)
LEMMA LatestAppend ==
  ASSUME NEW T, NEW s \in Seq(T), NEW c, NEW o, NEW x,
         IF c[1] = o THEN c[2] = x ELSE Latest(s, o, x)
  PROVE  Latest(Append(s, c), o, x)
<1>1. /\ Len(Append(s, c)) = Len(s) + 1 /\ Append(s, c)[Len(s) + 1] = c
      /\ \A k \in 1 .. Len(s) : Append(s, c)[k] = s[k]
  OBVIOUS
<1>2. Len(s) \in Nat
  OBVIOUS
<1> QED BY <1>1, <1>2 DEF Latest

(* What is mentioned in two queues, one after the other, is mentioned in   *)
(* either.                                                                 *)
LEMMA MentionsConcat ==
  ASSUME NEW T, NEW s \in Seq(T), NEW u \in Seq(T), NEW o
  PROVE  Mentions(s \o u, o) <=> Mentions(s, o) \/ Mentions(u, o)
<1>1. /\ Len(s \o u) = Len(s) + Len(u)
      /\ \A k \in 1 .. Len(s) : (s \o u)[k] = s[k]
      /\ \A k \in 1 .. Len(u) : (s \o u)[Len(s) + k] = u[k]
      /\ Len(s) \in Nat /\ Len(u) \in Nat
  OBVIOUS
<1>2. \A k \in 1 .. Len(s \o u) : k \in 1 .. Len(s) \/ k - Len(s) \in 1 .. Len(u)
  BY <1>1
<1>3. \A k \in 1 .. Len(s \o u) : k = Len(s) + (k - Len(s))
  BY <1>1
<1>4. ASSUME Mentions(u, o) PROVE Mentions(s \o u, o)
  <2>1. PICK k \in 1 .. Len(u) : u[k][1] = o
    BY <1>4 DEF Mentions
  <2>2. Len(s) + k \in 1 .. Len(s \o u)
    BY <1>1
  <2> QED BY <1>1, <2>1, <2>2 DEF Mentions
<1>5. ASSUME Mentions(s \o u, o) PROVE Mentions(s, o) \/ Mentions(u, o)
  <2>1. PICK k \in 1 .. Len(s \o u) : (s \o u)[k][1] = o
    BY <1>5 DEF Mentions
  <2>2. CASE k \in 1 .. Len(s)
    BY <1>1, <2>1, <2>2 DEF Mentions
  <2>3. CASE k - Len(s) \in 1 .. Len(u)
    <3>1. (s \o u)[k] = u[k - Len(s)]
      BY <1>1, <1>3, <2>3
    <3> QED BY <2>1, <2>3, <3>1 DEF Mentions
  <2> QED BY <1>2, <2>2, <2>3
<1> QED BY <1>1, <1>4, <1>5 DEF Mentions

(* The last word is the second queue's when it mentions the object at all. *)
LEMMA LatestConcat ==
  ASSUME NEW T, NEW s \in Seq(T), NEW u \in Seq(T), NEW o, NEW x,
         Latest(u, o, x), Mentions(u, o) \/ Latest(s, o, x)
  PROVE  Latest(s \o u, o, x)
<1>1. /\ Len(s \o u) = Len(s) + Len(u)
      /\ \A k \in 1 .. Len(s) : (s \o u)[k] = s[k]
      /\ \A k \in 1 .. Len(u) : (s \o u)[Len(s) + k] = u[k]
      /\ Len(s) \in Nat /\ Len(u) \in Nat
  OBVIOUS
<1> SUFFICES ASSUME NEW k \in 1 .. Len(s \o u), (s \o u)[k][1] = o,
                    \A j \in k + 1 .. Len(s \o u) : (s \o u)[j][1] # o
             PROVE  (s \o u)[k][2] = x
  BY DEF Latest
<1>2. CASE k \in 1 .. Len(s)
  <2>1. \A j \in 1 .. Len(u) : Len(s) + j \in k + 1 .. Len(s \o u)
    BY <1>1, <1>2
  <2>2. ~Mentions(u, o)
    BY <1>1, <2>1 DEF Mentions
  <2>3. \A j \in k + 1 .. Len(s) : j \in k + 1 .. Len(s \o u) /\ j \in 1 .. Len(s)
    BY <1>1, <1>2
  <2> QED BY <1>1, <1>2, <2>2, <2>3 DEF Latest
<1>3. CASE k - Len(s) \in 1 .. Len(u)
  <2> DEFINE m == k - Len(s)
  <2>1. k = Len(s) + m
    BY <1>1
  <2>2. (s \o u)[k] = u[m]
    BY <1>1, <1>3, <2>1
  <2>3. \A j \in m + 1 .. Len(u) : Len(s) + j \in k + 1 .. Len(s \o u) /\ j \in 1 .. Len(u)
    BY <1>1, <1>3, <2>1
  <2>4. \A j \in m + 1 .. Len(u) : u[j][1] # o
    BY <1>1, <2>3
  <2> QED BY <1>3, <2>2, <2>4 DEF Latest
<1> QED BY <1>1, <1>2, <1>3

(* What is taken from the front of a queue may be all it said of an        *)
(* object.                                                                 *)
LEMMA MentionsTail ==
  ASSUME NEW T, NEW s \in Seq(T), s # <<>>, NEW o
  PROVE  Mentions(s, o) <=> Head(s)[1] = o \/ Mentions(Tail(s), o)
<1>1. /\ Len(Tail(s)) = Len(s) - 1 /\ Len(s) \in Nat \ {0} /\ Head(s) = s[1]
      /\ \A k \in 1 .. Len(s) - 1 : Tail(s)[k] = s[k + 1]
  OBVIOUS
<1>2. \A k \in 1 .. Len(s) : k = 1 \/ (k - 1 \in 1 .. Len(s) - 1 /\ s[k] = Tail(s)[k - 1])
  <2> TAKE k \in 1 .. Len(s)
  <2>1. k = 1 \/ (k - 1 \in 1 .. Len(s) - 1 /\ k = (k - 1) + 1)
    BY <1>1
  <2> QED BY <1>1, <2>1
<1>3. \A k \in 1 .. Len(s) - 1 : k + 1 \in 1 .. Len(s)
  BY <1>1
<1> QED BY <1>1, <1>2, <1>3 DEF Mentions

(* Taking the front of a queue leaves the last word, unless the front was  *)
(* the last word.                                                          *)
LEMMA LatestTail ==
  ASSUME NEW T, NEW s \in Seq(T), s # <<>>, NEW o, NEW x, Latest(s, o, x)
  PROVE  /\ Latest(Tail(s), o, x)
         /\ Head(s)[1] = o /\ ~Mentions(Tail(s), o) => Head(s)[2] = x
<1>1. /\ Len(Tail(s)) = Len(s) - 1 /\ Len(s) \in Nat \ {0} /\ Head(s) = s[1]
      /\ \A k \in 1 .. Len(s) - 1 : Tail(s)[k] = s[k + 1]
  OBVIOUS
<1>2. \A j \in 2 .. Len(s) : j - 1 \in 1 .. Len(s) - 1 /\ s[j] = Tail(s)[j - 1]
  <2> TAKE j \in 2 .. Len(s)
  <2>1. j - 1 \in 1 .. Len(s) - 1 /\ j = (j - 1) + 1
    BY <1>1
  <2> QED BY <1>1, <2>1
<1>3. Latest(Tail(s), o, x)
  <2> SUFFICES ASSUME NEW k \in 1 .. Len(s) - 1, Tail(s)[k][1] = o,
                      \A j \in k + 1 .. Len(s) - 1 : Tail(s)[j][1] # o
               PROVE  Tail(s)[k][2] = x
    BY <1>1 DEF Latest
  <2>1. k + 1 \in 1 .. Len(s) /\ Tail(s)[k] = s[k + 1]
    BY <1>1
  <2>2. \A j \in k + 2 .. Len(s) : j \in 2 .. Len(s) /\ j - 1 \in k + 1 .. Len(s) - 1
    BY <1>1
  <2>3. \A j \in (k + 1) + 1 .. Len(s) : s[j][1] # o
    BY <1>1, <1>2, <2>2
  <2> QED BY <2>1, <2>3 DEF Latest
<1>4. ASSUME Head(s)[1] = o, ~Mentions(Tail(s), o) PROVE Head(s)[2] = x
  <2>1. \A j \in 2 .. Len(s) : s[j][1] # o
    <3> TAKE j \in 2 .. Len(s)
    <3>1. Tail(s)[j - 1][1] # o
      BY <1>1, <1>2, <1>4 DEF Mentions
    <3> QED BY <1>2, <3>1
  <2>2. 1 \in 1 .. Len(s) /\ \A j \in 1 + 1 .. Len(s) : j \in 2 .. Len(s)
    BY <1>1
  <2>3. s[1][1] = o /\ \A j \in 1 + 1 .. Len(s) : s[j][1] # o
    BY <1>1, <1>4, <2>1, <2>2
  <2>4. s[1][2] = x
    BY <2>2, <2>3 DEF Latest
  <2> QED BY <1>1, <2>4
<1> QED BY <1>3, <1>4

(* SetToSeq lists a finite set: its elements, every one of them, and no    *)
(* others.                                                                 *)
LEMMA SetToSeqLists ==
  ASSUME NEW S, IsFiniteSet(S)
  PROVE  /\ SetToSeq(S) \in Seq(S)
         /\ \A k \in 1 .. Len(SetToSeq(S)) : SetToSeq(S)[k] \in S
         /\ \A x \in S : \E k \in 1 .. Len(SetToSeq(S)) : SetToSeq(S)[k] = x
<1> DEFINE n == Cardinality(S)
           f == SetToSeq(S)
<1>1. n \in Nat /\ ExistsBijection(1 .. n, S)
  BY FS_CardinalityType
<1>2. \E g \in [1 .. n -> S] : IsInjective(g)
  BY <1>1 DEF ExistsBijection, Bijection, Injection
<1>3. f \in [1 .. n -> S] /\ IsInjective(f)
  BY <1>2 DEF SetToSeq
<1>4. f \in Surjection(1 .. n, S)
  <2>1. f \in Injection(1 .. n, S)
    BY <1>3 DEF Injection
  <2>2. Cardinality(1 .. n) = n /\ IsFiniteSet(1 .. n)
    BY <1>1, FS_Interval
  <2> QED BY <2>1, <2>2, FS_Injection
<1>5. f \in Seq(S) /\ Len(f) = n
  BY <1>1, <1>3
<1>6. \A x \in S : \E k \in 1 .. n : f[k] = x
  BY <1>4 DEF Surjection
<1>7. \A k \in 1 .. n : f[k] \in S
  BY <1>3
<1> QED BY <1>5, <1>6, <1>7

-----------------------------------------------------------------------------
(* Types.                                                                  *)

(* The states of objects of both kinds.                                    *)
AllStates == DeploymentStates \cup PodStates

(* The changes an informer delivers: objects of its kind, in states of     *)
(* theirs.                                                                 *)
NoteOf(inf) == {n \in Watched(inf) \X AllStates : n[2] \in StatesOf(n[1])}

(* The cluster, and a cache of it: every object in a state of its kind.    *)
IsCluster(f) == f \in [Objects -> AllStates] /\ \A o \in Objects : f[o] \in StatesOf(o)

(* A queue of changes for each informer.                                   *)
AreQueues(q) ==
  /\ q = [inf \in Informers |-> q[inf]]
  /\ \A inf \in Informers : q[inf] \in Seq(NoteOf(inf))

(* The events a handler submits.                                           *)
Events == Instances \X (Statuses \ {NoStatus})

(* Every object is a Deployment or a Pod, and is watched by the informer   *)
(* of its kind.                                                            *)
LEMMA ObjectKinds ==
  /\ \A i \in Instances : /\ <<i, Deployment>> \in Objects
                          /\ StatesOf(<<i, Deployment>>) = DeploymentStates
                          /\ Watches(<<i, Deployment>>) = "deployments"
  /\ \A i \in Instances, p \in Pods : /\ <<i, p>> \in Objects /\ p # Deployment
                                      /\ StatesOf(<<i, p>>) = PodStates
                                      /\ Watches(<<i, p>>) = "pods"
  /\ \A o \in Objects : /\ o = <<o[1], o[2]>> /\ o[1] \in Instances
                        /\ o[2] \in Pods \cup {Deployment}
                        /\ Watches(o) \in Informers
  /\ \A inf \in Informers, o \in Objects : o \in Watched(inf) <=> Watches(o) = inf
BY MonitorAssumption DEF Objects, StatesOf, Watches, Watched, Informers, Deployment

(* An informer watches finitely many objects, so that a list ends.         *)
LEMMA WatchedFinite == \A inf \in Informers : IsFiniteSet(Watched(inf))
<1>1. IsFiniteSet(Pods \cup {Deployment})
  BY FS_AddElement, MonitorAssumption
<1>2. {Deployment} \cup Pods = Pods \cup {Deployment}
  OBVIOUS
<1>3. IsFiniteSet(Objects)
  BY <1>1, <1>2, FS_Product, MonitorAssumption DEF Objects
<1> QED BY <1>3, FS_Subset DEF Watched

(* Among any phases one is the most concerning (REQ-MON-050).              *)
LEMMA WorstPhase ==
  ASSUME NEW S, S # {}, S \subseteq {"Pending", "Running", "Failed", "Unknown", "Succeeded"}
  PROVE  \E g \in S : \A h \in S : Priority[g] >= Priority[h]
<1>1. /\ Priority["Failed"] = 4 /\ Priority["Unknown"] = 3 /\ Priority["Pending"] = 2
      /\ Priority["Running"] = 1 /\ Priority["Succeeded"] = 0
  BY DEF Priority
<1>2. CASE "Failed" \in S
  BY <1>1, <1>2
<1>3. CASE "Failed" \notin S /\ "Unknown" \in S
  BY <1>1, <1>3
<1>4. CASE "Failed" \notin S /\ "Unknown" \notin S /\ "Pending" \in S
  BY <1>1, <1>4
<1>5. CASE S \subseteq {"Running", "Succeeded"} /\ "Running" \in S
  BY <1>1, <1>5
<1>6. CASE S = {"Succeeded"}
  BY <1>1, <1>6
<1> QED BY <1>2, <1>3, <1>4, <1>5, <1>6

(* lookupPodByIndex returns the phase of a Pod of the instance, and none   *)
(* only when there is none.                                                *)
LEMMA PhaseFound ==
  ASSUME NEW f, IsCluster(f), NEW i \in Instances
  PROVE  /\ LookupPod(f, i) = Absent <=> \A p \in Pods : f[<<i, p>>] = Absent
         /\ LookupPod(f, i) # Absent => \E p \in Pods : LookupPod(f, i) = f[<<i, p>>]
         /\ LookupPod(f, i) \in PodStates
         /\ LookupDeployment(f, i) \in DeploymentStates
<1> DEFINE phases == {f[<<i, p>>] : p \in Pods} \ {Absent}
<1>1. \A p \in Pods : f[<<i, p>>] \in PodStates
  BY ObjectKinds DEF IsCluster
<1>2. phases \subseteq PodPhases
  BY <1>1 DEF PodStates
<1>3. phases \subseteq {"Pending", "Running", "Failed", "Unknown", "Succeeded"}
  BY <1>2, MonitorAssumption
<1>4. CASE phases = {}
  <2>1. LookupPod(f, i) = Absent
    BY <1>4 DEF LookupPod
  <2>2. \A p \in Pods : f[<<i, p>>] = Absent
    BY <1>4
  <2> QED BY <2>1, <2>2, ObjectKinds DEF LookupDeployment, IsCluster, PodStates
<1>5. CASE phases # {}
  <2>1. \E g \in phases : \A h \in phases : Priority[g] >= Priority[h]
    BY <1>3, <1>5, WorstPhase
  <2>2. LookupPod(f, i) \in phases
    BY <1>5, <2>1 DEF LookupPod
  <2>3. LookupPod(f, i) # Absent /\ \E p \in Pods : LookupPod(f, i) = f[<<i, p>>]
    BY <2>2
  <2>4. ~ \A p \in Pods : f[<<i, p>>] = Absent
    BY <1>5
  <2> QED BY <1>1, <2>3, <2>4, ObjectKinds DEF LookupDeployment, IsCluster
<1> QED BY <1>4, <1>5

(* ReconcileStatus is defined for every Deployment and every Pod: a        *)
(* status, or NoStatus.                                                    *)
LEMMA StatusType ==
  ASSUME NEW deploy \in DeploymentStates, NEW pod \in PodStates
  PROVE  ReconcileStatus(deploy, pod) \in Statuses
<1> USE MonitorAssumption DEF ReconcileStatus, StatusOfPhase, Statuses, NoStatus
<1>1. CASE pod # Absent
  <2>1. pod \in {"Pending", "Running", "Failed", "Unknown", "Succeeded"}
    BY <1>1 DEF PodStates
  <2> QED BY <1>1, <2>1 DEF Absent
<1>2. CASE pod = Absent /\ deploy = Absent
  BY <1>2
<1>3. CASE pod = Absent /\ deploy = "failing"
  BY <1>3 DEF Absent
<1>4. CASE pod = Absent /\ deploy = "healthy"
  BY <1>4 DEF Absent
<1> QED BY <1>1, <1>2, <1>3, <1>4 DEF DeploymentStates

(* So is what a handler computes, whatever it is notified of.              *)
LEMMA ReconciledType ==
  ASSUME IsCluster(cache), NEW inf \in Informers, NEW n \in NoteOf(inf)
  PROVE  n[1][1] \in Instances /\ Reconciled(n[1], n[2]) \in Statuses
<1> DEFINE o == n[1]
           i == o[1]
<1>1. o \in Objects /\ n[2] \in StatesOf(o)
  BY DEF NoteOf, Watched
<1>2. i \in Instances
  BY <1>1, ObjectKinds
<1>3. CASE o[2] = Deployment
  <2>1. n[2] \in DeploymentStates
    BY <1>1, <1>3 DEF StatesOf
  <2> QED BY <1>2, <1>3, <2>1, PhaseFound, StatusType DEF Reconciled
<1>4. CASE o[2] # Deployment
  <2>1. n[2] \in PodStates
    BY <1>1, <1>4 DEF StatesOf
  <2> QED BY <1>2, <1>4, <2>1, PhaseFound, StatusType DEF Reconciled
<1> QED BY <1>2, <1>3, <1>4

(* TypeOK does not say what the streams, or the events being submitted,    *)
(* hold; these conjuncts do, and together are inductive.                   *)
Typed ==
  /\ IsCluster(objs) /\ IsCluster(cache)
  /\ AreQueues(stream) /\ AreQueues(notes)
  /\ listed \subseteq Informers /\ resynced \subseteq Informers
  /\ submitting \in [Informers -> {<<>>} \cup Events]
  /\ event \in [D!Timer -> Statuses]
  /\ attempts \in [D!Timer -> 0 .. MaxAttempts]
  /\ published \in [Instances -> Statuses]
  /\ tracked \subseteq Instances /\ unreported \subseteq Instances
  /\ older \subseteq {inf \in Informers : submitting[inf] # <<>>}
  /\ overtaken \subseteq Instances

(* The monitor starts with them ...                                        *)
LEMMA TypedInit == Init => Typed
<1> SUFFICES ASSUME Init PROVE Typed
  OBVIOUS
<1>1. IsCluster(objs)
  <2>1. {Absent, "healthy"} \cup PodPhases \subseteq AllStates
    BY DEF AllStates, DeploymentStates, PodStates
  <2> QED BY <2>1 DEF Init, IsCluster
<1>2. IsCluster(cache)
  BY DEF Init, IsCluster, AllStates, DeploymentStates, PodStates, StatesOf
<1>3. AreQueues(stream) /\ AreQueues(notes)
  BY DEF Init, AreQueues, Empty
<1>4. listed \subseteq Informers /\ resynced \subseteq Informers
  BY DEF Init
<1>5. submitting \in [Informers -> {<<>>} \cup Events]
  BY DEF Init, Empty
<1>6. event \in [D!Timer -> Statuses] /\ attempts \in [D!Timer -> 0 .. MaxAttempts]
  BY MonitorAssumption DEF Init, Unfired, Statuses
<1>7. /\ published \in [Instances -> Statuses]
      /\ tracked \subseteq Instances /\ unreported \subseteq Instances
      /\ older \subseteq {inf \in Informers : submitting[inf] # <<>>}
      /\ overtaken \subseteq Instances
  BY DEF Init, Statuses
<1> QED BY <1>1, <1>2, <1>3, <1>4, <1>5, <1>6, <1>7 DEF Typed

(* A queue of an informer is replaced by another of its changes.           *)
LEMMA QueueOf ==
  ASSUME NEW q, AreQueues(q), NEW inf \in Informers
  PROVE  /\ q[inf] \in Seq(NoteOf(inf))
         /\ \A v : [q EXCEPT ![inf] = v][inf] = v
         /\ \A v, k \in Informers : k # inf => [q EXCEPT ![inf] = v][k] = q[k]
         /\ \A v \in Seq(NoteOf(inf)) : AreQueues([q EXCEPT ![inf] = v])
BY DEF AreQueues

(* There is one for each informer.                                         *)
LEMMA QueueDomain == ASSUME NEW q, AreQueues(q) PROVE DOMAIN q = Informers
BY DEF AreQueues

(* The notifications of a list or a resync.                                *)
NotesAbout(S, f) == SetToSeq({<<o, f[o]>> : o \in S})

(* They say of the objects of the set, and of no others, what the cluster  *)
(* or the cache does.                                                      *)
LEMMA NotesOfObjects ==
  ASSUME NEW inf \in Informers, NEW f, IsCluster(f), NEW S, S \subseteq Watched(inf)
  PROVE  /\ NotesAbout(S, f) \in Seq(NoteOf(inf))
         /\ \A k \in 1 .. Len(NotesAbout(S, f)) :
              /\ NotesAbout(S, f)[k][1] \in S
              /\ NotesAbout(S, f)[k][2] = f[NotesAbout(S, f)[k][1]]
         /\ \A o \in S : Mentions(NotesAbout(S, f), o)
         /\ \A o : Mentions(NotesAbout(S, f), o) => o \in S
<1> DEFINE N == {<<o, f[o]>> : o \in S}
           seq == SetToSeq(N)
<1>1. IsFiniteSet(S)
  BY WatchedFinite, FS_Subset
<1>2. IsFiniteSet(N)
  <2> DEFINE g == [o \in S |-> <<o, f[o]>>]
  <2>1. g \in Surjection(S, N)
    BY DEF Surjection
  <2> QED BY <1>1, <2>1, FS_Surjection
<1>3. /\ seq \in Seq(N) /\ \A k \in 1 .. Len(seq) : seq[k] \in N
      /\ \A n \in N : \E k \in 1 .. Len(seq) : seq[k] = n
  BY <1>2, SetToSeqLists
<1>4. N \subseteq NoteOf(inf)
  BY DEF NoteOf, IsCluster, Watched
<1>5. seq \in Seq(NoteOf(inf))
  BY <1>3, <1>4
<1>7. \A k \in 1 .. Len(seq) : seq[k][1] \in S /\ seq[k][2] = f[seq[k][1]]
  BY <1>3
<1>8. \A o \in S : Mentions(seq, o)
  <2> TAKE o \in S
  <2>1. PICK k \in 1 .. Len(seq) : seq[k] = <<o, f[o]>>
    BY <1>3
  <2> HIDE DEF seq
  <2> QED BY <2>1 DEF Mentions
<1>9. \A o : Mentions(seq, o) => o \in S
  BY <1>7 DEF Mentions
<1> HIDE DEF N, seq
<1> QED BY <1>5, <1>7, <1>8, <1>9 DEF N, seq, NotesAbout

-----------------------------------------------------------------------------
(* Every step keeps the types.                                             *)

(* ... a change of the cluster, ...                                        *)
LEMMA TypedChanges ==
  ASSUME Typed, NEW o \in Objects, NEW state \in StatesOf(o), ClusterChanges(o, state)
  PROVE  Typed'
<1>1. IsCluster(objs')
  BY DEF ClusterChanges, Typed, IsCluster, StatesOf, AllStates
<1>2. AreQueues(stream')
  <2>1. CASE Watches(o) \in listed
    <3>1. Watches(o) \in Informers /\ o \in Watched(Watches(o))
      BY ObjectKinds
    <3>2. <<o, state>> \in NoteOf(Watches(o))
      BY <3>1 DEF NoteOf, AllStates, StatesOf
    <3>3. Append(stream[Watches(o)], <<o, state>>) \in Seq(NoteOf(Watches(o)))
      BY <3>1, <3>2, QueueOf DEF Typed
    <3>4. stream' = [stream EXCEPT ![Watches(o)] = Append(stream[Watches(o)], <<o, state>>)]
      BY <2>1 DEF ClusterChanges
    <3> QED BY <3>1, <3>3, <3>4, QueueOf DEF Typed
  <2> QED BY <2>1 DEF ClusterChanges, Typed
<1> QED BY <1>1, <1>2 DEF ClusterChanges, Typed, race

(* ... its delivery, ...                                                   *)
LEMMA TypedDeliver ==
  ASSUME Typed, NEW inf \in Informers, Deliver(inf)
  PROVE  Typed'
<1> DEFINE change == Head(stream[inf])
<1>1. /\ stream[inf] \in Seq(NoteOf(inf)) /\ stream[inf] # <<>>
      /\ notes[inf] \in Seq(NoteOf(inf))
  BY QueueOf DEF Typed, Deliver
<1>2. change \in NoteOf(inf) /\ Tail(stream[inf]) \in Seq(NoteOf(inf))
  BY <1>1
<1>3. /\ change[1] \in Objects /\ change[2] \in StatesOf(change[1])
      /\ change[2] \in AllStates /\ change[1][1] \in Instances
  BY <1>2, ObjectKinds DEF NoteOf, Watched
<1>4. IsCluster(cache')
  BY <1>3 DEF Deliver, Typed, IsCluster
<1>5. AreQueues(stream')
  BY <1>2, QueueOf DEF Deliver, Typed
<1>6. AreQueues(notes')
  <2>1. Append(notes[inf], change) \in Seq(NoteOf(inf))
    BY <1>1, <1>2
  <2> QED BY <2>1, QueueOf DEF Deliver, Typed
<1>7. tracked' \subseteq Instances
  BY <1>3 DEF Deliver, Typed
<1> HIDE DEF change
<1> QED BY <1>4, <1>5, <1>6, <1>7 DEF Deliver, Typed, race

(* ... a list, which replaces the cache, ...                               *)
LEMMA TypedList ==
  ASSUME Typed, NEW inf \in Informers, List(inf)
  PROVE  Typed'
<1> DEFINE present == {o \in Watched(inf) : objs[o] # Absent}
           gone    == {o \in Watched(inf) : objs[o] = Absent /\ cache[o] # Absent}
           here    == NotesAbout(present, objs)
           left    == NotesAbout(gone, objs)
<1>1. notes' = [notes EXCEPT ![inf] = notes[inf] \o here \o left]
  BY DEF List, NotesAbout
<1>2. here \in Seq(NoteOf(inf)) /\ left \in Seq(NoteOf(inf))
  BY NotesOfObjects DEF Typed
<1>3. AreQueues(notes')
  <2>1. notes[inf] \in Seq(NoteOf(inf))
    BY QueueOf DEF Typed
  <2> HIDE DEF here, left
  <2>2. notes[inf] \o here \o left \in Seq(NoteOf(inf))
    BY <1>2, <2>1
  <2> QED BY <1>1, <2>2, QueueOf DEF Typed
<1>4. IsCluster(cache')
  BY DEF List, Typed, IsCluster
<1>5. tracked' \subseteq Instances
  BY ObjectKinds DEF List, Typed, Watched
<1>6. listed' \subseteq Informers
  BY DEF List, Typed
<1>7. UNCHANGED <<objs, stream, submitting, event, attempts, published, unreported, resynced,
                  older, overtaken>>
  BY DEF List, race
<1> HIDE DEF here, left, present, gone
<1> QED BY <1>3, <1>4, <1>5, <1>6, <1>7 DEF Typed

(* ... a broken watch, ...                                                 *)
LEMMA TypedDisconnect ==
  ASSUME Typed, NEW inf \in Informers, Disconnect(inf)
  PROVE  Typed'
<1>1. AreQueues(stream')
  <2>1. <<>> \in Seq(NoteOf(inf))
    OBVIOUS
  <2> QED BY <2>1, QueueOf DEF Disconnect, Typed
<1> QED BY <1>1 DEF Disconnect, Typed, race

(* ... a resync, ...                                                       *)
LEMMA TypedResync ==
  ASSUME Typed, NEW inf \in Informers, Resync(inf)
  PROVE  Typed'
<1> DEFINE cached == {o \in Watched(inf) : cache[o] # Absent}
           seq    == NotesAbout(cached, cache)
<1>1. notes' = [notes EXCEPT ![inf] = notes[inf] \o seq]
  BY DEF Resync, NotesAbout
<1>2. seq \in Seq(NoteOf(inf))
  BY NotesOfObjects DEF Typed
<1>3. AreQueues(notes')
  <2>1. notes[inf] \in Seq(NoteOf(inf))
    BY QueueOf DEF Typed
  <2> HIDE DEF seq
  <2>2. notes[inf] \o seq \in Seq(NoteOf(inf))
    BY <1>2, <2>1
  <2> QED BY <1>1, <2>2, QueueOf DEF Typed
<1>4. unreported' \subseteq Instances /\ resynced' \subseteq Informers
  BY DEF Resync, Typed
<1>5. UNCHANGED <<objs, stream, cache, listed, submitting, event, attempts, published, tracked,
                  older, overtaken>>
  BY DEF Resync, race
<1> HIDE DEF seq, cached
<1> QED BY <1>3, <1>4, <1>5 DEF Typed

(* A handler without a status to publish has nothing to submit.            *)
LEMMA HandlerTakes ==
  ASSUME submitting \in [Informers -> {<<>>} \cup Events], NEW inf \in Informers, HandlerReads(inf)
  PROVE  LET n == Head(notes[inf])
             w == Reconciled(n[1], n[2])
         IN  /\ submitting[inf] = <<>>
             /\ submitting' = [submitting EXCEPT ![inf] =
                                 IF w = NoStatus THEN <<>> ELSE <<n[1][1], w>>]
             /\ overtaken' = overtaken
             /\ older' = IF w = NoStatus \/ ctxDone THEN older ELSE older \cup Holders(n[1][1])
<1> DEFINE n == Head(notes[inf])
           w == Reconciled(n[1], n[2])
<1>1. /\ submitting[inf] = <<>>
      /\ IF w = NoStatus
           THEN UNCHANGED <<submitting, race>>
           ELSE /\ submitting' = [submitting EXCEPT ![inf] = <<n[1][1], w>>]
                /\ older' = IF ctxDone THEN older ELSE older \cup Holders(n[1][1])
                /\ UNCHANGED overtaken
  BY DEF HandlerReads
<1> HIDE DEF w, n
<1>2. submitting = [submitting EXCEPT ![inf] = <<>>]
  BY <1>1
<1>3. CASE w = NoStatus
  BY <1>1, <1>2, <1>3 DEF race, w, n
<1>4. CASE w # NoStatus
  BY <1>1, <1>4 DEF w, n
<1> QED BY <1>3, <1>4

(* ... what a handler computes, ...                                        *)
LEMMA TypedHandlerReads ==
  ASSUME Typed, NEW inf \in Informers, HandlerReads(inf)
  PROVE  Typed'
<1> DEFINE note   == Head(notes[inf])
           status == Reconciled(note[1], note[2])
<1>1. notes[inf] \in Seq(NoteOf(inf)) /\ notes[inf] # <<>>
  BY QueueOf DEF Typed, HandlerReads
<1>2. note \in NoteOf(inf) /\ Tail(notes[inf]) \in Seq(NoteOf(inf))
  BY <1>1
<1>3. AreQueues(notes')
  BY <1>2, QueueOf DEF HandlerReads, Typed
<1>4. note[1][1] \in Instances /\ status \in Statuses
  BY <1>2, ReconciledType DEF Typed
<1>5. submitting' = [submitting EXCEPT ![inf] =
                       IF status = NoStatus THEN <<>> ELSE <<note[1][1], status>>]
      /\ submitting[inf] = <<>> /\ overtaken' = overtaken
      /\ older' \in {older, older \cup Holders(note[1][1])}
  BY HandlerTakes DEF Typed
<1>6. submitting' \in [Informers -> {<<>>} \cup Events]
  <2> HIDE DEF status, note
  <2>1. (IF status = NoStatus THEN <<>> ELSE <<note[1][1], status>>) \in {<<>>} \cup Events
    BY <1>4 DEF Events
  <2> QED BY <1>5, <2>1 DEF Typed
<1>7. UNCHANGED <<objs, stream, cache, listed, event, attempts, published, unreported, tracked,
                  resynced>>
  BY DEF HandlerReads
<1>8. older' \subseteq {k \in Informers : submitting'[k] # <<>>} /\ overtaken' \subseteq Instances
  <2> HIDE DEF status, note
  <2>1. \A k \in Informers : submitting[k] # <<>> => submitting'[k] # <<>>
    BY <1>5 DEF Typed
  <2> QED BY <1>5, <2>1 DEF Typed, Holders
<1> HIDE DEF status, note
<1> QED BY <1>3, <1>6, <1>7, <1>8 DEF Typed

(* ... and submits, ...                                                    *)
LEMMA TypedHandlerSubmits ==
  ASSUME Typed, NEW inf \in Informers, HandlerSubmits(inf)
  PROVE  Typed'
<1>1. submitting' \in [Informers -> {<<>>} \cup Events]
  BY DEF HandlerSubmits, Typed
<1>2. submitting[inf] \in Events
  BY DEF HandlerSubmits, Typed
<1>3. submitting[inf][2] \in Statuses /\ NoStatus \in Statuses
  BY <1>2 DEF Events, Statuses
<1>4. event' \in [D!Timer -> Statuses]
  BY <1>3 DEF HandlerSubmits, Typed
<1>5. older' \subseteq {k \in Informers : submitting'[k] # <<>>} /\ overtaken' \subseteq Instances
  <2>1. \A k \in Informers \ {inf} : submitting'[k] = submitting[k]
    BY DEF HandlerSubmits, Typed
  <2>2. submitting[inf][1] \in Instances /\ older' = older \ {inf}
    BY <1>2 DEF Events, HandlerSubmits
  <2>3. overtaken' \in {overtaken, overtaken \cup {submitting[inf][1]},
                        overtaken \ {submitting[inf][1]}}
    BY DEF HandlerSubmits
  <2> QED BY <2>1, <2>2, <2>3 DEF Typed
<1> QED BY <1>1, <1>4, <1>5 DEF HandlerSubmits, Typed, informers

(* ... a timer, its callback and its retries (an attempt is counted only   *)
(* below maxAttempts), ...                                                 *)
LEMMA TypedTimers ==
  ASSUME MInv, Typed, NEW t \in D!Timer, TimerExpires(t) \/ CallbackRuns(t) \/ Publish(t)
  PROVE  Typed'
<1>1. CASE TimerExpires(t) \/ CallbackRuns(t)
  BY <1>1 DEF TimerExpires, CallbackRuns, NotOurs, race, informers, Typed
<1>2. ASSUME PublishEnds(t)
      PROVE  /\ event' \in [D!Timer -> Statuses] /\ attempts' \in [D!Timer -> 0 .. MaxAttempts]
             /\ owner[t] \in Instances
  <2>1. phase[t] = "publishing"
    BY <1>2 DEF PublishEnds, D!PublishReturns
  <2>2. owner[t] \in Instances
    BY <2>1 DEF MInv, D!IInv, D!Numbered
  <2>3. NoStatus \in Statuses /\ 0 \in 0 .. MaxAttempts
    BY MonitorAssumption DEF Statuses
  <2> QED BY <1>2, <2>2, <2>3 DEF PublishEnds, Typed
<1>3. CASE PublishSucceeds(t)
  BY <1>2, <1>3 DEF PublishSucceeds, NotOurs, race, informers, Typed
<1>4. CASE PublishFails(t)
  <2>1. CASE PublishEnds(t) /\ unreported' = unreported \cup {owner[t]}
    BY <1>2, <1>4, <2>1 DEF PublishFails, NotOurs, race, informers, Typed
  <2>2. CASE /\ attempts[t] + 1 < MaxAttempts
             /\ attempts' = [attempts EXCEPT ![t] = @ + 1]
             /\ UNCHANGED <<event, unreported>>
    <3>1. attempts[t] + 1 \in 0 .. MaxAttempts
      BY <2>2, MonitorAssumption DEF Typed
    <3> QED BY <1>4, <2>2, <3>1 DEF PublishFails, NotOurs, race, informers, Typed
  <2> QED BY <1>4, <2>1, <2>2 DEF PublishFails
<1>5. CASE PublishAborts(t)
  BY <1>2, <1>5 DEF PublishAborts, NotOurs, race, informers, Typed
<1> QED BY <1>1, <1>3, <1>4, <1>5 DEF Publish

(* ... and a crash of the provider keep them, ...                          *)
LEMMA TypedRestart == Typed /\ Restart => Typed'
<1> SUFFICES ASSUME Typed, Restart PROVE Typed'
  OBVIOUS
<1>1. IsCluster(cache')
  BY DEF Restart, IsCluster, AllStates, DeploymentStates, PodStates, StatesOf
<1>2. AreQueues(stream') /\ AreQueues(notes')
  BY DEF Restart, AreQueues, Empty
<1>3. /\ listed' \subseteq Informers /\ resynced' \subseteq Informers
      /\ submitting' \in [Informers -> {<<>>} \cup Events]
  BY DEF Restart, Empty
<1>4. event' \in [D!Timer -> Statuses] /\ attempts' \in [D!Timer -> 0 .. MaxAttempts]
  BY MonitorAssumption DEF Restart, Unfired, Statuses
<1>5. tracked' \subseteq Instances /\ unreported' \subseteq Instances
  BY DEF Restart
<1>6. older' = {} /\ overtaken' = {}
  BY DEF Restart
<1> QED BY <1>1, <1>2, <1>3, <1>4, <1>5, <1>6 DEF Restart, Typed

(* ... as does every other step.                                           *)
LEMMA TypedStep == MInv /\ Typed /\ [Next]_vars => Typed'
<1> SUFFICES ASSUME MInv, Typed, [Next]_vars PROVE Typed'
  OBVIOUS
<1>1. CASE UNCHANGED vars
  BY <1>1 DEF vars, race, informers, Typed
<1>2. CASE Cancel \/ Shutdown \/ StopDebouncer
  BY <1>2 DEF Cancel, Shutdown, StopDebouncer, NotOurs, race, informers, Typed
<1> QED BY <1>1, <1>2, TypedChanges, TypedDeliver, TypedList, TypedDisconnect, TypedResync,
           TypedHandlerReads, TypedHandlerSubmits, TypedTimers, TypedRestart
        DEF Next, System, Informer, Handler, Stop

(* They contain TypeOK, with what MInv says of the debouncer.              *)
LEMMA TypesFollow == MInv /\ Typed => TypeOK
<1> SUFFICES ASSUME MInv, Typed PROVE TypeOK
  OBVIOUS
<1>1. \A inf \in Informers : \A k \in 1 .. Len(notes[inf]) : notes[inf][k][1] \in Watched(inf)
  <2> TAKE inf \in Informers
  <2>1. notes[inf] \in Seq(NoteOf(inf))
    BY QueueOf DEF Typed
  <2>2. \A k \in 1 .. Len(notes[inf]) : notes[inf][k] \in NoteOf(inf)
    BY <2>1
  <2> QED BY <2>2 DEF NoteOf
<1>2. D!TypeOK
  BY DEF MInv, D!IInv
<1> QED BY <1>1, <1>2 DEF TypeOK, Typed, IsCluster

(* The monitor's state has its type in every reachable state: handlers are *)
(* notified only of objects their informer watches, only statuses are      *)
(* published, and no event is tried more than maxAttempts times.           *)
THEOREM TypesHold == Spec => []TypeOK
<1>1. MInv /\ Typed /\ [Next]_vars => MInv' /\ Typed'
  BY MonitorStep, TypedStep
<1> QED BY <1>1, MonitorStart, TypedInit, TypesFollow, PTL DEF Spec

-----------------------------------------------------------------------------
(* The informers tell the truth in the end.                                *)

(* The last change a watch has still to deliver of an object is the        *)
(* object's state, and the cache is right about an object the watch has    *)
(* nothing more to say of; no watch, no changes (List and Disconnect).     *)
StreamTrue ==
  \A inf \in Informers :
    IF inf \in listed
      THEN \A o \in Watched(inf) : /\ Latest(stream[inf], o, objs[o])
                                   /\ Mentions(stream[inf], o) \/ cache[o] = objs[o]
      ELSE stream[inf] = <<>>

(* The last notification of an object still to be handled is what the      *)
(* cache says of it.                                                       *)
NotesTrue ==
  \A inf \in Informers : \A o \in Watched(inf) : Latest(notes[inf], o, cache[o])

(* What is known of a cluster is late but never wrong.                     *)
InformersTrue == StreamTrue /\ NotesTrue

(* An empty queue says nothing of any object.                              *)
LEMMA EmptySays == \A o, x : Latest(<<>>, o, x) /\ ~Mentions(<<>>, o)
BY DEF Latest, Mentions

(* It holds when nothing is known, ...                                     *)
LEMMA TrueInit == Init => InformersTrue
BY EmptySays DEF Init, Empty, InformersTrue, StreamTrue, NotesTrue

(* ... a change of the cluster is the last word on its object, ...         *)
LEMMA TrueChanges ==
  ASSUME Typed, InformersTrue, NEW o \in Objects, NEW state \in StatesOf(o),
         ClusterChanges(o, state)
  PROVE  InformersTrue'
<1> DEFINE c == <<o, state>>
<1>1. UNCHANGED <<cache, notes, listed>> /\ \A p \in Objects \ {o} : objs'[p] = objs[p]
  BY DEF ClusterChanges, Typed, IsCluster
<1>2. objs'[o] = state
  BY DEF ClusterChanges, Typed, IsCluster
<1>3. ASSUME NEW inf \in Informers, inf \in listed, NEW p \in Watched(inf)
      PROVE  /\ Latest(stream'[inf], p, objs'[p])
             /\ Mentions(stream'[inf], p) \/ cache[p] = objs'[p]
  <2>1. stream[inf] \in Seq(NoteOf(inf)) /\ p \in Objects
    BY QueueOf DEF Typed, Watched
  <2>2. Latest(stream[inf], p, objs[p]) /\ (Mentions(stream[inf], p) \/ cache[p] = objs[p])
    BY <1>3 DEF InformersTrue, StreamTrue
  <2>3. CASE inf = Watches(o)
    <3>1. stream'[inf] = Append(stream[inf], c)
      <4>1. stream' = [stream EXCEPT ![inf] = Append(stream[inf], c)]
        BY <1>3, <2>3 DEF ClusterChanges
      <4> QED BY <4>1, QueueDomain DEF Typed
    <3>2. c[1] = o /\ c[2] = state
      OBVIOUS
    <3> HIDE DEF c
    <3>3. p # o => objs'[p] = objs[p]
      BY <1>1, <2>1
    <3>4. Latest(stream'[inf], p, objs'[p])
      BY <1>2, <2>1, <2>2, <3>1, <3>2, <3>3, LatestAppend
    <3>5. Mentions(stream'[inf], p) <=> Mentions(stream[inf], p) \/ o = p
      BY <2>1, <3>1, <3>2, MentionsAppend
    <3> QED BY <2>2, <3>3, <3>4, <3>5
  <2>4. CASE inf # Watches(o)
    <3>1. p # o
      BY <2>4 DEF Watched
    <3>2. stream'[inf] = stream[inf]
      BY <2>4, ObjectKinds, QueueOf DEF ClusterChanges, Typed
    <3> QED BY <1>1, <2>1, <2>2, <3>1, <3>2
  <2> QED BY <2>3, <2>4
<1>4. ASSUME NEW inf \in Informers, inf \notin listed
      PROVE  stream'[inf] = <<>>
  <2>1. stream[inf] = <<>>
    BY <1>4 DEF InformersTrue, StreamTrue
  <2>2. Watches(o) \in listed => inf # Watches(o)
    BY <1>4
  <2> QED BY <2>1, <2>2, ObjectKinds, QueueOf DEF ClusterChanges, Typed
<1>5. StreamTrue'
  BY <1>1, <1>3, <1>4 DEF StreamTrue
<1>6. NotesTrue'
  BY <1>1 DEF InformersTrue, NotesTrue
<1> QED BY <1>5, <1>6 DEF InformersTrue

(* ... which moves from the stream to the cache and to the notifications,  *)
(* ...                                                                     *)
LEMMA TrueDeliver ==
  ASSUME Typed, InformersTrue, NEW inf \in Informers, Deliver(inf)
  PROVE  InformersTrue'
<1> DEFINE c == Head(stream[inf])
<1>1. /\ stream[inf] \in Seq(NoteOf(inf)) /\ stream[inf] # <<>>
      /\ notes[inf] \in Seq(NoteOf(inf))
  BY QueueOf DEF Typed, Deliver
<1>2. c \in NoteOf(inf)
  BY <1>1
<1>3. inf \in listed
  BY <1>1 DEF InformersTrue, StreamTrue
<1>4. /\ UNCHANGED <<objs, listed>>
      /\ stream'[inf] = Tail(stream[inf]) /\ notes'[inf] = Append(notes[inf], c)
      /\ \A k \in Informers \ {inf} : stream'[k] = stream[k] /\ notes'[k] = notes[k]
  <2>1. /\ UNCHANGED <<objs, listed>>
        /\ stream' = [stream EXCEPT ![inf] = Tail(stream[inf])]
        /\ notes' = [notes EXCEPT ![inf] = Append(notes[inf], c)]
    BY DEF Deliver
  <2> HIDE DEF c
  <2> QED BY <2>1, QueueDomain DEF Typed
<1>5. c[1] \in Watched(inf) /\ c[1] \in Objects
  BY <1>2 DEF NoteOf, Watched
<1>6. cache'[c[1]] = c[2] /\ \A o \in Objects \ {c[1]} : cache'[o] = cache[o]
  BY <1>5 DEF Deliver, Typed, IsCluster
<1> HIDE DEF c
<1>7. \A k \in Informers \ {inf} : \A o \in Watched(k) : o \in Objects \ {c[1]}
  BY <1>5, ObjectKinds DEF Watched
<1>8. ASSUME NEW o \in Watched(inf)
      PROVE  /\ Latest(stream'[inf], o, objs'[o])
             /\ Mentions(stream'[inf], o) \/ cache'[o] = objs'[o]
             /\ Latest(notes'[inf], o, cache'[o])
  <2>1. /\ Latest(stream[inf], o, objs[o])
        /\ Mentions(stream[inf], o) \/ cache[o] = objs[o]
        /\ Latest(notes[inf], o, cache[o])
    BY <1>3 DEF InformersTrue, StreamTrue, NotesTrue
  <2>2. /\ Latest(stream'[inf], o, objs[o])
        /\ c[1] = o /\ ~Mentions(stream'[inf], o) => c[2] = objs[o]
    BY <1>1, <1>4, <2>1, LatestTail DEF c
  <2>3. Mentions(stream[inf], o) <=> c[1] = o \/ Mentions(stream'[inf], o)
    BY <1>1, <1>4, MentionsTail DEF c
  <2>4. o \in Objects
    BY DEF Watched
  <2>5. Mentions(stream'[inf], o) \/ cache'[o] = objs[o]
    BY <1>6, <2>1, <2>2, <2>3, <2>4
  <2>6. Latest(notes'[inf], o, cache'[o])
    BY <1>1, <1>4, <1>6, <2>1, <2>4, LatestAppend
  <2> QED BY <1>4, <2>2, <2>5, <2>6
<1>9. StreamTrue'
  BY <1>3, <1>4, <1>6, <1>7, <1>8 DEF InformersTrue, StreamTrue
<1>10. NotesTrue'
  BY <1>4, <1>6, <1>7, <1>8 DEF InformersTrue, NotesTrue
<1> QED BY <1>9, <1>10 DEF InformersTrue

(* (a list notifies of the objects that are there, then of those that have *)
(* gone, and leaves a cache that is right)                                 *)
LEMMA ListSteps ==
  ASSUME Typed, NEW inf \in Informers, List(inf)
  PROVE  /\ \E here, left \in Seq(NoteOf(inf)) :
              /\ notes' = [notes EXCEPT ![inf] = notes[inf] \o here \o left]
              /\ \A o \in Watched(inf) :
                   /\ Latest(here, o, objs[o]) /\ Latest(left, o, objs[o])
                   /\ Mentions(here, o) <=> objs[o] # Absent
                   /\ Mentions(left, o) <=> objs[o] = Absent /\ cache[o] # Absent
              /\ \A k \in 1 .. Len(here) : here[k][2] = objs[here[k][1]]
              /\ \A k \in 1 .. Len(left) : left[k][2] = objs[left[k][1]]
         /\ \A o \in Objects : cache'[o] = IF o \in Watched(inf) THEN objs[o] ELSE cache[o]
<1> DEFINE present == {o \in Watched(inf) : objs[o] # Absent}
           gone    == {o \in Watched(inf) : objs[o] = Absent /\ cache[o] # Absent}
           here    == NotesAbout(present, objs)
           left    == NotesAbout(gone, objs)
<1>1. notes' = [notes EXCEPT ![inf] = notes[inf] \o here \o left]
  BY DEF List, NotesAbout
<1>2. ASSUME NEW S, S \subseteq Watched(inf)
      PROVE  /\ NotesAbout(S, objs) \in Seq(NoteOf(inf))
             /\ \A o : Mentions(NotesAbout(S, objs), o) <=> o \in S
             /\ \A o : Latest(NotesAbout(S, objs), o, objs[o])
             /\ \A k \in 1 .. Len(NotesAbout(S, objs)) :
                  NotesAbout(S, objs)[k][2] = objs[NotesAbout(S, objs)[k][1]]
  BY <1>2, NotesOfObjects DEF Typed, Latest
<1>3. present \subseteq Watched(inf) /\ gone \subseteq Watched(inf)
  OBVIOUS
<1>4. /\ here \in Seq(NoteOf(inf)) /\ left \in Seq(NoteOf(inf))
      /\ \A o : Mentions(here, o) <=> o \in present
      /\ \A o : Mentions(left, o) <=> o \in gone
      /\ \A o : Latest(here, o, objs[o]) /\ Latest(left, o, objs[o])
      /\ \A k \in 1 .. Len(here) : here[k][2] = objs[here[k][1]]
      /\ \A k \in 1 .. Len(left) : left[k][2] = objs[left[k][1]]
  BY <1>2, <1>3
<1>5. \A o \in Objects : cache'[o] = IF o \in Watched(inf) THEN objs[o] ELSE cache[o]
  BY DEF List
<1> HIDE DEF here, left
<1> QED BY <1>1, <1>4, <1>5

(* ... a list is the last word on everything, ...                          *)
LEMMA TrueList ==
  ASSUME Typed, InformersTrue, NEW inf \in Informers, List(inf)
  PROVE  InformersTrue'
<1>1. PICK here \in Seq(NoteOf(inf)), left \in Seq(NoteOf(inf)) :
        /\ notes' = [notes EXCEPT ![inf] = notes[inf] \o here \o left]
        /\ \A o \in Watched(inf) :
             /\ Latest(here, o, objs[o]) /\ Latest(left, o, objs[o])
             /\ Mentions(here, o) <=> objs[o] # Absent
             /\ Mentions(left, o) <=> objs[o] = Absent /\ cache[o] # Absent
  BY ListSteps
<1>2. \A o \in Objects : cache'[o] = IF o \in Watched(inf) THEN objs[o] ELSE cache[o]
  BY ListSteps
<1>3. /\ UNCHANGED <<objs, stream>> /\ listed' = listed \cup {inf} /\ inf \notin listed
      /\ notes'[inf] = notes[inf] \o here \o left
      /\ \A k \in Informers \ {inf} : notes'[k] = notes[k]
  BY <1>1, QueueDomain DEF List, Typed
<1>4. stream[inf] = <<>>
  BY <1>3 DEF InformersTrue, StreamTrue
<1>5. \A k \in Informers \ {inf} : \A o \in Watched(k) : o \in Objects /\ cache'[o] = cache[o]
  BY <1>2, ObjectKinds DEF Watched
<1>6. ASSUME NEW o \in Watched(inf) PROVE Latest(notes'[inf], o, cache'[o])
  <2>1. cache'[o] = objs[o]
    BY <1>2 DEF Watched
  <2>2. notes[inf] \in Seq(NoteOf(inf)) /\ notes[inf] \o here \in Seq(NoteOf(inf))
    <3>1. notes[inf] \in Seq(NoteOf(inf))
      BY QueueOf DEF Typed
    <3> QED BY <3>1
  <2>3. Latest(notes[inf], o, cache[o])
    BY DEF InformersTrue, NotesTrue
  <2>4. Mentions(here, o) \/ Mentions(left, o) \/ cache[o] = objs[o]
    BY <1>1
  <2>5. Mentions(notes[inf] \o here, o) <=> Mentions(notes[inf], o) \/ Mentions(here, o)
    BY <2>2, MentionsConcat
  <2>6. Mentions(left, o) \/ Latest(notes[inf] \o here, o, objs[o])
    <3> SUFFICES ASSUME ~Mentions(left, o) PROVE Latest(notes[inf] \o here, o, objs[o])
      OBVIOUS
    <3>1. Mentions(here, o) \/ Latest(notes[inf], o, objs[o])
      BY <2>3, <2>4
    <3> QED BY <1>1, <2>2, <3>1, LatestConcat
  <2>7. Latest((notes[inf] \o here) \o left, o, objs[o])
    BY <1>1, <2>2, <2>6, LatestConcat
  <2> QED BY <1>3, <2>1, <2>7
<1>7. \A o \in Watched(inf) : cache'[o] = objs[o]
  BY <1>2 DEF Watched
<1>8. StreamTrue'
  BY <1>3, <1>4, <1>5, <1>7, EmptySays DEF InformersTrue, StreamTrue
<1>9. NotesTrue'
  BY <1>3, <1>5, <1>6 DEF InformersTrue, NotesTrue
<1> QED BY <1>8, <1>9 DEF InformersTrue

(* ... a broken watch loses changes, but is no longer listed, ...          *)
LEMMA TrueDisconnect ==
  ASSUME Typed, InformersTrue, NEW inf \in Informers, Disconnect(inf)
  PROVE  InformersTrue'
<1>1. /\ UNCHANGED <<objs, cache, notes>> /\ listed' = listed \ {inf}
      /\ stream'[inf] = <<>>
      /\ \A k \in Informers \ {inf} : stream'[k] = stream[k]
  <2>1. stream' = [stream EXCEPT ![inf] = <<>>]
    BY DEF Disconnect
  <2> QED BY <2>1, QueueDomain DEF Disconnect, Typed
<1> QED BY <1>1 DEF InformersTrue, StreamTrue, NotesTrue

(* (a resync notifies of every cached object)                              *)
LEMMA ResyncSteps ==
  ASSUME Typed, NEW inf \in Informers, Resync(inf)
  PROVE  \E seq \in Seq(NoteOf(inf)) :
           /\ notes' = [notes EXCEPT ![inf] = notes[inf] \o seq]
           /\ \A o \in Watched(inf) : Mentions(seq, o) <=> cache[o] # Absent
           /\ \A k \in 1 .. Len(seq) : seq[k][2] = cache[seq[k][1]]
<1> DEFINE cached == {o \in Watched(inf) : cache[o] # Absent}
           seq    == NotesAbout(cached, cache)
<1>1. notes' = [notes EXCEPT ![inf] = notes[inf] \o seq]
  BY DEF Resync, NotesAbout
<1>2. /\ seq \in Seq(NoteOf(inf))
      /\ \A o : Mentions(seq, o) <=> o \in cached
      /\ \A k \in 1 .. Len(seq) : seq[k][2] = cache[seq[k][1]]
  BY NotesOfObjects DEF Typed
<1> HIDE DEF seq
<1> QED BY <1>1, <1>2

(* ... a resync repeats the cache, ...                                     *)
LEMMA TrueResync ==
  ASSUME Typed, InformersTrue, NEW inf \in Informers, Resync(inf)
  PROVE  InformersTrue'
<1>1. PICK seq \in Seq(NoteOf(inf)) :
        /\ notes' = [notes EXCEPT ![inf] = notes[inf] \o seq]
        /\ \A k \in 1 .. Len(seq) : seq[k][2] = cache[seq[k][1]]
  BY ResyncSteps
<1>2. /\ UNCHANGED <<objs, stream, cache, listed>>
      /\ notes'[inf] = notes[inf] \o seq
      /\ \A k \in Informers \ {inf} : notes'[k] = notes[k]
  BY <1>1, QueueDomain DEF Resync, Typed
<1>3. ASSUME NEW o \in Watched(inf) PROVE Latest(notes'[inf], o, cache[o])
  <2>1. notes[inf] \in Seq(NoteOf(inf))
    BY QueueOf DEF Typed
  <2>2. Latest(notes[inf], o, cache[o])
    BY DEF InformersTrue, NotesTrue
  <2>3. Latest(seq, o, cache[o])
    BY <1>1 DEF Latest
  <2> QED BY <1>2, <2>1, <2>2, <2>3, LatestConcat
<1> QED BY <1>2, <1>3 DEF InformersTrue, StreamTrue, NotesTrue

(* ... a handler takes the front of a queue, not its last word, ...        *)
LEMMA TrueHandlerReads ==
  ASSUME Typed, InformersTrue, NEW inf \in Informers, HandlerReads(inf)
  PROVE  InformersTrue'
<1>1. /\ UNCHANGED <<objs, stream, cache, listed>>
      /\ notes[inf] # <<>> /\ notes'[inf] = Tail(notes[inf])
      /\ \A k \in Informers \ {inf} : notes'[k] = notes[k]
  <2>1. notes' = [notes EXCEPT ![inf] = Tail(notes[inf])]
    BY DEF HandlerReads
  <2> QED BY <2>1, QueueDomain DEF HandlerReads, Typed
<1>2. notes[inf] \in Seq(NoteOf(inf))
  BY QueueOf DEF Typed
<1>3. \A o \in Watched(inf) : Latest(notes'[inf], o, cache[o])
  BY <1>1, <1>2, LatestTail DEF InformersTrue, NotesTrue
<1> QED BY <1>1, <1>3 DEF InformersTrue, StreamTrue, NotesTrue

(* ... and so every step keeps it.                                         *)
LEMMA TrueStep == MInv /\ Typed /\ InformersTrue /\ [Next]_vars => InformersTrue'
<1> SUFFICES ASSUME MInv, Typed, InformersTrue, [Next]_vars PROVE InformersTrue'
  OBVIOUS
<1>1. CASE UNCHANGED <<objs, informers>>
  BY <1>1 DEF informers, InformersTrue, StreamTrue, NotesTrue
<1>2. CASE UNCHANGED vars \/ Cancel \/ Shutdown \/ StopDebouncer
  BY <1>1, <1>2 DEF Cancel, Shutdown, StopDebouncer, NotOurs, vars
<1>3. ASSUME NEW inf \in Informers, HandlerSubmits(inf) PROVE InformersTrue'
  BY <1>1, <1>3 DEF HandlerSubmits
<1>4. ASSUME NEW t \in D!Timer, TimerExpires(t) \/ CallbackRuns(t) \/ Publish(t)
      PROVE  InformersTrue'
  BY <1>1, <1>4 DEF TimerExpires, CallbackRuns, Publish, PublishSucceeds, PublishFails,
     PublishAborts, NotOurs
<1>5. CASE Restart
  BY <1>5, EmptySays DEF Restart, Empty, InformersTrue, StreamTrue, NotesTrue
<1> QED BY <1>2, <1>3, <1>4, <1>5, TrueChanges, TrueDeliver, TrueList, TrueDisconnect,
           TrueResync, TrueHandlerReads
        DEF Next, System, Informer, Handler, Stop

-----------------------------------------------------------------------------
(* The timers of an instance expire in order.                              *)

(* The phases of a timer whose event is still to be published.             *)
Active == {"armed", "fired", "publishing"}

(* While a timer of an instance is active, those armed after it have not   *)
(* expired: with Prompt, the invariant that makes an older event unable to *)
(* overtake a newer one.                                                   *)
InOrder ==
  \A t, u \in D!Timer :
    t < u /\ owner[t] = owner[u] /\ owner[t] \in Instances /\ phase[t] \in Active
      => phase[u] \in {"armed", "halted"}

(* Submit arms a timer newer than every other and stops at most the one    *)
(* before it of the same instance.                                         *)
LEMMA SubmitArms ==
  ASSUME D!IInv, NEW i \in Instances, D!Submit(i)
  PROVE  \E new \in D!Timer :
           /\ new = submits + 1
           /\ owner[new] \notin Instances /\ owner'[new] = i /\ phase'[new] = "armed"
           /\ \A t \in D!Timer \ {new} :
                /\ owner'[t] = owner[t]
                /\ phase'[t] = phase[t] \/ (phase[t] = "armed" /\ phase'[t] = "halted")
                /\ owner[t] # i => phase'[t] = phase[t]
                /\ owner[t] \in Instances => t < new
<1> DEFINE new == submits + 1
<1>1. new \in D!Timer /\ submits \in Nat
  BY MonitorAssumption DEF D!Submit, D!IInv, D!TypeOK, D!Timer
<1>2. /\ owner \in [D!Timer -> Instances \cup {D!NoOwner}]
      /\ phase \in [D!Timer -> D!Phases]
  BY DEF D!IInv, D!TypeOK
<1>3. /\ owner' = [owner EXCEPT ![new] = i]
      /\ phase' = [D!Halted({timers[i]}) EXCEPT ![new] = "armed"]
  BY DEF D!Submit
<1>4. owner'[new] = i /\ phase'[new] = "armed"
  BY <1>1, <1>2, <1>3 DEF D!Halted
<1>5. ASSUME NEW t \in D!Timer \ {new}
      PROVE  /\ owner'[t] = owner[t]
             /\ phase'[t] = IF t = timers[i] /\ phase[t] = "armed" THEN "halted" ELSE phase[t]
  BY <1>1, <1>2, <1>3 DEF D!Halted
<1>6. ASSUME NEW t \in D!Timer, t = timers[i] PROVE owner[t] = i
  BY <1>6 DEF D!IInv, D!TrackedIsNewest, D!NoTimer, D!Timer
<1>7. ASSUME NEW t \in D!Timer, owner[t] \in Instances PROVE t < new
  <2>1. t <= submits
    BY <1>7, MonitorAssumption DEF D!IInv, D!Numbered, D!NoOwner
  <2> QED BY <1>1, <2>1 DEF D!Timer
<1>8. owner[new] \notin Instances
  BY <1>1, MonitorAssumption DEF D!IInv, D!Numbered, D!NoOwner
<1> QED BY <1>1, <1>4, <1>5, <1>6, <1>7, <1>8

(* No timer is armed at first, ...                                         *)
LEMMA OrderedInit == Init => InOrder
BY DEF Init, D!Init, InOrder, Active

(* ... a new one is armed behind the others, and only the oldest active    *)
(* timer of an instance expires, by Prompt.                                *)
LEMMA OrderedStep ==
  ASSUME Prompt = TRUE PROVE MInv /\ InOrder /\ [Next]_vars => InOrder'
<1> SUFFICES ASSUME MInv, InOrder, [Next]_vars PROVE InOrder'
  OBVIOUS
<1>1. CASE UNCHANGED debouncer
  BY <1>1 DEF debouncer, InOrder
<1>2. CASE Restart
  BY <1>2 DEF Restart, InOrder, Active
<1>3. ASSUME NEW i \in Instances, D!Submit(i) PROVE InOrder'
  <2>1. PICK new \in D!Timer :
        /\ owner'[new] = i /\ phase'[new] = "armed"
        /\ \A t \in D!Timer \ {new} :
             /\ owner'[t] = owner[t]
             /\ phase'[t] = phase[t] \/ (phase[t] = "armed" /\ phase'[t] = "halted")
             /\ owner[t] \in Instances => t < new
    BY <1>3, SubmitArms DEF MInv
  <2> SUFFICES ASSUME NEW t \in D!Timer, NEW u \in D!Timer, t < u, owner'[t] = owner'[u],
                      owner'[t] \in Instances, phase'[t] \in Active
               PROVE  phase'[u] \in {"armed", "halted"}
    BY DEF InOrder
  <2>2. CASE u = new
    BY <2>1, <2>2
  <2>3. CASE u # new
    <3>1. u < new
      BY <2>1, <2>3
    <3>2. t # new
      BY <3>1, <2>1 DEF D!Timer
    <3>3. phase[t] \in Active
      BY <2>1, <3>2 DEF Active
    <3>4. phase[u] \in {"armed", "halted"}
      BY <2>1, <2>3, <3>2, <3>3 DEF InOrder
    <3> QED BY <2>1, <2>3, <3>4
  <2> QED BY <2>2, <2>3
<1>4. ASSUME NEW t \in D!Timer, TimerExpires(t) PROVE InOrder'
  <2>1. /\ phase[t] = "armed" /\ phase' = [phase EXCEPT ![t] = "fired"] /\ owner' = owner
        /\ \A u \in 1 .. t - 1 : owner[u] = owner[t] => phase[u] \notin Active
    BY <1>4 DEF TimerExpires, D!Expire, Active
  <2>2. \A u \in D!Timer : u < t => u \in 1 .. t - 1
    BY DEF D!Timer
  <2> QED BY <2>1, <2>2 DEF InOrder, Active, MInv, D!IInv, D!TypeOK
<1>5. ASSUME NEW t \in D!Timer, phase[t] \in {"fired", "publishing"}, owner' = owner,
             NEW p \in {"publishing", "published", "dropped"},
             phase' = [phase EXCEPT ![t] = p], phase[t] = "publishing" => p # "publishing"
      PROVE  InOrder'
  <2>1. \A u \in D!Timer : u # t => phase'[u] = phase[u]
    BY <1>5 DEF MInv, D!IInv, D!TypeOK
  <2>2. phase'[t] = p /\ phase[t] \in Active
    BY <1>5 DEF MInv, D!IInv, D!TypeOK, Active
  <2> SUFFICES ASSUME NEW u \in D!Timer, NEW v \in D!Timer, u < v, owner[u] = owner[v],
                      owner[u] \in Instances, phase'[u] \in Active
               PROVE  phase'[v] \in {"armed", "halted"}
    BY <1>5 DEF InOrder
  <2>3. phase[u] \in Active
    BY <2>1, <2>2
  <2>4. phase[v] \in {"armed", "halted"}
    BY <2>3 DEF InOrder
  <2>5. v # t
    BY <2>4, <1>5
  <2> QED BY <2>1, <2>4, <2>5
<1>6. ASSUME NEW t \in D!Timer, CallbackRuns(t) PROVE InOrder'
  BY <1>5, <1>6 DEF CallbackRuns, D!Callback, D!CallbackReturns, D!CallbackPublishes
<1>7. ASSUME NEW t \in D!Timer, Publish(t) PROVE InOrder'
  <2>1. UNCHANGED debouncer \/ D!PublishReturns(t)
    BY <1>7 DEF Publish, PublishSucceeds, PublishFails, PublishAborts, PublishEnds
  <2>2. CASE D!PublishReturns(t)
    BY <1>5, <2>2 DEF D!PublishReturns
  <2> QED BY <1>1, <2>1, <2>2
<1>8. CASE StopDebouncer
  <2>1. CASE D!StopReturns
    BY <2>1 DEF D!StopReturns, InOrder
  <2>2. CASE D!StopLocked
    <3>1. owner' = owner /\ \A t \in D!Timer :
            phase'[t] = phase[t] \/ (phase[t] = "armed" /\ phase'[t] = "halted")
      BY <2>2 DEF D!StopLocked, D!Halted
    <3> QED BY <3>1 DEF InOrder, Active
  <2> QED BY <1>8, <2>1, <2>2 DEF StopDebouncer
<1>9. CASE Cancel \/ Shutdown \/ UNCHANGED vars
  BY <1>1, <1>9 DEF Cancel, Shutdown, vars
<1>10. ASSUME NEW inf \in Informers, HandlerSubmits(inf) PROVE InOrder'
  BY <1>1, <1>3, <1>10 DEF HandlerSubmits
<1>11. ASSUME NEW inf \in Informers,
              Disconnect(inf) \/ Resync(inf) \/ Informer(inf) \/ HandlerReads(inf)
       PROVE  UNCHANGED debouncer
  BY <1>11 DEF Disconnect, Resync, Informer, Deliver, List, HandlerReads
<1>12. ASSUME NEW o \in Objects, NEW state \in StatesOf(o), ClusterChanges(o, state)
       PROVE  UNCHANGED debouncer
  BY <1>12 DEF ClusterChanges
<1> QED BY <1>1, <1>2, <1>4, <1>6, <1>7, <1>8, <1>9, <1>10, <1>11, <1>12
        DEF Next, System, Handler, Stop

-----------------------------------------------------------------------------
(* The way of a status from a handler to the subscribers.                  *)

(* A timer is the instance's last.                                         *)
Newest(i, t) == owner[t] = i /\ \A u \in D!Timer : owner[u] = i => u <= t

(* The handlers between lookup and Submit agree on the instance's status.  *)
Says(i, s) ==
  \A inf \in Informers : submitting[inf] # <<>> /\ submitting[inf][1] = i
                           => submitting[inf][2] = s

(* No timer has an event of the instance.                                  *)
Idle(i) == \A t \in D!Timer : owner[t] = i => phase[t] \notin Active

(* A status is on its way, or has arrived: a handler is about to submit    *)
(* it, or the instance's last timer carries it, or no timer carries        *)
(* anything and it was published last, or was dropped after its last       *)
(* retry. No handler is about to submit another.                           *)
Pipeline(i, s) ==
  /\ Says(i, s)
  /\ \/ \E inf \in Informers : submitting[inf] = <<i, s>>
     \/ \E t \in D!Timer : Newest(i, t) /\ phase[t] \in Active /\ event[t] = s
     \/ Idle(i) /\ (published[i] = s \/ i \in unreported)

(* A step that touches none of this leaves it so.                          *)
LEMMA PipelineRests ==
  ASSUME NEW i \in Instances, NEW s, Pipeline(i, s),
         UNCHANGED <<submitting, event, published, debouncer>>,
         i \in unreported => i \in unreported'
  PROVE  Pipeline(i, s)'
<1>1. UNCHANGED <<submitting, event, published, owner, phase>>
  BY DEF debouncer
<1>2. Says(i, s)' /\ (Idle(i) => Idle(i)') /\ \A t : Newest(i, t) => Newest(i, t)'
  BY <1>1 DEF Pipeline, Says, Idle, Newest
<1> QED BY <1>1, <1>2 DEF Pipeline

(* A handler that reads about another instance, or finds nothing to        *)
(* publish, leaves it so; one that finds the status starts it.             *)
LEMMA PipelineReads ==
  ASSUME Typed, NEW i \in Instances, NEW s, NEW inf \in Informers, NEW e,
         submitting[inf] = <<>>, submitting' = [submitting EXCEPT ![inf] = e],
         UNCHANGED <<event, published, unreported, debouncer>>,
         \/ Pipeline(i, s) /\ (e = <<>> \/ e[1] # i)
         \/ Says(i, s) /\ e = <<i, s>>
  PROVE  Pipeline(i, s)'
<1>1. UNCHANGED <<event, published, unreported, owner, phase>>
  BY DEF debouncer
<1>2. submitting'[inf] = e /\ \A k \in Informers \ {inf} : submitting'[k] = submitting[k]
  BY DEF Typed
<1>3. \A t : Newest(i, t) => Newest(i, t)'
  BY <1>1 DEF Newest
<1>4. Idle(i) => Idle(i)'
  BY <1>1 DEF Idle
<1>5. CASE Pipeline(i, s) /\ (e = <<>> \/ e[1] # i)
  <2>1. Says(i, s)'
    BY <1>2, <1>5 DEF Pipeline, Says
  <2>2. \A k \in Informers : submitting[k] = <<i, s>> => submitting'[k] = <<i, s>>
    <3>1. submitting[inf] # <<i, s>>
      OBVIOUS
    <3> QED BY <1>2, <3>1
  <2> QED BY <1>1, <1>3, <1>4, <1>5, <2>1, <2>2 DEF Pipeline
<1>6. CASE Says(i, s) /\ e = <<i, s>>
  <2>1. Says(i, s)'
    BY <1>2, <1>6 DEF Says
  <2> QED BY <1>2, <1>6, <2>1 DEF Pipeline
<1> QED BY <1>5, <1>6

(* Submit hands the status from the handler to the instance's newest       *)
(* timer, and the event of another instance does not disturb it (the       *)
(* monitor is running, so that the debouncer is not stopped).              *)
LEMMA PipelineSubmits ==
  ASSUME MInv, Typed, NEW i \in Instances, NEW s, Pipeline(i, s),
         NEW inf \in Informers, HandlerSubmits(inf), ~ctxDone
  PROVE  Pipeline(i, s)'
<1> DEFINE e == submitting[inf]
<1>1. ~stopped
  BY DEF MInv, ShutdownInOrder
<1>2. /\ e # <<>> /\ submitting' = [submitting EXCEPT ![inf] = <<>>]
      /\ UNCHANGED <<published, unreported>>
      /\ \E j \in Instances : e[1] = j /\ D!Submit(j)
      /\ event' = [t \in D!Timer |-> IF t = submits + 1 THEN e[2]
                                     ELSE IF phase'[t] = "halted" THEN NoStatus
                                     ELSE event[t]]
  BY <1>1 DEF HandlerSubmits
<1>3. PICK j \in Instances : e[1] = j /\ D!Submit(j)
  BY <1>2
<1>4. PICK new \in D!Timer :
      /\ new = submits + 1
      /\ owner[new] \notin Instances /\ owner'[new] = j /\ phase'[new] = "armed"
      /\ \A t \in D!Timer \ {new} :
           /\ owner'[t] = owner[t]
           /\ phase'[t] = phase[t] \/ (phase[t] = "armed" /\ phase'[t] = "halted")
           /\ owner[t] # j => phase'[t] = phase[t]
           /\ owner[t] \in Instances => t < new
  BY <1>3, SubmitArms DEF MInv
<1>5. submitting'[inf] = <<>> /\ \A k \in Informers \ {inf} : submitting'[k] = submitting[k]
  BY <1>2 DEF Typed
<1>6. event'[new] = e[2] /\ \A t \in D!Timer \ {new} : phase'[t] # "halted" => event'[t] = event[t]
  BY <1>2, <1>4
<1>7. e \in Events
  BY <1>2 DEF Typed
<1> HIDE DEF e
<1>8. Says(i, s)'
  BY <1>5 DEF Pipeline, Says
<1>9. CASE j = i
  <2>1. e[2] = s
    BY <1>2, <1>3, <1>9 DEF Pipeline, Says, e
  <2>2. Newest(i, new)'
    <3>1. \A u \in D!Timer : owner'[u] = i => u <= new
      BY <1>4 DEF D!Timer
    <3> QED BY <1>4, <1>9, <3>1 DEF Newest
  <2> QED BY <1>4, <1>6, <1>8, <2>1, <2>2 DEF Pipeline, Active
<1>10. CASE j # i
  <2>1. CASE \E k \in Informers : submitting[k] = <<i, s>>
    <3>1. PICK k \in Informers : submitting[k] = <<i, s>>
      BY <2>1
    <3>2. k # inf
      BY <1>3, <1>10, <3>1 DEF e
    <3> QED BY <1>5, <1>8, <3>1, <3>2 DEF Pipeline
  <2>2. CASE \E t \in D!Timer : Newest(i, t) /\ phase[t] \in Active /\ event[t] = s
    <3>1. PICK t \in D!Timer : Newest(i, t) /\ phase[t] \in Active /\ event[t] = s
      BY <2>2
    <3>2. t # new
      BY <1>4, <3>1 DEF Newest
    <3>3. owner'[t] = i /\ phase'[t] = phase[t]
      BY <1>4, <1>10, <3>1, <3>2 DEF Newest
    <3>4. event'[t] = s
      BY <1>6, <3>1, <3>2, <3>3 DEF Active
    <3>5. Newest(i, t)'
      BY <1>4, <1>10, <3>1, <3>3 DEF Newest
    <3> QED BY <1>8, <3>1, <3>3, <3>4, <3>5 DEF Pipeline
  <2>3. CASE Idle(i) /\ (published[i] = s \/ i \in unreported)
    <3>1. Idle(i)'
      BY <1>4, <1>10, <2>3 DEF Idle
    <3> QED BY <1>2, <1>8, <2>3, <3>1 DEF Pipeline
  <2> QED BY <2>1, <2>2, <2>3 DEF Pipeline
<1> QED BY <1>9, <1>10

(* A timer that expires still carries its event, as does its callback      *)
(* while it publishes.                                                     *)
LEMMA PipelineRuns ==
  ASSUME MInv, Typed, NEW i \in Instances, NEW s, Pipeline(i, s),
         NEW t \in D!Timer, TimerExpires(t) \/ CallbackRuns(t), ~ctxDone
  PROVE  Pipeline(i, s)'
<1>1. ~stopped
  BY DEF MInv, ShutdownInOrder
<1>2. /\ phase[t] \in {"armed", "fired"} /\ owner' = owner
      /\ \E p \in {"fired", "publishing"} : phase' = [phase EXCEPT ![t] = p]
      /\ UNCHANGED <<event, published, unreported, submitting>>
  BY <1>1 DEF TimerExpires, CallbackRuns, NotOurs, D!Expire, D!Callback, D!CallbackReturns,
     D!CallbackPublishes
<1>3. \A u \in D!Timer : phase[u] \in Active <=> phase'[u] \in Active
  BY <1>2 DEF Active, MInv, D!IInv, D!TypeOK
<1>4. Says(i, s)'
  BY <1>2 DEF Pipeline, Says
<1>5. (Idle(i) => Idle(i)') /\ \A u : Newest(i, u) => Newest(i, u)'
  BY <1>2, <1>3 DEF Idle, Newest
<1> QED BY <1>2, <1>3, <1>4, <1>5 DEF Pipeline

(* The end of a publish leaves the status published, or dropped: an older  *)
(* event cannot end after it, since the instance's older timers are done   *)
(* (InOrder).                                                              *)
LEMMA PipelinePublishes ==
  ASSUME MInv, Typed, InOrder, NEW i \in Instances, NEW s, Pipeline(i, s),
         NEW t \in D!Timer, Publish(t), ~ctxDone
  PROVE  Pipeline(i, s)'
<1>1. submitting' = submitting /\ ~PublishAborts(t)
  BY DEF Publish, PublishSucceeds, PublishFails, PublishAborts, NotOurs
<1>2. Says(i, s)'
  BY <1>1 DEF Pipeline, Says
<1>3. CASE PublishEnds(t)
  <2>1. /\ phase[t] = "publishing" /\ owner' = owner
        /\ phase' = [phase EXCEPT ![t] = "published"]
        /\ event' = [event EXCEPT ![t] = NoStatus]
    BY <1>3 DEF PublishEnds, D!PublishReturns
  <2>2. /\ phase'[t] = "published"
        /\ \A u \in D!Timer \ {t} : phase'[u] = phase[u] /\ event'[u] = event[u]
    BY <2>1 DEF Typed, MInv, D!IInv, D!TypeOK
  <2>3. /\ \A k \in Instances \ {owner[t]} : published'[k] = published[k]
        /\ \A k \in Instances \ {owner[t]} : k \in unreported => k \in unreported'
    BY <1>1, <1>3 DEF Publish, PublishSucceeds, PublishFails, Typed
  <2>4. published'[owner[t]] = event[t] \/ owner[t] \in unreported'
    <3>1. owner[t] \in Instances
      BY <2>1 DEF MInv, D!IInv, D!Numbered
    <3>2. CASE PublishSucceeds(t)
      BY <3>1, <3>2 DEF PublishSucceeds, Typed
    <3>3. CASE PublishFails(t)
      <4>1. phase' # phase
        BY <2>1, <2>2
      <4> QED BY <3>3, <4>1 DEF PublishFails, debouncer
    <3> QED BY <1>1, <3>2, <3>3 DEF Publish
  <2>5. CASE \E k \in Informers : submitting[k] = <<i, s>>
    BY <1>1, <1>2, <2>5 DEF Pipeline
  <2>6. CASE \E u \in D!Timer : Newest(i, u) /\ phase[u] \in Active /\ event[u] = s
    <3>1. PICK u \in D!Timer : Newest(i, u) /\ phase[u] \in Active /\ event[u] = s
      BY <2>6
    <3>2. CASE u # t
      <4>1. Newest(i, u)'
        BY <2>1, <3>1 DEF Newest
      <4> QED BY <1>2, <2>2, <3>1, <3>2, <4>1 DEF Pipeline
    <3>3. CASE u = t
      <4>1. Idle(i)'
        <5> SUFFICES ASSUME NEW v \in D!Timer, owner[v] = i PROVE phase'[v] \notin Active
          BY <2>1 DEF Idle
        <5>1. v = t \/ v < t
          BY <3>1, <3>3 DEF Newest, D!Timer
        <5>2. v < t => phase[v] \notin Active
          BY <2>1, <3>1, <3>3 DEF InOrder, Newest
        <5> QED BY <2>2, <5>1, <5>2 DEF Active, D!Timer
      <4>2. published'[i] = s \/ i \in unreported'
        BY <2>4, <3>1, <3>3 DEF Newest
      <4> QED BY <1>2, <4>1, <4>2 DEF Pipeline
    <3> QED BY <3>2, <3>3
  <2>7. CASE Idle(i) /\ (published[i] = s \/ i \in unreported)
    <3>1. owner[t] # i
      BY <2>1, <2>7 DEF Idle, Active
    <3>2. Idle(i)'
      BY <2>1, <2>2, <2>7 DEF Idle, Active
    <3> QED BY <1>2, <2>3, <2>7, <3>1, <3>2 DEF Pipeline
  <2> QED BY <2>5, <2>6, <2>7 DEF Pipeline
<1>4. CASE UNCHANGED <<event, unreported, debouncer>> /\ published' = published
  BY <1>1, <1>4, PipelineRests
<1> QED BY <1>1, <1>3, <1>4 DEF Publish, PublishSucceeds, PublishFails

-----------------------------------------------------------------------------
(* What a cache says of an instance, and what has been said of it.         *)

(* At most one Pod of the instance is there.                               *)
OnePod(f, i) ==
  \A p, q \in Pods : f[<<i, p>>] # Absent /\ f[<<i, q>>] # Absent => p = q

(* The status that a view of the cluster gives an instance.                *)
StatusIn(f, i) == ReconcileStatus(LookupDeployment(f, i), LookupPod(f, i))

(* A notification about the instance waits for its handler.                *)
Noted(i) == \E o \in Objects : o[1] = i /\ Mentions(notes[Watches(o)], o)

(* The phase LookupPod chooses, as a function of the phases alone.         *)
Worst(phases) ==
  IF phases = {} THEN Absent
  ELSE CHOOSE f \in phases : \A g \in phases : Priority[f] >= Priority[g]

(* The status of an instance depends on its own objects only.              *)
LEMMA SameStatus ==
  ASSUME NEW f, NEW g, NEW i \in Instances, \A o \in Objects : o[1] = i => f[o] = g[o]
  PROVE  (OnePod(f, i) <=> OnePod(g, i)) /\ StatusIn(f, i) = StatusIn(g, i)
<1>1. f[<<i, Deployment>>] = g[<<i, Deployment>>]
  BY ObjectKinds
<1>2. \A p \in Pods : f[<<i, p>>] = g[<<i, p>>]
  BY ObjectKinds
<1>3. LookupPod(f, i) = LookupPod(g, i)
  <2>1. {f[<<i, p>>] : p \in Pods} = {g[<<i, p>>] : p \in Pods}
    BY <1>2
  <2>2. LookupPod(f, i) = Worst({f[<<i, p>>] : p \in Pods} \ {Absent})
    BY DEF LookupPod, Worst
  <2>3. LookupPod(g, i) = Worst({g[<<i, p>>] : p \in Pods} \ {Absent})
    BY DEF LookupPod, Worst
  <2> QED BY <2>1, <2>2, <2>3
<1>4. OnePod(f, i) <=> OnePod(g, i)
  BY <1>2 DEF OnePod
<1> QED BY <1>1, <1>3, <1>4 DEF StatusIn, LookupDeployment

(* A handler notified of what the cache says computes the status of the    *)
(* whole instance, whichever object it is notified of: with several Pods   *)
(* it may not, which is what WorstPodReported finds.                       *)
LEMMA ReconcilesCache ==
  ASSUME IsCluster(cache), NEW o \in Objects, OnePod(cache, o[1])
  PROVE  Reconciled(o, cache[o]) = StatusIn(cache, o[1])
<1> DEFINE i == o[1]
<1>1. i \in Instances /\ o = <<i, o[2]>> /\ o[2] \in Pods \cup {Deployment}
  BY ObjectKinds
<1>2. CASE o[2] = Deployment
  BY <1>1, <1>2 DEF Reconciled, StatusIn, LookupDeployment
<1>3. CASE o[2] # Deployment /\ cache[o] = Absent
  BY <1>3 DEF Reconciled, StatusIn
<1>4. CASE o[2] # Deployment /\ cache[o] # Absent
  <2>1. LookupPod(cache, i) = cache[o]
    <3>1. o[2] \in Pods /\ cache[<<i, o[2]>>] # Absent
      BY <1>1, <1>4
    <3>2. LookupPod(cache, i) # Absent
      BY <1>1, <3>1, PhaseFound
    <3>3. PICK p \in Pods : LookupPod(cache, i) = cache[<<i, p>>]
      BY <1>1, <3>2, PhaseFound
    <3>4. p = o[2]
      BY <3>1, <3>2, <3>3 DEF OnePod
    <3> QED BY <1>1, <3>3, <3>4
  <2> QED BY <1>4, <2>1 DEF Reconciled, StatusIn
<1> QED BY <1>2, <1>3, <1>4

(* Notifications that remain keep the instance noted.                      *)
LEMMA NotedKept ==
  ASSUME NEW i, Noted(i),
         \A o \in Objects : o[1] = i /\ Mentions(notes[Watches(o)], o)
                              => Mentions(notes'[Watches(o)], o)
  PROVE  Noted(i)'
BY DEF Noted

(* A delivery notifies of the instance whose cached objects it changes.    *)
LEMMA DeliverNotes ==
  ASSUME Typed, NEW inf \in Informers, Deliver(inf), NEW i \in Instances
  PROVE  \/ Noted(i)'
         \/ /\ ~Noted(i) /\ tracked' \cap {i} = tracked \cap {i}
            /\ \A o \in Objects : o[1] = i => cache'[o] = cache[o]
<1> DEFINE c == Head(stream[inf])
<1>1. /\ stream[inf] \in Seq(NoteOf(inf)) /\ stream[inf] # <<>>
      /\ notes[inf] \in Seq(NoteOf(inf))
  BY QueueOf DEF Typed, Deliver
<1>2. c \in NoteOf(inf)
  BY <1>1
<1>3. /\ c[1] \in Objects /\ Watches(c[1]) = inf
  BY <1>2 DEF NoteOf, Watched
<1>4. /\ notes' = [notes EXCEPT ![inf] = Append(notes[inf], c)]
      /\ cache' = [cache EXCEPT ![c[1]] = c[2]]
      /\ tracked' = tracked \cup {c[1][1]}
  BY DEF Deliver
<1> HIDE DEF c
<1>5. /\ notes'[inf] = Append(notes[inf], c)
      /\ \A k \in Informers \ {inf} : notes'[k] = notes[k]
  BY <1>4, QueueDomain DEF Typed
<1>6. \A o : Mentions(notes'[inf], o) <=> Mentions(notes[inf], o) \/ c[1] = o
  BY <1>1, <1>5, MentionsAppend
<1>7. \A o \in Objects : Mentions(notes[Watches(o)], o) => Mentions(notes'[Watches(o)], o)
  BY <1>5, <1>6, ObjectKinds
<1>8. CASE c[1][1] = i
  BY <1>3, <1>6, <1>8 DEF Noted
<1>9. CASE c[1][1] # i
  <2>1. \A o \in Objects : o[1] = i => cache'[o] = cache[o]
    BY <1>3, <1>4, <1>9 DEF Typed, IsCluster
  <2> QED BY <1>4, <1>7, <1>9, <2>1, NotedKept
<1> QED BY <1>8, <1>9

(* So does a list, of what is there and of what has gone.                  *)
LEMMA ListNotes ==
  ASSUME Typed, NEW inf \in Informers, List(inf), NEW i \in Instances
  PROVE  \/ Noted(i)'
         \/ /\ ~Noted(i) /\ tracked' \cap {i} = tracked \cap {i}
            /\ \A o \in Objects : o[1] = i => cache'[o] = cache[o]
<1>1. PICK here \in Seq(NoteOf(inf)), left \in Seq(NoteOf(inf)) :
        /\ notes' = [notes EXCEPT ![inf] = notes[inf] \o here \o left]
        /\ \A o \in Watched(inf) :
             /\ Mentions(here, o) <=> objs[o] # Absent
             /\ Mentions(left, o) <=> objs[o] = Absent /\ cache[o] # Absent
  BY ListSteps
<1>2. \A o \in Objects : cache'[o] = IF o \in Watched(inf) THEN objs[o] ELSE cache[o]
  BY ListSteps
<1>3. tracked' = tracked \cup {o[1] : o \in {o \in Watched(inf) : objs[o] # Absent}}
  BY DEF List
<1>4. /\ notes'[inf] = (notes[inf] \o here) \o left
      /\ \A k \in Informers \ {inf} : notes'[k] = notes[k]
  BY <1>1, QueueDomain DEF Typed
<1>5. notes[inf] \in Seq(NoteOf(inf))
  BY QueueOf DEF Typed
<1>6. notes[inf] \o here \in Seq(NoteOf(inf))
  BY <1>5
<1>7. \A o : Mentions(notes'[inf], o) <=>
               Mentions(notes[inf], o) \/ Mentions(here, o) \/ Mentions(left, o)
  <2>1. \A o : Mentions(notes[inf] \o here, o) <=> Mentions(notes[inf], o) \/ Mentions(here, o)
    BY <1>5, MentionsConcat
  <2>2. \A o : Mentions((notes[inf] \o here) \o left, o) <=>
                 Mentions(notes[inf] \o here, o) \/ Mentions(left, o)
    BY <1>6, MentionsConcat
  <2> QED BY <1>4, <2>1, <2>2
<1>8. \A o \in Objects : Mentions(notes[Watches(o)], o) => Mentions(notes'[Watches(o)], o)
  BY <1>4, <1>7, ObjectKinds
<1>9. CASE \E o \in Watched(inf) : o[1] = i /\ (objs[o] # Absent \/ cache[o] # Absent)
  <2>1. PICK o \in Watched(inf) : o[1] = i /\ (objs[o] # Absent \/ cache[o] # Absent)
    BY <1>9
  <2>2. o \in Objects /\ Watches(o) = inf
    BY DEF Watched
  <2> QED BY <1>1, <1>7, <2>1, <2>2 DEF Noted
<1>10. CASE \A o \in Watched(inf) : o[1] = i => objs[o] = Absent /\ cache[o] = Absent
  <2>1. \A o \in Objects : o[1] = i => cache'[o] = cache[o]
    BY <1>2, <1>10
  <2>2. tracked' \cap {i} = tracked \cap {i}
    BY <1>3, <1>10
  <2> QED BY <1>8, <2>1, <2>2, NotedKept
<1> QED BY <1>9, <1>10

(* A resync forgives a dropped event only of an instance it notifies of    *)
(* again.                                                                  *)
LEMMA ResyncNotes ==
  ASSUME Typed, NEW inf \in Informers, Resync(inf), NEW i \in Instances
  PROVE  \/ Noted(i)'
         \/ /\ ~Noted(i) /\ (i \in unreported => i \in unreported')
            /\ \A o \in Watched(inf) : o[1] = i => cache[o] = Absent
<1>1. PICK seq \in Seq(NoteOf(inf)) :
        /\ notes' = [notes EXCEPT ![inf] = notes[inf] \o seq]
        /\ \A o \in Watched(inf) : Mentions(seq, o) <=> cache[o] # Absent
  BY ResyncSteps
<1>2. unreported' = unreported \ {o[1] : o \in {o \in Watched(inf) : cache[o] # Absent}}
  BY DEF Resync
<1>3. /\ notes'[inf] = notes[inf] \o seq
      /\ \A k \in Informers \ {inf} : notes'[k] = notes[k]
  BY <1>1, QueueDomain DEF Typed
<1>4. notes[inf] \in Seq(NoteOf(inf))
  BY QueueOf DEF Typed
<1>5. \A o : Mentions(notes'[inf], o) <=> Mentions(notes[inf], o) \/ Mentions(seq, o)
  BY <1>3, <1>4, MentionsConcat
<1>6. \A o \in Objects : Mentions(notes[Watches(o)], o) => Mentions(notes'[Watches(o)], o)
  BY <1>3, <1>5, ObjectKinds
<1>7. CASE \E o \in Watched(inf) : o[1] = i /\ cache[o] # Absent
  <2>1. PICK o \in Watched(inf) : o[1] = i /\ cache[o] # Absent
    BY <1>7
  <2>2. o \in Objects /\ Watches(o) = inf
    BY DEF Watched
  <2> QED BY <1>1, <1>5, <2>1, <2>2 DEF Noted
<1>8. CASE \A o \in Watched(inf) : o[1] = i => cache[o] = Absent
  BY <1>2, <1>6, <1>8, NotedKept
<1> QED BY <1>7, <1>8

(* The handler that takes the last notification about an instance is told  *)
(* what the cache says.                                                    *)
LEMMA ReadNotes ==
  ASSUME Typed, InformersTrue, NEW inf \in Informers, HandlerReads(inf), NEW i \in Instances,
         Noted(i)
  PROVE  \/ Noted(i)'
         \/ /\ Head(notes[inf])[1] \in Objects /\ Head(notes[inf])[1][1] = i
            /\ Head(notes[inf])[2] = cache[Head(notes[inf])[1]]
<1> DEFINE n == Head(notes[inf])
<1>1. notes[inf] \in Seq(NoteOf(inf)) /\ notes[inf] # <<>>
  BY QueueOf DEF Typed, HandlerReads
<1>2. n \in NoteOf(inf)
  BY <1>1
<1>3. n[1] \in Watched(inf) /\ n[1] \in Objects /\ Watches(n[1]) = inf
  BY <1>2 DEF NoteOf, Watched
<1>4. /\ notes'[inf] = Tail(notes[inf])
      /\ \A k \in Informers \ {inf} : notes'[k] = notes[k]
  <2>1. notes' = [notes EXCEPT ![inf] = Tail(notes[inf])]
    BY DEF HandlerReads
  <2> QED BY <2>1, QueueDomain DEF Typed
<1>5. \A o : Mentions(notes[inf], o) <=> n[1] = o \/ Mentions(notes'[inf], o)
  BY <1>1, <1>4, MentionsTail
<1>6. CASE Mentions(notes'[inf], n[1])
  <2>1. \A o \in Objects : Mentions(notes[Watches(o)], o) => Mentions(notes'[Watches(o)], o)
    BY <1>4, <1>5, <1>6, ObjectKinds
  <2> QED BY <2>1, NotedKept
<1>7. CASE ~Mentions(notes'[inf], n[1])
  <2>1. n[2] = cache[n[1]]
    <3>1. Latest(notes[inf], n[1], cache[n[1]])
      BY <1>3 DEF InformersTrue, NotesTrue
    <3> QED BY <1>1, <1>4, <1>7, <3>1, LatestTail
  <2>2. CASE n[1][1] = i
    BY <1>3, <2>1, <2>2
  <2>3. CASE n[1][1] # i
    <3> HIDE DEF n
    <3>1. \A o \in Objects : o[1] = i /\ Mentions(notes[Watches(o)], o)
                               => Mentions(notes'[Watches(o)], o)
      BY <1>4, <1>5, <2>3, ObjectKinds
    <3> QED BY <3>1, NotedKept
  <2> QED BY <2>2, <2>3
<1> QED BY <1>6, <1>7

-----------------------------------------------------------------------------
(* What a cache says is on its way.                                        *)

(* The handlers that hold the newest event of the instance, or one that is *)
(* not known to be older.                                                  *)
Fresh(i) == Holders(i) \ older

(* A status is kept: the handlers that hold a newest event of the instance *)
(* hold it, and if there is none, no handler holds any and the status is   *)
(* on its way or has arrived, or an older event has overtaken it.          *)
Kept(i, s) ==
  /\ \A inf \in Fresh(i) : submitting[inf] = <<i, s>>
  /\ \/ Fresh(i) # {}
     \/ i \in overtaken
     \/ Holders(i) = {} /\ Pipeline(i, s)

(* For every instance the monitor has seen and whose cached Pods do not    *)
(* contradict each other, the cached status is still to be reconciled, or  *)
(* kept.                                                                   *)
Answered ==
  ~ctxDone => \A i \in tracked, s \in Statuses \ {NoStatus} :
    OnePod(cache, i) /\ s = StatusIn(cache, i) => Noted(i) \/ Kept(i, s)

(* The invariants that hold however the handlers interleave; OrderedStep   *)
(* is the only one that needs Prompt.                                      *)
KInv == MInv /\ Typed /\ InformersTrue /\ InOrder

(* Each is kept with the help of the ones before.                          *)
LEMMA CommonStep ==
  ASSUME Prompt = TRUE PROVE KInv /\ [Next]_vars => KInv'
BY MonitorStep, TypedStep, TrueStep, OrderedStep DEF KInv

(* Only a restart makes a cancelled context good again.                    *)
LEMMA StaysCancelled == [Next]_vars /\ ~Restart /\ ctxDone => ctxDone'
BY DEF Next, ClusterChanges, Disconnect, Resync, Cancel, System, Informer, Deliver, List,
   Handler, HandlerReads, HandlerSubmits, TimerExpires, CallbackRuns, Publish,
   PublishSucceeds, PublishFails, PublishAborts, Stop, StopDebouncer, Shutdown, NotOurs, vars

(* The steps of a monitor that is running and goes on running.             *)
LEMMA OthersRest ==
  ASSUME [Next]_vars, ~Restart, ~ctxDone'
  PROVE  \/ \E inf \in Informers : \/ Deliver(inf) \/ List(inf) \/ Resync(inf)
                                   \/ HandlerReads(inf) \/ HandlerSubmits(inf)
         \/ \E t \in D!Timer : TimerExpires(t) \/ CallbackRuns(t) \/ Publish(t)
         \/ \E o \in Objects : \E state \in StatesOf(o) : ClusterChanges(o, state)
         \/ /\ UNCHANGED <<objs, cache, notes, tracked, resynced, race, submitting, event,
                           published, unreported, debouncer>>
            /\ stream' \in {stream} \cup {[stream EXCEPT ![inf] = <<>>] : inf \in Informers}
<1>1. ~Cancel /\ ~StopDebouncer
  BY StaysCancelled DEF Cancel, StopDebouncer, NotOurs
<1>2. CASE Shutdown \/ UNCHANGED vars
  BY <1>2 DEF Shutdown, vars, informers, debouncer
<1>3. ASSUME NEW inf \in Informers, Disconnect(inf)
      PROVE  UNCHANGED <<objs, cache, notes, tracked, resynced, race, submitting, event,
                         published, unreported, debouncer>>
             /\ stream' = [stream EXCEPT ![inf] = <<>>]
  BY <1>3 DEF Disconnect, debouncer
<1> QED BY <1>1, <1>2, <1>3 DEF Next, System, Informer, Handler, Stop

(* Handlers that submit, timers, callbacks and publishing pass a status    *)
(* on.                                                                     *)
LEMMA PipelineMoves ==
  ASSUME KInv, Prompt = TRUE, ~ctxDone, NEW i \in Instances, NEW s, Pipeline(i, s),
         \/ \E inf \in Informers : HandlerSubmits(inf)
         \/ \E t \in D!Timer : TimerExpires(t) \/ CallbackRuns(t) \/ Publish(t)
  PROVE  Pipeline(i, s)'
BY PipelineSubmits, PipelineRuns, PipelinePublishes DEF KInv

(* A handler that reads a status, or reads of another instance, keeps it   *)
(* on its way.                                                             *)
LEMMA ReadAnswers ==
  ASSUME KInv, NEW inf \in Informers, HandlerReads(inf), NEW i \in Instances,
         NEW s \in Statuses \ {NoStatus}, Says(i, s),
         Head(notes[inf])[1][1] = i =>
           Reconciled(Head(notes[inf])[1], Head(notes[inf])[2]) \in {s} \cup
             (IF Pipeline(i, s) THEN {NoStatus} ELSE {}),
         Head(notes[inf])[1][1] # i => Pipeline(i, s)
  PROVE  Pipeline(i, s)'
<1> DEFINE n == Head(notes[inf])
           w == Reconciled(n[1], n[2])
           e == IF w = NoStatus THEN <<>> ELSE <<n[1][1], w>>
<1>1. /\ submitting[inf] = <<>> /\ submitting' = [submitting EXCEPT ![inf] = e]
      /\ UNCHANGED <<event, published, unreported, debouncer>>
  BY HandlerTakes DEF KInv, Typed, HandlerReads
<1>2. n[1][1] = i => w = s \/ (w = NoStatus /\ Pipeline(i, s))
  OBVIOUS
<1>3. (Pipeline(i, s) /\ (e = <<>> \/ e[1] # i)) \/ (Says(i, s) /\ e = <<i, s>>)
  <2> HIDE DEF w, n
  <2>1. CASE n[1][1] = i
    BY <1>2, <2>1
  <2>2. CASE n[1][1] # i
    BY <2>2 DEF n
  <2> QED BY <2>1, <2>2
<1> HIDE DEF e
<1> QED BY <1>1, <1>3, PipelineReads DEF KInv

(* The handler of the last notification of an instance computes its cached *)
(* status; before that the instance stays noted.                           *)
LEMMA ReadStep ==
  ASSUME KInv, NEW inf \in Informers, HandlerReads(inf), NEW i \in Instances,
         NEW s \in Statuses \ {NoStatus}, Says(i, s), OnePod(cache, i), s = StatusIn(cache, i),
         Noted(i) \/ Pipeline(i, s)
  PROVE  Noted(i)' \/ Pipeline(i, s)'
<1> DEFINE n == Head(notes[inf])
<1>1. CASE Noted(i) /\ ~Noted(i)'
  <2>1. n[1] \in Objects /\ n[1][1] = i /\ n[2] = cache[n[1]]
    BY <1>1, ReadNotes DEF KInv
  <2>2. Reconciled(n[1], n[2]) = s
    BY <2>1, ReconcilesCache DEF KInv, Typed
  <2> QED BY <2>1, <2>2, ReadAnswers
<1>2. CASE ~Noted(i)
  <2>1. n[1][1] # i
    <3>1. notes[inf] \in Seq(NoteOf(inf)) /\ notes[inf] # <<>>
      BY QueueOf DEF KInv, Typed, HandlerReads
    <3>2. n \in NoteOf(inf) /\ Mentions(notes[inf], n[1])
      BY <3>1, MentionsTail
    <3>3. n[1] \in Objects /\ Watches(n[1]) = inf
      BY <3>2 DEF NoteOf, Watched
    <3> QED BY <1>2, <3>2, <3>3 DEF Noted
  <2> QED BY <1>2, <2>1, ReadAnswers
<1> QED BY <1>1, <1>2

(* A step that does not touch the events of the instance keeps it.         *)
LEMMA KeptRests ==
  ASSUME NEW i \in Instances, NEW s, Kept(i, s),
         UNCHANGED <<submitting, event, published, debouncer, race>>,
         i \in unreported => i \in unreported'
  PROVE  Kept(i, s)'
<1>1. Fresh(i)' = Fresh(i) /\ Holders(i)' = Holders(i) /\ UNCHANGED <<submitting, overtaken>>
  BY DEF Fresh, Holders, race
<1>2. Pipeline(i, s) => Pipeline(i, s)'
  BY PipelineRests
<1> QED BY <1>1, <1>2 DEF Kept

(* The handler that takes the last notification of an instance holds the   *)
(* newest event of it from then on; one that takes a notification of       *)
(* another instance does not disturb it.                                   *)
LEMMA KeptReads ==
  ASSUME KInv, ~ctxDone, NEW inf \in Informers, HandlerReads(inf), NEW i \in Instances,
         NEW s \in Statuses \ {NoStatus}, OnePod(cache, i), s = StatusIn(cache, i),
         Noted(i) \/ Kept(i, s)
  PROVE  Noted(i)' \/ Kept(i, s)'
<1> DEFINE n == Head(notes[inf])
           w == Reconciled(n[1], n[2])
           e == IF w = NoStatus THEN <<>> ELSE <<n[1][1], w>>
<1>1. /\ submitting[inf] = <<>> /\ submitting' = [submitting EXCEPT ![inf] = e]
      /\ overtaken' = overtaken
      /\ older' = IF w = NoStatus THEN older ELSE older \cup Holders(n[1][1])
      /\ UNCHANGED <<event, published, unreported, debouncer>>
  BY HandlerTakes DEF KInv, Typed, HandlerReads
<1>2. submitting'[inf] = e /\ \A k \in Informers \ {inf} : submitting'[k] = submitting[k]
  BY <1>1 DEF KInv, Typed
<1>3. inf \notin older
  BY <1>1 DEF KInv, Typed
<1>4. CASE Noted(i) /\ ~Noted(i)'
  <2>1. n[1] \in Objects /\ n[1][1] = i /\ n[2] = cache[n[1]]
    BY <1>4, ReadNotes DEF KInv
  <2>2. w = s
    BY <2>1, ReconcilesCache DEF KInv, Typed
  <2>3. e = <<i, s>> /\ older' = older \cup Holders(i)
    BY <1>1, <2>1, <2>2
  <2> HIDE DEF e, w, n
  <2>4. Holders(i)' = Holders(i) \cup {inf} /\ inf \notin Holders(i)
    BY <1>1, <1>2, <2>3 DEF Holders
  <2>5. Fresh(i)' = {inf}
    BY <1>3, <2>3, <2>4 DEF Fresh
  <2> QED BY <1>2, <2>3, <2>5 DEF Kept
<1>5. CASE ~Noted(i)
  <2>1. n[1][1] # i
    <3>1. notes[inf] \in Seq(NoteOf(inf)) /\ notes[inf] # <<>>
      BY QueueOf DEF KInv, Typed, HandlerReads
    <3>2. n \in NoteOf(inf) /\ Mentions(notes[inf], n[1])
      BY <3>1, MentionsTail
    <3>3. n[1] \in Objects /\ Watches(n[1]) = inf
      BY <3>2 DEF NoteOf, Watched
    <3> QED BY <1>5, <3>2, <3>3 DEF Noted
  <2>2. e = <<>> \/ e[1] # i
    BY <2>1
  <2>3. Pipeline(i, s) => Pipeline(i, s)'
    <3> HIDE DEF e
    <3> QED BY <1>1, <2>2, PipelineReads DEF KInv
  <2>4. older' \in {older, older \cup Holders(n[1][1])}
    BY <1>1
  <2> HIDE DEF e, w, n
  <2>5. Holders(i)' = Holders(i) /\ inf \notin Holders(i)
    BY <1>1, <1>2, <2>2 DEF Holders
  <2>6. Fresh(i)' = Fresh(i)
    BY <2>1, <2>4, <2>5 DEF Fresh, Holders
  <2>7. \A k \in Fresh(i) : submitting'[k] = submitting[k]
    BY <1>2, <2>5 DEF Fresh, Holders
  <2> QED BY <1>1, <1>5, <2>3, <2>5, <2>6, <2>7 DEF Kept
<1> QED BY <1>4, <1>5

(* A handler that submits a newest event hands it to the newest timer, or, *)
(* if another handler holds an older one, is overtaken by that; one that   *)
(* submits an older event overtakes nothing that is not marked.            *)
LEMMA KeptSubmits ==
  ASSUME KInv, Prompt = TRUE, ~ctxDone, NEW i \in Instances, NEW s, Kept(i, s),
         NEW inf \in Informers, HandlerSubmits(inf)
  PROVE  Kept(i, s)'
<1>1. /\ submitting[inf] # <<>> /\ submitting' = [submitting EXCEPT ![inf] = <<>>]
      /\ older' = older \ {inf}
      /\ overtaken' = IF inf \in older THEN overtaken
                      ELSE IF Holders(submitting[inf][1]) \cap older # {}
                             THEN overtaken \cup {submitting[inf][1]}
                      ELSE overtaken \ {submitting[inf][1]}
  BY DEF HandlerSubmits
<1>2. submitting'[inf] = <<>> /\ \A k \in Informers \ {inf} : submitting'[k] = submitting[k]
  BY <1>1 DEF KInv, Typed
<1>3. Holders(i)' = Holders(i) \ {inf}
  BY <1>2 DEF Holders
<1>4. Fresh(i)' = Fresh(i) \ {inf}
  BY <1>1, <1>3 DEF Fresh
<1>5. \A k \in Fresh(i)' : submitting'[k] = <<i, s>>
  BY <1>2, <1>4 DEF Kept, Fresh, Holders
<1>6. Pipeline(i, s) => Pipeline(i, s)'
  BY PipelineMoves
<1>7. CASE inf \in older
  <2>1. Fresh(i)' = Fresh(i) /\ overtaken' = overtaken
    BY <1>1, <1>4, <1>7 DEF Fresh
  <2>2. Holders(i) = {} => Holders(i)' = {}
    BY <1>3
  <2> QED BY <1>5, <1>6, <2>1, <2>2 DEF Kept
<1>8. CASE inf \notin older /\ submitting[inf][1] # i
  <2>1. inf \notin Holders(i) /\ inf \notin Fresh(i)
    BY <1>8 DEF Holders, Fresh
  <2>2. Fresh(i)' = Fresh(i) /\ Holders(i)' = Holders(i)
    BY <1>3, <1>4, <2>1
  <2>3. i \in overtaken => i \in overtaken'
    BY <1>1, <1>8
  <2> QED BY <1>5, <1>6, <2>2, <2>3 DEF Kept
<1>9. CASE inf \notin older /\ submitting[inf][1] = i
  <2>1. inf \in Fresh(i) /\ submitting[inf] = <<i, s>>
    BY <1>1, <1>9 DEF Kept, Fresh, Holders
  <2>2. CASE Holders(i) \cap older # {}
    <3>1. i \in overtaken'
      BY <1>1, <1>9, <2>2
    <3> QED BY <1>5, <3>1 DEF Kept
  <2>3. CASE Holders(i) \cap older = {}
    <3>1. Fresh(i) = Holders(i)
      BY <2>3 DEF Fresh
    <3>2. Says(i, s)
      BY <3>1 DEF Kept, Says, Holders
    <3>3. Pipeline(i, s)
      BY <2>1, <3>2 DEF Pipeline
    <3>4. Fresh(i)' = {} => Holders(i)' = {}
      BY <1>3, <1>4, <3>1
    <3> QED BY <1>5, <1>6, <3>3, <3>4 DEF Kept
  <2> QED BY <2>2, <2>3
<1> QED BY <1>7, <1>8, <1>9

(* Timers, callbacks and publishing pass a status on.                      *)
LEMMA KeptMoves ==
  ASSUME KInv, Prompt = TRUE, ~ctxDone, NEW i \in Instances, NEW s, Kept(i, s),
         NEW t \in D!Timer, TimerExpires(t) \/ CallbackRuns(t) \/ Publish(t)
  PROVE  Kept(i, s)'
<1>1. UNCHANGED <<submitting, older, overtaken>>
  BY DEF TimerExpires, CallbackRuns, Publish, PublishSucceeds, PublishFails, PublishAborts,
     NotOurs, race
<1>2. Fresh(i)' = Fresh(i) /\ Holders(i)' = Holders(i)
  BY <1>1 DEF Fresh, Holders
<1>3. Pipeline(i, s) => Pipeline(i, s)'
  BY PipelineMoves
<1> QED BY <1>1, <1>2, <1>3 DEF Kept

(* With Prompt every step keeps Answered, however the handlers interleave. *)
LEMMA AnsweredStep ==
  ASSUME Prompt = TRUE
  PROVE  KInv /\ Answered /\ [Next]_vars => Answered'
<1> SUFFICES ASSUME KInv, Answered, [Next]_vars, ~ctxDone', NEW i \in tracked',
                    NEW s \in Statuses \ {NoStatus}, OnePod(cache', i), s = StatusIn(cache', i)
             PROVE  Noted(i)' \/ Kept(i, s)'
  BY DEF Answered
<1>1. CASE Restart
  BY <1>1 DEF Restart
<1> SUFFICES ASSUME ~Restart PROVE Noted(i)' \/ Kept(i, s)'
  BY <1>1
<1>2. ~ctxDone
  BY StaysCancelled
<1>3. i \in Instances
  BY TypedStep DEF KInv, Typed
<1>4. ASSUME \A o \in Objects : o[1] = i => cache'[o] = cache[o],
             tracked' \cap {i} = tracked \cap {i}
      PROVE  OnePod(cache, i) /\ s = StatusIn(cache, i) /\ (Noted(i) \/ Kept(i, s))
  <2>1. OnePod(cache, i) /\ s = StatusIn(cache, i)
    BY <1>3, <1>4, SameStatus
  <2>2. i \in tracked
    BY <1>4
  <2> QED BY <1>2, <2>1, <2>2 DEF Answered
<1>5. ASSUME UNCHANGED <<cache, notes, tracked>>
      PROVE  Noted(i)' \/ Kept(i, s)
  <2>1. Noted(i) \/ Kept(i, s)
    BY <1>4, <1>5
  <2> QED BY <1>5, <2>1 DEF Noted
<1>6. ASSUME NEW inf \in Informers, Deliver(inf) \/ List(inf) PROVE Noted(i)' \/ Kept(i, s)'
  <2>1. CASE Noted(i)'
    BY <2>1
  <2>2. CASE /\ ~Noted(i) /\ tracked' \cap {i} = tracked \cap {i}
             /\ \A o \in Objects : o[1] = i => cache'[o] = cache[o]
    <3>1. Kept(i, s)
      BY <1>4, <2>2
    <3>2. UNCHANGED <<submitting, event, published, unreported, debouncer, race>>
      BY <1>6 DEF Deliver, List
    <3> QED BY <1>3, <3>1, <3>2, KeptRests
  <2> QED BY <1>3, <1>6, <2>1, <2>2, DeliverNotes, ListNotes DEF KInv
<1>7. ASSUME NEW inf \in Informers, Resync(inf) PROVE Noted(i)' \/ Kept(i, s)'
  <2>1. UNCHANGED <<cache, tracked, submitting, event, published, debouncer, race>>
    BY <1>7 DEF Resync
  <2>2. Noted(i)' \/ (~Noted(i) /\ (i \in unreported => i \in unreported'))
    BY <1>3, <1>7, ResyncNotes DEF KInv
  <2>3. Noted(i) \/ Kept(i, s)
    BY <1>4, <2>1
  <2> QED BY <1>3, <2>1, <2>2, <2>3, KeptRests
<1>8. ASSUME NEW inf \in Informers, HandlerReads(inf) PROVE Noted(i)' \/ Kept(i, s)'
  <2>1. UNCHANGED <<cache, tracked>>
    BY <1>8 DEF HandlerReads
  <2>2. OnePod(cache, i) /\ s = StatusIn(cache, i) /\ (Noted(i) \/ Kept(i, s))
    BY <1>4, <2>1
  <2>3. ~ctxDone
    BY <1>8 DEF HandlerReads
  <2> QED BY <1>3, <1>8, <2>2, <2>3, KeptReads
<1>9. CASE \/ \E inf \in Informers : HandlerSubmits(inf)
           \/ \E t \in D!Timer : TimerExpires(t) \/ CallbackRuns(t) \/ Publish(t)
  <2>1. UNCHANGED <<cache, notes, tracked>>
    BY <1>9 DEF HandlerSubmits, informers, TimerExpires, CallbackRuns, Publish,
       PublishSucceeds, PublishFails, PublishAborts, NotOurs
  <2> QED BY <1>2, <1>3, <1>5, <1>9, <2>1, KeptSubmits, KeptMoves
<1>10. ASSUME UNCHANGED <<cache, notes, tracked, race, submitting, event, published, unreported,
                          debouncer>>
       PROVE  Noted(i)' \/ Kept(i, s)'
  BY <1>3, <1>5, <1>10, KeptRests
<1>11. ASSUME NEW o \in Objects, NEW state \in StatesOf(o), ClusterChanges(o, state)
       PROVE  Noted(i)' \/ Kept(i, s)'
  BY <1>10, <1>11 DEF ClusterChanges
<1> QED BY <1>6, <1>7, <1>8, <1>9, <1>10, <1>11, OthersRest

-----------------------------------------------------------------------------
(* Once nothing is on its way, what was published last is true.            *)

(* A status that is no longer on its way has been published or dropped.    *)
LEMMA PipelineSettles ==
  ASSUME NEW i \in Instances, NEW s, Pipeline(i, s), Settled
  PROVE  published[i] = s \/ i \in unreported
<1>1. \A inf \in Informers : submitting[inf] # <<i, s>>
  BY DEF Settled, Delivered
<1>2. \A t \in D!Timer : phase[t] \notin Active
  BY DEF Settled, Active
<1> QED BY <1>1, <1>2 DEF Pipeline

(* When everything is delivered and handled, the caches are the cluster.   *)
LEMMA DeliveredShows ==
  ASSUME Typed, InformersTrue, Delivered
  PROVE  cache = objs /\ \A i : ~Noted(i)
<1>1. \A o \in Objects : cache[o] = objs[o]
  <2> TAKE o \in Objects
  <2>1. Watches(o) \in Informers /\ o \in Watched(Watches(o))
    BY ObjectKinds
  <2>2. ~Mentions(stream[Watches(o)], o)
    BY <2>1, EmptySays DEF Delivered
  <2> QED BY <2>1, <2>2 DEF Delivered, InformersTrue, StreamTrue
<1>2. \A i : ~Noted(i)
  BY EmptySays, ObjectKinds DEF Noted, Delivered
<1> QED BY <1>1, <1>2 DEF Typed, IsCluster

(* Then what was published last is the truth.                              *)
LEMMA SettledAgrees ==
  ASSUME KInv, Answered, Settled, NEW i \in UpToDate, OnePod(objs, i)
  PROVE  Agrees(i)
<1>1. cache = objs /\ ~Noted(i)
  BY DeliveredShows DEF KInv, Settled
<1>2. i \in Instances /\ i \in tracked /\ i \notin unreported /\ i \notin overtaken
  BY DEF UpToDate, KInv, Typed
<1>3. TrueStatus(i) = StatusIn(cache, i)
  BY <1>1 DEF TrueStatus, StatusIn
<1>4. TrueStatus(i) \in Statuses
  BY <1>2, PhaseFound, StatusType DEF TrueStatus, KInv, Typed
<1>5. CASE TrueStatus(i) # NoStatus
  <2> DEFINE s == TrueStatus(i)
  <2>1. Kept(i, s)
    BY <1>1, <1>2, <1>3, <1>4, <1>5 DEF Answered, Settled
  <2>2. Fresh(i) = {}
    BY DEF Settled, Delivered, Fresh, Holders
  <2>3. Pipeline(i, s)
    BY <1>2, <2>1, <2>2 DEF Kept
  <2>4. published[i] = s
    BY <1>2, <2>3, PipelineSettles
  <2> QED BY <2>4 DEF Agrees
<1> QED BY <1>5 DEF Agrees

(* REQ-MON-050 to 070, where Pods do not contradict each other: once       *)
(* nothing is on its way the last status published of an instance the      *)
(* monitor has seen is that of the cluster, unless its newest event was    *)
(* dropped after its last retry or an older one was submitted after it.    *)
ReportsTruth ==
  Settled => \A i \in UpToDate : OnePod(objs, i) => Agrees(i)

(* It is what enrichFromCluster shows, too: PENDING of a healthy           *)
(* Deployment without Pods, the phase of an only Pod.                      *)
LEMMA TruthIsShown == MInv /\ Typed /\ ReportsTruth => ShownAsPublished
<1> SUFFICES ASSUME Typed, ReportsTruth, Settled, NEW i \in UpToDate,
                    LookupDeployment(objs, i) # Absent,
                    LookupDeployment(objs, i) = "failing" => LookupPod(objs, i) # Absent
             PROVE  ShownStatus(i) \in {NoStatus, "conflict", published[i]}
  BY DEF ShownAsPublished
<1> DEFINE present == {p \in Pods : objs[<<i, p>>] # Absent}
<1>1. i \in Instances /\ IsCluster(objs)
  BY DEF Typed, UpToDate
<1>2. IsFiniteSet(present)
  BY FS_Subset, MonitorAssumption
<1>3. Cardinality(present) \in Nat /\ (Cardinality(present) = 0 <=> present = {})
  BY <1>2, FS_CardinalityType, FS_EmptySet
<1>4. CASE present = {}
  <2>1. LookupPod(objs, i) = Absent
    BY <1>1, <1>4, PhaseFound
  <2>2. LookupDeployment(objs, i) = "healthy"
    BY <1>1, <2>1, PhaseFound DEF DeploymentStates
  <2>3. TrueStatus(i) = "PENDING"
    BY <2>1, <2>2 DEF TrueStatus, ReconcileStatus, Absent
  <2>4. OnePod(objs, i)
    BY <1>4 DEF OnePod
  <2>5. published[i] = "PENDING"
    BY <2>3, <2>4 DEF ReportsTruth, Agrees, NoStatus
  <2>6. ShownStatus(i) = "PENDING"
    <3>1. Cardinality(present) = 0
      BY <1>3, <1>4
    <3> QED BY <1>4, <3>1 DEF ShownStatus
  <2> QED BY <2>5, <2>6
<1>5. CASE Cardinality(present) = 1
  <2>1. PICK p : present = {p}
    BY <1>2, <1>5, FS_Singleton
  <2>2. OnePod(objs, i)
    BY <2>1 DEF OnePod
  <2>3. LookupPod(objs, i) # Absent
    BY <1>1, <2>1, PhaseFound
  <2>4. TrueStatus(i) = StatusOfPhase[LookupPod(objs, i)]
    BY <2>3 DEF TrueStatus, ReconcileStatus
  <2>5. TrueStatus(i) \in {NoStatus, published[i]}
    BY <2>2 DEF ReportsTruth, Agrees
  <2>6. ShownStatus(i) = StatusOfPhase[LookupPod(objs, i)]
    <3>1. present # {}
      BY <2>1
    <3> QED BY <1>5, <3>1 DEF ShownStatus
  <2> QED BY <2>4, <2>5, <2>6
<1>6. CASE Cardinality(present) > 1
  <2>1. present # {} /\ Cardinality(present) # 1
    BY <1>3, <1>6
  <2>2. ShownStatus(i) = "conflict"
    BY <1>6, <2>1 DEF ShownStatus
  <2> QED BY <2>2
<1> QED BY <1>3, <1>4, <1>5, <1>6

(* The invariants hold at first.                                           *)
LEMMA KInit == Init => KInv /\ Answered
BY MonitorStart, TypedInit, TrueInit, OrderedInit DEF KInv, Answered, Init

(* The monitor reports the truth (internal/monitoring: informers,          *)
(* handlers, debouncer and publishWithRetry together), whatever changes,   *)
(* broken watches, crashes and failed publishes came before and however    *)
(* the handlers of the two informers interleave, of every instance whose   *)
(* newest event was submitted last and was not dropped.  It is assumed     *)
(* that callbacks end before the instance's next timer expires (Prompt).   *)
THEOREM TruthReported ==
  ASSUME Prompt = TRUE PROVE Spec => []ReportsTruth
<1>1. KInv /\ Answered /\ [Next]_vars => KInv' /\ Answered'
  BY CommonStep, AnsweredStep
<1>2. KInv /\ Answered => ReportsTruth
  BY SettledAgrees DEF ReportsTruth
<1> QED BY <1>1, <1>2, KInit, PTL DEF Spec

(* Under the same condition, and of the same instances, clients who read   *)
(* (enrichFromCluster) and subscribers who listen are told the same.       *)
THEOREM ReadersSeeWhatIsPublished ==
  ASSUME Prompt = TRUE PROVE Spec => []ShownAsPublished
<1>1. KInv /\ Answered /\ [Next]_vars => KInv' /\ Answered'
  BY CommonStep, AnsweredStep
<1>2. KInv /\ Answered => ShownAsPublished
  BY SettledAgrees, TruthIsShown DEF ReportsTruth, KInv
<1> QED BY <1>1, <1>2, KInit, PTL DEF Spec

-----------------------------------------------------------------------------
(* A resync repairs, however the handlers interleave.                      *)

(* Every pair of a queue says of its object what f does, not just the      *)
(* last.                                                                   *)
AllSay(seq, f) == \A k \in 1 .. Len(seq) : seq[k][2] = f[seq[k][1]]

(* So does every notification that waits.                                  *)
Repeats(f) == \A inf \in Informers : AllSay(notes[inf], f)

(* Since a resync of a quiet cluster the caches are right, nothing that is *)
(* said of a one-Pod instance is out of date, and what the resyncs         *)
(* repeated is noted or on its way. Handlers may interleave: they all say  *)
(* the same.                                                               *)
Repaired ==
  resynced # {} /\ ~ctxDone =>
    /\ cache = objs /\ stream = Empty /\ Repeats(objs)
    /\ \A i \in Instances, s \in Statuses :
         OnePod(objs, i) /\ s = StatusIn(objs, i) => Says(i, s)
    /\ \A o \in Objects, s \in Statuses \ {NoStatus} :
         /\ Watches(o) \in resynced /\ objs[o] # Absent
         /\ OnePod(objs, o[1]) /\ s = StatusIn(objs, o[1])
         => Noted(o[1]) \/ Pipeline(o[1], s)

(* Two queues that agree with f agree with it one after the other.         *)
LEMMA ConcatRepeats ==
  ASSUME NEW T, NEW s \in Seq(T), NEW u \in Seq(T), NEW f,
         AllSay(s, f), AllSay(u, f)
  PROVE  AllSay(s \o u, f)
<1>1. /\ Len(s \o u) = Len(s) + Len(u)
      /\ \A k \in 1 .. Len(s) : (s \o u)[k] = s[k]
      /\ \A k \in 1 .. Len(u) : (s \o u)[Len(s) + k] = u[k]
      /\ Len(s) \in Nat /\ Len(u) \in Nat
  OBVIOUS
<1> SUFFICES ASSUME NEW k \in 1 .. Len(s \o u)
             PROVE  (s \o u)[k][2] = f[(s \o u)[k][1]]
  BY DEF AllSay
<1>2. CASE k \in 1 .. Len(s)
  BY <1>1, <1>2 DEF AllSay
<1>3. CASE k - Len(s) \in 1 .. Len(u)
  <2>1. k = Len(s) + (k - Len(s))
    BY <1>1
  <2>2. (s \o u)[k] = u[k - Len(s)]
    BY <1>1, <1>3, <2>1
  <2> QED BY <1>3, <2>2 DEF AllSay
<1> QED BY <1>1, <1>2, <1>3

(* Handlers that agree still do when one of them has submitted.            *)
LEMMA SaysKept ==
  ASSUME Typed, NEW i \in Instances, NEW s, Says(i, s),
         \/ UNCHANGED submitting
         \/ \E inf \in Informers : submitting' = [submitting EXCEPT ![inf] = <<>>]
  PROVE  Says(i, s)'
<1>1. CASE UNCHANGED submitting
  BY <1>1 DEF Says
<1>2. ASSUME NEW inf \in Informers, submitting' = [submitting EXCEPT ![inf] = <<>>]
      PROVE  Says(i, s)'
  BY <1>2 DEF Says, Typed
<1> QED BY <1>1, <1>2

(* A step of a handler that submits, of a timer or of a callback keeps it, *)
(* ...                                                                     *)
LEMMA RepairedKept ==
  ASSUME KInv, Repaired, Prompt = TRUE, ~ctxDone,
         UNCHANGED <<objs, cache, notes, stream, resynced>>,
         \/ UNCHANGED <<submitting, event, published, unreported, debouncer>>
         \/ \E inf \in Informers : HandlerSubmits(inf)
         \/ \E t \in D!Timer : TimerExpires(t) \/ CallbackRuns(t) \/ Publish(t)
  PROVE  Repaired'
<1> SUFFICES ASSUME resynced # {} PROVE Repaired'
  BY DEF Repaired
<1>1. Repeats(objs)'
  BY DEF Repaired, Repeats
<1>2. \/ UNCHANGED submitting
      \/ \E inf \in Informers : submitting' = [submitting EXCEPT ![inf] = <<>>]
  BY DEF HandlerSubmits, TimerExpires, CallbackRuns, Publish, PublishSucceeds, PublishFails,
     PublishAborts, NotOurs
<1>3. ASSUME NEW i \in Instances, NEW s \in Statuses, OnePod(objs', i), s = StatusIn(objs', i)
      PROVE  Says(i, s)'
  <2>1. OnePod(objs, i) /\ s = StatusIn(objs, i)
    BY <1>3
  <2> QED BY <1>2, <2>1, SaysKept DEF Repaired, KInv
<1>4. ASSUME NEW o \in Objects, NEW s \in Statuses \ {NoStatus}, Watches(o) \in resynced,
             objs[o] # Absent, OnePod(objs', o[1]), s = StatusIn(objs', o[1])
      PROVE  Noted(o[1])' \/ Pipeline(o[1], s)'
  <2>1. Noted(o[1]) \/ Pipeline(o[1], s)
    BY <1>4 DEF Repaired
  <2>2. o[1] \in Instances
    BY ObjectKinds
  <2>3. CASE Noted(o[1])
    BY <2>3 DEF Noted
  <2>4. CASE Pipeline(o[1], s)
    BY <2>2, <2>4, PipelineRests, PipelineMoves
  <2> QED BY <2>1, <2>3, <2>4
<1> QED BY <1>1, <1>3, <1>4 DEF Repaired

(* ... as does a list, of a cluster the caches are right about, ...        *)
LEMMA RepairedList ==
  ASSUME KInv, Repaired, NEW inf \in Informers, List(inf)
  PROVE  Repaired'
<1> SUFFICES ASSUME resynced # {}, ~ctxDone PROVE Repaired'
  BY DEF List, Repaired
<1>1. /\ UNCHANGED <<objs, stream, submitting, event, published, unreported, resynced, debouncer>>
      /\ cache = objs
  BY DEF List, Repaired
<1>2. PICK here \in Seq(NoteOf(inf)), left \in Seq(NoteOf(inf)) :
        /\ notes' = [notes EXCEPT ![inf] = notes[inf] \o here \o left]
        /\ AllSay(here, objs) /\ AllSay(left, objs)
  BY ListSteps DEF KInv, AllSay
<1>3. cache' = objs'
  <2>1. \A o \in Objects : cache'[o] = objs[o]
    BY <1>1, ListSteps DEF KInv
  <2> QED BY <1>1, <2>1 DEF List, KInv, Typed, IsCluster
<1>4. Repeats(objs)'
  <2>1. /\ notes'[inf] = (notes[inf] \o here) \o left
        /\ \A k \in Informers \ {inf} : notes'[k] = notes[k]
    BY <1>2, QueueDomain DEF KInv, Typed
  <2>2. notes[inf] \in Seq(NoteOf(inf))
    BY QueueOf DEF KInv, Typed
  <2>3. notes[inf] \o here \in Seq(NoteOf(inf))
    BY <2>2
  <2>4. \A k \in Informers : AllSay(notes[k], objs)
    BY DEF Repaired, Repeats
  <2>5. AllSay(notes[inf] \o here, objs)
    BY <1>2, <2>2, <2>4, ConcatRepeats
  <2>6. AllSay((notes[inf] \o here) \o left, objs)
    BY <1>2, <2>3, <2>5, ConcatRepeats
  <2>7. \A k \in Informers : AllSay(notes'[k], objs)
    BY <2>1, <2>4, <2>6
  <2> QED BY <1>1, <2>7 DEF Repeats
<1>5. ASSUME NEW i \in Instances, NEW s \in Statuses, OnePod(objs', i), s = StatusIn(objs', i)
      PROVE  Says(i, s)'
  <2>1. OnePod(objs, i) /\ s = StatusIn(objs, i)
    BY <1>1, <1>5
  <2> QED BY <1>1, <2>1, SaysKept DEF Repaired, KInv
<1>6. ASSUME NEW o \in Objects, NEW s \in Statuses \ {NoStatus}, Watches(o) \in resynced,
             objs[o] # Absent, OnePod(objs', o[1]), s = StatusIn(objs', o[1])
      PROVE  Noted(o[1])' \/ Pipeline(o[1], s)'
  <2>1. Noted(o[1]) \/ Pipeline(o[1], s)
    BY <1>1, <1>6 DEF Repaired
  <2>2. o[1] \in Instances
    BY ObjectKinds
  <2>3. Noted(o[1])' \/ ~Noted(o[1])
    BY <2>2, ListNotes DEF KInv
  <2> QED BY <1>1, <2>1, <2>2, <2>3, PipelineRests
<1> QED BY <1>1, <1>3, <1>4, <1>5, <1>6 DEF Repaired

(* ... the resync it starts with, on a monitor that had delivered          *)
(* everything, and those that follow, ...                                  *)
LEMMA RepairedResync ==
  ASSUME KInv, Repaired, NEW inf \in Informers, Resync(inf)
  PROVE  Repaired'
<1>1. /\ UNCHANGED <<objs, cache, stream, submitting, event, published, debouncer>>
      /\ resynced' = IF resynced # {} \/ Delivered THEN resynced \cup {inf} ELSE resynced
      /\ ~ctxDone
  BY DEF Resync
<1> SUFFICES ASSUME resynced # {} \/ Delivered PROVE Repaired'
  BY <1>1 DEF Repaired
<1>2. cache = objs /\ stream = Empty /\ Repeats(objs)
  <2>1. CASE Delivered
    <3>1. cache = objs
      BY <2>1, DeliveredShows DEF KInv
    <3>2. stream = Empty
      BY <2>1 DEF Delivered, Empty, KInv, Typed, AreQueues
    <3>3. Repeats(objs)
      BY <2>1 DEF Delivered, Repeats, AllSay
    <3> QED BY <3>1, <3>2, <3>3
  <2> QED BY <1>1, <2>1 DEF Repaired
<1>3. \A i \in Instances, s \in Statuses :
        OnePod(objs, i) /\ s = StatusIn(objs, i) => Says(i, s)
  <2>1. CASE Delivered
    BY <2>1 DEF Delivered, Says
  <2> QED BY <1>1, <2>1 DEF Repaired
<1>4. PICK seq \in Seq(NoteOf(inf)) :
        /\ notes' = [notes EXCEPT ![inf] = notes[inf] \o seq]
        /\ AllSay(seq, cache)
  BY ResyncSteps DEF KInv, AllSay
<1>5. Repeats(objs)'
  <2>1. /\ notes'[inf] = notes[inf] \o seq
        /\ \A k \in Informers \ {inf} : notes'[k] = notes[k]
    BY <1>4, QueueDomain DEF KInv, Typed
  <2>2. notes[inf] \in Seq(NoteOf(inf))
    BY QueueOf DEF KInv, Typed
  <2>3. \A k \in Informers : AllSay(notes[k], objs)
    BY <1>2 DEF Repeats
  <2>4. AllSay(notes[inf] \o seq, objs)
    BY <1>2, <1>4, <2>2, <2>3, ConcatRepeats
  <2>5. \A k \in Informers : AllSay(notes'[k], objs)
    BY <2>1, <2>3, <2>4
  <2> QED BY <1>1, <2>5 DEF Repeats
<1>6. ASSUME NEW i \in Instances, NEW s \in Statuses, OnePod(objs', i), s = StatusIn(objs', i)
      PROVE  Says(i, s)'
  <2>1. OnePod(objs, i) /\ s = StatusIn(objs, i)
    BY <1>1, <1>6
  <2> QED BY <1>1, <1>3, <2>1, SaysKept DEF KInv
<1>7. ASSUME NEW o \in Objects, NEW s \in Statuses \ {NoStatus}, Watches(o) \in resynced',
             objs[o] # Absent, OnePod(objs', o[1]), s = StatusIn(objs', o[1])
      PROVE  Noted(o[1])' \/ Pipeline(o[1], s)'
  <2>1. o[1] \in Instances
    BY ObjectKinds
  <2>2. \/ Noted(o[1])'
        \/ /\ ~Noted(o[1]) /\ (o[1] \in unreported => o[1] \in unreported')
           /\ Watches(o) # inf
    BY <1>2, <1>7, <2>1, ObjectKinds, ResyncNotes DEF KInv
  <2>3. CASE Watches(o) # inf
    <3>1. Watches(o) \in resynced
      BY <1>1, <1>7, <2>3
    <3>2. Noted(o[1]) \/ Pipeline(o[1], s)
      BY <1>1, <1>7, <3>1 DEF Repaired
    <3> QED BY <1>1, <2>1, <2>2, <3>2, PipelineRests
  <2> QED BY <2>2, <2>3
<1> QED BY <1>1, <1>2, <1>5, <1>6, <1>7 DEF Repaired

(* ... and a handler, whatever the other is doing meanwhile: with the      *)
(* caches right and no stale notification both compute the same.           *)
LEMMA RepairedReads ==
  ASSUME KInv, Repaired, NEW inf \in Informers, HandlerReads(inf)
  PROVE  Repaired'
<1>1. UNCHANGED <<objs, stream, cache, resynced, ctxDone>>
  BY DEF HandlerReads
<1> SUFFICES ASSUME resynced # {}, ~ctxDone PROVE Repaired'
  BY <1>1 DEF Repaired
<1> DEFINE n == Head(notes[inf])
           w == Reconciled(n[1], n[2])
           e == IF w = NoStatus THEN <<>> ELSE <<n[1][1], w>>
<1>2. cache = objs /\ stream = Empty /\ Repeats(objs)
  BY DEF Repaired
<1>3. notes[inf] \in Seq(NoteOf(inf)) /\ notes[inf] # <<>>
  BY QueueOf DEF KInv, Typed, HandlerReads
<1>4. n \in NoteOf(inf) /\ n = notes[inf][1] /\ 1 \in 1 .. Len(notes[inf])
  BY <1>3
<1>5. n[1] \in Objects /\ n[2] = objs[n[1]]
  BY <1>2, <1>4 DEF NoteOf, Watched, Repeats, AllSay
<1>6. ASSUME NEW i \in Instances, OnePod(objs, i), n[1][1] = i
      PROVE  w = StatusIn(objs, i)
  BY <1>2, <1>5, <1>6, ReconcilesCache DEF KInv, Typed
<1>7. Repeats(objs)'
  <2>1. /\ notes'[inf] = Tail(notes[inf])
        /\ \A k \in Informers \ {inf} : notes'[k] = notes[k]
    <3>1. notes' = [notes EXCEPT ![inf] = Tail(notes[inf])]
      BY DEF HandlerReads
    <3> QED BY <3>1, QueueDomain DEF KInv, Typed
  <2>2. \A k \in 1 .. Len(Tail(notes[inf])) :
          k + 1 \in 1 .. Len(notes[inf]) /\ Tail(notes[inf])[k] = notes[inf][k + 1]
    BY <1>3
  <2>3. \A k \in Informers : AllSay(notes[k], objs)
    BY <1>2 DEF Repeats
  <2>4. AllSay(Tail(notes[inf]), objs)
    BY <2>2, <2>3 DEF AllSay
  <2>5. \A k \in Informers : AllSay(notes'[k], objs)
    BY <2>1, <2>3, <2>4
  <2> QED BY <1>1, <2>5 DEF Repeats
<1>8. submitting[inf] = <<>> /\ submitting' = [submitting EXCEPT ![inf] = e]
  BY HandlerTakes DEF KInv, Typed
<1>9. ASSUME NEW i \in Instances, NEW s \in Statuses, OnePod(objs', i), s = StatusIn(objs', i)
      PROVE  Says(i, s)'
  <2>1. OnePod(objs, i) /\ s = StatusIn(objs, i)
    BY <1>1, <1>9
  <2>2. Says(i, s)
    BY <2>1 DEF Repaired
  <2>3. n[1][1] = i => w = s
    BY <1>6, <2>1
  <2> HIDE DEF w, n
  <2>4. e # <<>> /\ e[1] = i => e[2] = s
    BY <2>3
  <2> HIDE DEF e
  <2>5. submitting'[inf] = e /\ \A k \in Informers \ {inf} : submitting'[k] = submitting[k]
    BY <1>8 DEF KInv, Typed
  <2> QED BY <2>2, <2>4, <2>5 DEF Says
<1>10. ASSUME NEW o \in Objects, NEW s \in Statuses \ {NoStatus}, Watches(o) \in resynced,
              objs[o] # Absent, OnePod(objs', o[1]), s = StatusIn(objs', o[1])
       PROVE  Noted(o[1])' \/ Pipeline(o[1], s)'
  <2>1. OnePod(cache, o[1]) /\ s = StatusIn(cache, o[1]) /\ o[1] \in Instances
    BY <1>1, <1>2, <1>10, ObjectKinds
  <2>2. Says(o[1], s) /\ (Noted(o[1]) \/ Pipeline(o[1], s))
    BY <1>2, <1>10, <2>1 DEF Repaired
  <2> QED BY <2>1, <2>2, ReadStep
<1> QED BY <1>1, <1>2, <1>7, <1>9, <1>10 DEF Repaired

(* Every step keeps it: a change of the cluster ends what the resync says, *)
(* and nothing is left to deliver before the next one.                     *)
LEMMA RepairedStep ==
  ASSUME Prompt = TRUE PROVE KInv /\ Repaired /\ [Next]_vars => Repaired'
<1> SUFFICES ASSUME KInv, Repaired, [Next]_vars, ~ctxDone', resynced' # {} PROVE Repaired'
  BY DEF Repaired
<1>1. ~Restart
  BY DEF Restart
<1>2. ~ctxDone
  BY <1>1, StaysCancelled
<1>3. ASSUME NEW o \in Objects, NEW state \in StatesOf(o), ClusterChanges(o, state) PROVE FALSE
  BY <1>3 DEF ClusterChanges
<1>4. ASSUME NEW inf \in Informers, Deliver(inf) PROVE FALSE
  <2>1. resynced # {} /\ stream[inf] # <<>>
    BY <1>4 DEF Deliver
  <2> QED BY <1>2, <2>1 DEF Repaired, Empty
<1>5. CASE \/ \E inf \in Informers : HandlerSubmits(inf)
           \/ \E t \in D!Timer : TimerExpires(t) \/ CallbackRuns(t) \/ Publish(t)
  <2>1. UNCHANGED <<objs, cache, notes, stream, resynced>>
    BY <1>5 DEF HandlerSubmits, informers, TimerExpires, CallbackRuns, Publish,
       PublishSucceeds, PublishFails, PublishAborts, NotOurs
  <2> QED BY <1>2, <1>5, <2>1, RepairedKept
<1>6. CASE /\ UNCHANGED <<objs, cache, notes, tracked, resynced, race, submitting, event,
                          published, unreported, debouncer>>
           /\ stream' \in {stream} \cup {[stream EXCEPT ![inf] = <<>>] : inf \in Informers}
  <2>1. stream' = stream
    <3>1. stream = Empty
      BY <1>2, <1>6 DEF Repaired
    <3>2. \A inf \in Informers : [stream EXCEPT ![inf] = <<>>] = stream
      BY <3>1 DEF Empty
    <3> QED BY <1>6, <3>2
  <2> QED BY <1>2, <1>6, <2>1, RepairedKept
<1> QED BY <1>1, <1>3, <1>4, <1>5, <1>6, OthersRest, RepairedList, RepairedResync, RepairedReads

(* What ResyncRepairs says, of the instances with at most one Pod.         *)
ResyncShows ==
  resynced = Informers /\ Settled =>
    \A i \in tracked \ unreported : Exists(i) /\ OnePod(objs, i) => Agrees(i)

(* When both informers have resynced and nothing is on its way, every      *)
(* status they repeated has been published or dropped.                     *)
LEMMA RepairShows == KInv /\ Repaired => ResyncShows
<1> SUFFICES ASSUME KInv, Repaired, resynced = Informers, Settled,
                    NEW i \in tracked \ unreported, Exists(i), OnePod(objs, i)
             PROVE  Agrees(i)
  BY DEF ResyncShows
<1>1. PICK o \in Objects : o[1] = i /\ objs[o] # Absent
  BY DEF Exists
<1>2. Watches(o) \in resynced /\ i \in Instances
  BY <1>1, ObjectKinds
<1>3. ~Noted(i)
  BY DeliveredShows DEF KInv, Settled
<1>4. TrueStatus(i) = StatusIn(objs, i)
  BY DEF TrueStatus, StatusIn
<1>5. TrueStatus(i) \in Statuses
  BY <1>2, PhaseFound, StatusType DEF TrueStatus, KInv, Typed
<1>6. CASE TrueStatus(i) # NoStatus
  <2> DEFINE s == TrueStatus(i)
  <2>1. Pipeline(i, s)
    BY <1>1, <1>2, <1>3, <1>4, <1>5, <1>6 DEF Repaired, Settled
  <2>2. published[i] = s
    BY <1>2, <2>1, PipelineSettles
  <2> QED BY <2>2 DEF Agrees
<1> QED BY <1>6 DEF Agrees

(* Nothing has resynced at first.                                          *)
LEMMA RepairedInit == Init => Repaired
BY DEF Init, Repaired

(* A resync repairs the status of every instance that exists, with         *)
(* handlers that interleave as they like, when no instance has two Pods    *)
(* ...                                                                     *)
THEOREM ResyncRepairsHolds ==
  ASSUME Prompt = TRUE, \A p, q \in Pods : p = q PROVE Spec => []ResyncRepairs
<1>1. KInv /\ Repaired /\ [Next]_vars => KInv' /\ Repaired'
  BY CommonStep, RepairedStep
<1>2. KInv /\ Repaired => ResyncRepairs
  <2>1. \A i : OnePod(objs, i)
    BY DEF OnePod
  <2> QED BY <2>1, RepairShows DEF ResyncShows, ResyncRepairs
<1> QED BY <1>1, <1>2, KInit, RepairedInit, PTL DEF Spec

(* ... and, when instances may have several, of those that have at most    *)
(* one.                                                                    *)
THEOREM ResyncShowsOnePod ==
  ASSUME Prompt = TRUE PROVE Spec => []ResyncShows
<1>1. KInv /\ Repaired /\ [Next]_vars => KInv' /\ Repaired'
  BY CommonStep, RepairedStep
<1> QED BY <1>1, RepairShows, KInit, RepairedInit, PTL DEF Spec
=============================================================================
