-------------------------- MODULE DebouncerProofs --------------------------
(***************************************************************************)
(* Proofs about the debouncer for every set of instance IDs and every      *)
(* number of Submit calls.  All of them rest on the inductive invariant    *)
(* IInv of module Debouncer: that Stop leaves nothing publishing follows   *)
(* from the wait group counting the publishing callbacks, which follows    *)
(* from the stopped flag being read in the section that increments it.     *)
(***************************************************************************)
EXTENDS Debouncer, FiniteSetTheorems, TLAPS

LEMMA PublishingFinite == IsFiniteSet(Publishing)
<1>1. IsFiniteSet(Timer)
  BY FS_Interval, DebouncerAssumption DEF Timer
<1>2. Publishing \in SUBSET Timer
  BY DEF Publishing
<1> QED BY <1>1, <1>2, FS_Subset

(* The initial states satisfy the inductive invariant.                     *)
LEMMA InitIInv == Init => IInv
<1> SUFFICES ASSUME Init PROVE IInv
  OBVIOUS
<1>1. TypeOK
  <2>1. submits \in 0 .. MaxSubmits /\ wg \in Nat
    BY DebouncerAssumption DEF Init
  <2>2. phase \in [Timer -> Phases] /\ owner \in [Timer -> Instances \cup {NoOwner}]
    BY DEF Init, Phases
  <2>3. timers \in [Instances -> Timer \cup {NoTimer}]
    BY DEF Init
  <2>4. /\ stopped \in BOOLEAN
        /\ stopPC \in {"running", "waiting", "returned"}
    BY Zenon DEF Init
  <2> QED BY <2>1, <2>2, <2>3, <2>4 DEF TypeOK
<1>2. Publishing = {}
  BY DEF Init, Publishing
<1>3. WgCountsPublishing
  BY <1>2, FS_EmptySet DEF Init, WgCountsPublishing
<1>4. Numbered
  BY DebouncerAssumption DEF Init, Numbered, Timer
<1>5. StopStages
  BY DEF Init, StopStages
<1>6. TrackedIsNewest /\ LastEventKept
  BY DEF Init, TrackedIsNewest, LastEventKept
<1> QED BY <1>1, <1>3, <1>4, <1>5, <1>6 DEF IInv

(* Every step keeps every variable in its range.                           *)
LEMMA TypeStep == IInv /\ [Next]_vars => TypeOK'
<1> SUFFICES ASSUME TypeOK, Numbered, WgCountsPublishing, [Next]_vars PROVE TypeOK'
  BY DEF IInv
<1>1. ASSUME NEW i \in Instances, Submit(i) PROVE TypeOK'
  <2>1. submits + 1 \in Timer /\ submits' \in 0 .. MaxSubmits
    BY <1>1, DebouncerAssumption DEF TypeOK, Submit, Timer
  <2>2. owner' \in [Timer -> Instances \cup {NoOwner}]
    BY <1>1, <2>1 DEF TypeOK, Submit
  <2>3. phase' \in [Timer -> Phases]
    BY <1>1, <2>1 DEF TypeOK, Submit, Halted, Phases
  <2>4. timers' \in [Instances -> Timer \cup {NoTimer}]
    BY <1>1, <2>1 DEF TypeOK, Submit
  <2> QED BY <1>1, <2>1, <2>2, <2>3, <2>4 DEF TypeOK, Submit
<1>2. ASSUME NEW t \in Timer, Expire(t) PROVE TypeOK'
  BY <1>2 DEF TypeOK, Expire, Phases
<1>3. ASSUME NEW t \in Timer, CallbackReturns(t) PROVE TypeOK'
  BY <1>3 DEF TypeOK, CallbackReturns, Phases
<1>4. ASSUME NEW t \in Timer, CallbackPublishes(t) PROVE TypeOK'
  <2>1. timers' \in [Instances -> Timer \cup {NoTimer}]
    BY <1>4 DEF TypeOK, CallbackPublishes
  <2>2. phase' \in [Timer -> Phases] /\ wg' \in Nat
    BY <1>4 DEF TypeOK, CallbackPublishes, Phases
  <2> QED BY <1>4, <2>1, <2>2 DEF TypeOK, CallbackPublishes
<1>5. ASSUME NEW t \in Timer, PublishReturns(t) PROVE TypeOK'
  <2>1. t \in Publishing
    BY <1>5 DEF PublishReturns, Publishing
  <2>2. wg # 0
    BY <2>1, PublishingFinite, FS_EmptySet DEF WgCountsPublishing
  <2>3. wg' \in Nat
    BY <1>5, <2>2 DEF TypeOK, PublishReturns
  <2> QED BY <1>5, <2>3 DEF TypeOK, PublishReturns, Phases
<1>6. CASE StopLocked
  <2>1. phase' \in [Timer -> Phases]
    BY <1>6 DEF TypeOK, StopLocked, Halted, Phases
  <2>2. timers' \in [Instances -> Timer \cup {NoTimer}]
    BY <1>6 DEF StopLocked
  <2> QED BY <1>6, <2>1, <2>2 DEF TypeOK, StopLocked
<1>7. CASE StopReturns
  <2>1. stopPC' \in {"running", "waiting", "returned"}
    BY <1>7, Zenon DEF StopReturns
  <2> QED BY <1>7, <2>1 DEF TypeOK, StopReturns
<1>8. CASE UNCHANGED vars
  BY <1>8 DEF TypeOK, vars
<1> QED BY <1>1, <1>2, <1>3, <1>4, <1>5, <1>6, <1>7, <1>8 DEF Next, Callback

(* Timers are created in order and keep their owner.                       *)
LEMMA NumberedStep == IInv /\ [Next]_vars => Numbered'
<1> SUFFICES ASSUME TypeOK, Numbered, [Next]_vars PROVE Numbered'
  BY DEF IInv
<1>1. ASSUME NEW i \in Instances, Submit(i) PROVE Numbered'
  <2>1. submits + 1 \in Timer /\ submits' = submits + 1
    BY <1>1, DebouncerAssumption DEF TypeOK, Submit, Timer
  <2>2. owner' = [owner EXCEPT ![submits + 1] = i]
    BY <1>1 DEF Submit
  <2>3. \A t \in Timer : phase'[t] = IF t = submits + 1 THEN "armed"
                                     ELSE Halted({timers[i]})[t]
    BY <1>1, <2>1 DEF Submit, Halted
  <2>4. \A t \in Timer : Halted({timers[i]})[t] = "unused" <=> phase[t] = "unused"
    BY DEF Halted
  <2>5. ASSUME NEW t \in Timer
        PROVE  IF t <= submits' THEN owner'[t] \in Instances /\ phase'[t] # "unused"
                                ELSE owner'[t] = NoOwner /\ phase'[t] = "unused"
    <3>1. CASE t = submits + 1
      BY <3>1, <2>1, <2>2, <2>3 DEF TypeOK
    <3>2. CASE t # submits + 1
      <4>1. owner'[t] = owner[t] /\ (phase'[t] = "unused" <=> phase[t] = "unused")
        BY <3>2, <2>2, <2>3, <2>4 DEF TypeOK
      <4>2. t <= submits' <=> t <= submits
        BY <3>2, <2>1 DEF TypeOK, Timer
      <4> QED BY <4>1, <4>2 DEF Numbered
    <3> QED BY <3>1, <3>2
  <2> QED BY <2>5 DEF Numbered
<1>2. ASSUME NEW t \in Timer, Expire(t) PROVE Numbered'
  BY <1>2 DEF Numbered, TypeOK, Expire
<1>3. ASSUME NEW t \in Timer, CallbackReturns(t) PROVE Numbered'
  BY <1>3 DEF Numbered, TypeOK, CallbackReturns
<1>4. ASSUME NEW t \in Timer, CallbackPublishes(t) PROVE Numbered'
  BY <1>4 DEF Numbered, TypeOK, CallbackPublishes
<1>5. ASSUME NEW t \in Timer, PublishReturns(t) PROVE Numbered'
  BY <1>5 DEF Numbered, TypeOK, PublishReturns
<1>6. CASE StopLocked
  BY <1>6 DEF Numbered, TypeOK, StopLocked, Halted
<1>7. CASE StopReturns
  BY <1>7 DEF Numbered, StopReturns
<1>8. CASE UNCHANGED vars
  BY <1>8 DEF Numbered, vars
<1> QED BY <1>1, <1>2, <1>3, <1>4, <1>5, <1>6, <1>7, <1>8 DEF Next, Callback

(* A step that leaves the publishing callbacks alone keeps the count.      *)
LEMMA SamePublishing ==
  ASSUME WgCountsPublishing, wg' = wg, Publishing' = Publishing
  PROVE  WgCountsPublishing'
BY DEF WgCountsPublishing

(* The wait group and the publishing callbacks change together.            *)
LEMMA WgStep == IInv /\ [Next]_vars => WgCountsPublishing'
<1> SUFFICES ASSUME TypeOK, Numbered, WgCountsPublishing, [Next]_vars
             PROVE  WgCountsPublishing'
  BY DEF IInv
<1>1. ASSUME NEW i \in Instances, Submit(i) PROVE WgCountsPublishing'
  <2>1. submits + 1 \in Timer /\ phase[submits + 1] = "unused"
    BY <1>1, DebouncerAssumption DEF TypeOK, Submit, Timer, Numbered
  <2>2. Publishing' = Publishing
    BY <1>1, <2>1 DEF TypeOK, Submit, Halted, Publishing
  <2> QED BY <1>1, <2>2, SamePublishing DEF Submit
<1>2. ASSUME NEW t \in Timer, Expire(t) PROVE WgCountsPublishing'
  <2>1. Publishing' = Publishing
    BY <1>2 DEF TypeOK, Expire, Publishing
  <2> QED BY <1>2, <2>1, SamePublishing DEF Expire
<1>3. ASSUME NEW t \in Timer, CallbackReturns(t) PROVE WgCountsPublishing'
  <2>1. Publishing' = Publishing
    BY <1>3 DEF TypeOK, CallbackReturns, Publishing
  <2> QED BY <1>3, <2>1, SamePublishing DEF CallbackReturns
<1>4. ASSUME NEW t \in Timer, CallbackPublishes(t) PROVE WgCountsPublishing'
  <2>1. t \notin Publishing /\ Publishing' = Publishing \cup {t}
    BY <1>4 DEF TypeOK, CallbackPublishes, Publishing
  <2>2. Cardinality(Publishing') = Cardinality(Publishing) + 1
    BY <2>1, PublishingFinite, FS_AddElement
  <2> QED BY <1>4, <2>2 DEF CallbackPublishes, WgCountsPublishing
<1>5. ASSUME NEW t \in Timer, PublishReturns(t) PROVE WgCountsPublishing'
  <2>1. t \in Publishing /\ Publishing' = Publishing \ {t}
    BY <1>5 DEF TypeOK, PublishReturns, Publishing
  <2>2. Cardinality(Publishing') = Cardinality(Publishing) - 1
    BY <2>1, PublishingFinite, FS_RemoveElement
  <2> QED BY <1>5, <2>2 DEF PublishReturns, WgCountsPublishing
<1>6. CASE StopLocked
  <2>1. Publishing' = Publishing
    BY <1>6 DEF TypeOK, StopLocked, Halted, Publishing
  <2> QED BY <1>6, <2>1, SamePublishing DEF StopLocked
<1>7. CASE StopReturns
  BY <1>7, SamePublishing DEF StopReturns, Publishing
<1>8. CASE UNCHANGED vars
  BY <1>8, SamePublishing DEF vars, Publishing
<1> QED BY <1>1, <1>2, <1>3, <1>4, <1>5, <1>6, <1>7, <1>8 DEF Next, Callback

(* Once Stop has returned no step brings the count above zero: the only    *)
(* increment is under the stopped flag's guard.                            *)
LEMMA StagesStep == IInv /\ [Next]_vars => StopStages'
<1> SUFFICES ASSUME TypeOK, WgCountsPublishing, StopStages, [Next]_vars
             PROVE  StopStages'
  BY DEF IInv
<1>1. ASSUME NEW i \in Instances, Submit(i) PROVE StopStages'
  BY <1>1 DEF StopStages, Submit
<1>2. ASSUME NEW t \in Timer, Expire(t) PROVE StopStages'
  BY <1>2 DEF StopStages, Expire
<1>3. ASSUME NEW t \in Timer, CallbackReturns(t) PROVE StopStages'
  BY <1>3 DEF StopStages, CallbackReturns
<1>4. ASSUME NEW t \in Timer, CallbackPublishes(t) PROVE StopStages'
  BY <1>4 DEF StopStages, CallbackPublishes
<1>5. ASSUME NEW t \in Timer, PublishReturns(t) PROVE StopStages'
  <2>1. t \in Publishing
    BY <1>5 DEF PublishReturns, Publishing
  <2>2. wg # 0
    BY <2>1, PublishingFinite, FS_EmptySet DEF WgCountsPublishing
  <2> QED BY <1>5, <2>2 DEF StopStages, PublishReturns
<1>6. CASE StopLocked
  BY <1>6 DEF StopStages, StopLocked
<1>7. CASE StopReturns
  BY <1>7 DEF StopStages, StopReturns
<1>8. CASE UNCHANGED vars
  BY <1>8 DEF StopStages, vars
<1> QED BY <1>1, <1>2, <1>3, <1>4, <1>5, <1>6, <1>7, <1>8 DEF Next, Callback

(* Callbacks delete by key, but an entry is always the newest timer of its *)
(* instance: Submit replaces it and nothing puts an older one back.        *)
LEMMA TrackedStep == IInv /\ [Next]_vars => TrackedIsNewest'
<1> SUFFICES ASSUME TypeOK, Numbered, StopStages, TrackedIsNewest, [Next]_vars
             PROVE  TrackedIsNewest'
  BY DEF IInv
<1> DEFINE Newest(k) == timers[k] # NoTimer =>
                          /\ owner[timers[k]] = k
                          /\ phase[timers[k]] \in {"armed", "fired"}
                          /\ \A u \in Timer : owner[u] = k => u <= timers[k]
<1>1. ASSUME NEW i \in Instances, Submit(i) PROVE TrackedIsNewest'
  <2>1. submits + 1 \in Timer /\ submits' = submits + 1
    BY <1>1, DebouncerAssumption DEF TypeOK, Submit, Timer
  <2>2. owner' = [owner EXCEPT ![submits + 1] = i]
    BY <1>1 DEF Submit
  <2>3. \A t \in Timer : phase'[t] = IF t = submits + 1 THEN "armed"
                                     ELSE Halted({timers[i]})[t]
    BY <1>1, <2>1 DEF Submit, Halted
  <2>4. timers' = [timers EXCEPT ![i] = submits + 1]
    BY <1>1 DEF Submit
  <2>5. ASSUME NEW k \in Instances PROVE Newest(k)'
    <3>1. CASE k = i
      <4>1. timers'[k] = submits + 1
        BY <3>1, <2>4 DEF TypeOK
      <4>2. \A u \in Timer : owner'[u] = k => u <= submits + 1
        BY <2>2, DebouncerAssumption DEF Numbered, TypeOK, Timer
      <4> QED BY <3>1, <4>1, <4>2, <2>1, <2>2, <2>3 DEF TypeOK
    <3>2. CASE k # i
      <4>1. timers'[k] = timers[k]
        BY <3>2, <2>4 DEF TypeOK
      <4>2. \A u \in Timer : owner'[u] = k <=> owner[u] = k
        BY <3>2, <2>2, <2>1, DebouncerAssumption DEF TypeOK, Numbered, Timer
      <4>3. ASSUME timers[k] # NoTimer
            PROVE  phase'[timers[k]] = phase[timers[k]] /\ timers[k] \in Timer
        <5>1. timers[k] \in Timer /\ owner[timers[k]] = k
          BY <4>3 DEF TypeOK, TrackedIsNewest
        <5>2. timers[k] # submits + 1
          BY <5>1, <2>1, DebouncerAssumption DEF Numbered, TypeOK, Timer
        <5>3. timers[k] # timers[i]
          BY <5>1, <3>2, <4>3 DEF TrackedIsNewest
        <5> QED BY <5>1, <5>2, <5>3, <2>3 DEF Halted
      <4> QED BY <4>1, <4>2, <4>3 DEF TrackedIsNewest
    <3> QED BY <3>1, <3>2
  <2> QED BY <2>5 DEF TrackedIsNewest
<1>2. ASSUME NEW t \in Timer, Expire(t) PROVE TrackedIsNewest'
  BY <1>2 DEF TrackedIsNewest, TypeOK, Expire
<1>3. ASSUME NEW t \in Timer, CallbackReturns(t) PROVE TrackedIsNewest'
  BY <1>3 DEF TrackedIsNewest, StopStages, CallbackReturns
<1>4. ASSUME NEW t \in Timer, CallbackPublishes(t) PROVE TrackedIsNewest'
  <2>1. phase' = [phase EXCEPT ![t] = "publishing"] /\ owner' = owner
    BY <1>4 DEF CallbackPublishes
  <2>2. timers' = [timers EXCEPT ![owner[t]] = NoTimer]
    BY <1>4 DEF CallbackPublishes
  <2>3. ASSUME NEW k \in Instances, timers'[k] # NoTimer
        PROVE  timers[k] # NoTimer /\ timers'[k] = timers[k] /\ timers[k] # t
    <3>1. k # owner[t] /\ timers'[k] = timers[k]
      BY <2>2, <2>3 DEF TypeOK
    <3> QED BY <3>1, <2>3 DEF TrackedIsNewest
  <2> QED BY <2>1, <2>3 DEF TrackedIsNewest, TypeOK
<1>5. ASSUME NEW t \in Timer, PublishReturns(t) PROVE TrackedIsNewest'
  BY <1>5 DEF TrackedIsNewest, TypeOK, PublishReturns
<1>6. CASE StopLocked
  BY <1>6 DEF TrackedIsNewest, StopLocked
<1>7. CASE StopReturns
  BY <1>7 DEF TrackedIsNewest, StopReturns
<1>8. CASE UNCHANGED vars
  BY <1>8 DEF TrackedIsNewest, vars
<1> QED BY <1>1, <1>2, <1>3, <1>4, <1>5, <1>6, <1>7, <1>8 DEF Next, Callback

(* An event that a later one has superseded stays superseded.              *)
LEMMA SupersededStays ==
  ASSUME TypeOK, Numbered, Numbered', [Next]_vars,
         NEW t \in Timer, phase[t] # "unused", Superseded(t)
  PROVE  Superseded(t)'
<1>1. PICK u \in Timer : u > t /\ owner[u] = owner[t]
  BY DEF Superseded
<1>2. owner[t] \in Instances /\ owner[t] # NoOwner /\ owner[u] # NoOwner
  BY <1>1, DebouncerAssumption DEF Numbered
<1>3. owner'[t] = owner[t] /\ owner'[u] = owner[u]
  <2>1. ASSUME NEW i \in Instances, Submit(i)
        PROVE  owner'[t] = owner[t] /\ owner'[u] = owner[u]
    <3>1. t # submits + 1 /\ u # submits + 1
      BY <1>2, DebouncerAssumption DEF Numbered, TypeOK, Timer
    <3> QED BY <2>1, <3>1 DEF Submit, TypeOK
  <2>2. CASE owner' = owner
    BY <2>2
  <2> QED BY <2>1, <2>2 DEF Next, Callback, Expire, CallbackReturns,
             CallbackPublishes, PublishReturns, StopLocked, StopReturns, vars
<1> QED BY <1>1, <1>3 DEF Superseded

(* Only Submit halts a timer of a running debouncer, the one its new event *)
(* supersedes; only a stopped debouncer drops one.                         *)
LEMMA KeptStep == IInv /\ [Next]_vars => LastEventKept'
<1> SUFFICES ASSUME IInv, [Next]_vars, Numbered',
                    NEW t \in Timer, phase'[t] \in {"halted", "dropped"}, ~stopped'
             PROVE  Superseded(t)'
  BY NumberedStep DEF LastEventKept
<1> USE DEF IInv
<1>1. ASSUME phase[t] \in {"halted", "dropped"}, ~stopped
      PROVE  Superseded(t)'
  BY <1>1, SupersededStays DEF LastEventKept
<1>2. ASSUME NEW i \in Instances, Submit(i) PROVE Superseded(t)'
  <2>1. submits + 1 \in Timer /\ ~stopped
    BY <1>2, DebouncerAssumption DEF TypeOK, Submit, Timer
  <2>2. t # submits + 1 /\ phase'[t] = Halted({timers[i]})[t]
    BY <1>2, <2>1 DEF TypeOK, Submit, Halted
  <2>3. CASE t = timers[i] /\ phase[t] = "armed"
    <3>1. owner[t] = i /\ t < submits + 1
      BY <2>3, <2>2, <2>1, DebouncerAssumption
      DEF TrackedIsNewest, Numbered, TypeOK, Timer, NoTimer
    <3>2. owner'[t] = i /\ owner'[submits + 1] = i
      BY <3>1, <2>1, <2>2, <1>2 DEF TypeOK, Submit
    <3> QED BY <3>1, <3>2, <2>1 DEF Superseded
  <2>4. CASE ~(t = timers[i] /\ phase[t] = "armed")
    BY <2>4, <2>2, <2>1, <1>1 DEF Halted
  <2> QED BY <2>3, <2>4
<1>3. ASSUME NEW u \in Timer, Expire(u) PROVE Superseded(t)'
  BY <1>3, <1>1 DEF Expire, TypeOK
<1>4. ASSUME NEW u \in Timer, CallbackReturns(u) PROVE Superseded(t)'
  BY <1>4 DEF CallbackReturns
<1>5. ASSUME NEW u \in Timer, CallbackPublishes(u) PROVE Superseded(t)'
  BY <1>5, <1>1 DEF CallbackPublishes, TypeOK
<1>6. ASSUME NEW u \in Timer, PublishReturns(u) PROVE Superseded(t)'
  BY <1>6, <1>1 DEF PublishReturns, TypeOK
<1>7. CASE StopLocked
  BY <1>7 DEF StopLocked
<1>8. CASE StopReturns
  BY <1>8, <1>1 DEF StopReturns
<1>9. CASE UNCHANGED vars
  BY <1>9, <1>1 DEF vars
<1> QED BY <1>2, <1>3, <1>4, <1>5, <1>6, <1>7, <1>8, <1>9 DEF Next, Callback

(* The inductive invariant holds in every reachable state.                 *)
THEOREM Invariance == Spec => []IInv
<1>1. IInv /\ [Next]_vars => IInv'
  BY TypeStep, NumberedStep, WgStep, StagesStep, TrackedStep, KeptStep DEF IInv
<1> QED BY InitIInv, <1>1, PTL DEF Spec

(* Every variable of the debouncer stays in its range; in particular       *)
(* wg.Done never takes the wait group below zero, which would panic.       *)
THEOREM TypeCorrect == Spec => []TypeOK
BY Invariance, PTL DEF IInv

(* No callback is publishing once Stop has returned, for any number of     *)
(* instances and events and any interleaving of expiries and callbacks.    *)
THEOREM StopIsQuiet == Spec => []QuietAfterStop
<1>1. IInv => QuietAfterStop
  BY PublishingFinite, FS_EmptySet
  DEF IInv, StopStages, WgCountsPublishing, QuietAfterStop
<1> QED BY Invariance, <1>1, PTL

(* The timers map holds only the newest, uncollected timer of an instance. *)
THEOREM MapHoldsNewest == Spec => []TrackedIsNewest
BY Invariance, PTL DEF IInv

(* Coalescing never loses the last event of an instance.                   *)
THEOREM NoLastEventLost == Spec => []LastEventKept
BY Invariance, PTL DEF IInv
=============================================================================
