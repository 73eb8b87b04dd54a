------------------------ MODULE Nav2Enforcement_proofs ------------------------
(***************************************************************************)
(* Proofs about Nav2Enforcement, for any profiles and any queue depth.     *)
(***************************************************************************)
EXTENDS Nav2Enforcement, OrderLemmas, SequenceTheorems

\* The profile's plan is the one it maps to, or apply has refused it.
PlanFits == plan \in {Refuse, MapProfile(profile)}

\* What is underway to a controller that was not lost ends with the plan's limit.
LastIsCurrent ==
    Publishes(plan) /\ held
        => IF inbox = <<>> THEN limit = plan.speed ELSE inbox[Len(inbox)] = plan.speed

NoZeroQueued == \A i \in 1 .. Len(inbox) : inbox[i] # NoLimit

Nav2Inv == Nav2TypeOK /\ PlanFits /\ LastIsCurrent /\ NoZeroQueued

-----------------------------------------------------------------------------
\* Enforceable bounds are naturals, so map_profile's minimum exists.
LEMMA LeastBound ==
    ASSUME NEW p \in Profiles, Enforceable(p), Bounds(p) # {}
    PROVE  /\ Least(Bounds(p)) \in Bounds(p) /\ Least(Bounds(p)) \in Nat
           /\ \A b \in Bounds(p) : Least(Bounds(p)) <= b
<1>1. Bounds(p) \subseteq Nat
  <2>1. \A g \in p.guarantees : g.value \in Int
    BY Nav2Assumption DEF ProfileType
  <2>2. p.restrictions \subseteq Int
    BY Nav2Assumption DEF ProfileType
  <2>3. Bounds(p) \subseteq Int
    BY <2>1, <2>2 DEF Bounds, SpeedGuarantees
  <2>4. QED
    BY <2>3, SMT DEF Enforceable
<1>2. \E m \in Bounds(p) : \A n \in Bounds(p) : m <= n
  BY <1>1, LeastExists
<1>3. QED
  BY <1>1, <1>2, Zenon DEF Least

\* map_profile: what is published is a positive speed within every bound, and
\* navigation without a published speed means that there is no bound.
LEMMA MapProfileSound ==
    ASSUME NEW p \in Profiles
    PROVE  LET q == MapProfile(p)
           IN  /\ q \in Plan
               /\ Publishes(q) => /\ q.speed \in Nat /\ q.speed # NoLimit
                                  /\ \A b \in Bounds(p) : q.speed <= b
               /\ q.allowed /\ ~Publishes(q) => Bounds(p) = {}
<1>1. CASE ~Enforceable(p) \/ (Bounds(p) # {} /\ Least(Bounds(p)) = 0)
  BY <1>1, SMT DEF MapProfile, Refuse, Plan, Publishes, NoSpeed
<1>2. CASE Enforceable(p) /\ Bounds(p) = {}
  BY <1>2, SMT DEF MapProfile, Plan, Publishes, NoSpeed
<1>3. CASE Enforceable(p) /\ Bounds(p) # {} /\ Least(Bounds(p)) # 0
  <2>1. MapProfile(p) = [allowed |-> TRUE, speed |-> Least(Bounds(p))]
    BY <1>3 DEF MapProfile
  <2>2. QED
    BY <1>3, <2>1, LeastBound, SMT DEF Plan, Publishes, NoSpeed, NoLimit
<1>4. QED
  BY <1>1, <1>2, <1>3

\* The queue: never longer than its depth, the new message last, and nothing in
\* it that is not the new message or was there, at that place or behind it.
LEMMA EnqueueSound ==
    ASSUME Nav2TypeOK, NEW s \in Nat
    PROVE  /\ Enqueue(s) \in Seq(Nat) /\ Len(Enqueue(s)) \in 1 .. Depth
           /\ Enqueue(s)[Len(Enqueue(s))] = s
           /\ \A i \in 1 .. Len(Enqueue(s)) :
                 Enqueue(s)[i] = s \/ \E j \in i .. Len(inbox) : Enqueue(s)[i] = inbox[j]
<1>0. Depth \in Nat \ {0} /\ inbox \in Seq(Nat) /\ Len(inbox) \in Nat /\ Len(inbox) <= Depth
  BY Nav2Assumption DEF Nav2TypeOK
<1>1. CASE Len(inbox) < Depth
  BY <1>0, <1>1, SMT DEF Enqueue
<1>2. CASE ~(Len(inbox) < Depth)
  <2>1. inbox # <<>>
    BY <1>0, <1>2, SMT
  <2>2. PICK t \in Seq(Nat) : /\ t = Tail(inbox) /\ Len(t) = Len(inbox) - 1
                             /\ \A i \in 1 .. Len(t) : t[i] = inbox[i + 1]
    BY <1>0, <2>1, HeadTailProperties
  <2>3. /\ Append(t, s) \in Seq(Nat) /\ Len(Append(t, s)) = Len(t) + 1
        /\ Append(t, s)[Len(t) + 1] = s
        /\ \A i \in 1 .. Len(t) : Append(t, s)[i] = t[i]
    BY <2>2, AppendProperties
  <2>4. Enqueue(s) = Append(t, s)
    BY <1>2, <2>2 DEF Enqueue
  <2>5. /\ Len(Append(t, s)) \in 1 .. Depth
        /\ Append(t, s)[Len(Append(t, s))] = s
    BY <1>0, <2>2, <2>3, SMT
  <2>6. \A i \in 1 .. Len(Append(t, s)) :
            Append(t, s)[i] = s \/ \E j \in i .. Len(inbox) : Append(t, s)[i] = inbox[j]
    <3>1. \A i \in 1 .. Len(t) : i + 1 \in i .. Len(inbox)
      BY <1>0, <2>2, SMT
    <3>2. \A i \in 1 .. Len(Append(t, s)) : i \in 1 .. Len(t) \/ i = Len(t) + 1
      <4>1. \A n \in Nat : \A i \in 1 .. n + 1 : i \in 1 .. n \/ i = n + 1
        BY SMT
      <4>2. Len(t) \in Nat
        BY LenProperties
      <4>3. QED
        BY <2>3, <4>1, <4>2
    <3>3. QED
      BY <2>2, <2>3, <3>1, <3>2
  <2>7. QED
    BY <2>3, <2>4, <2>5, <2>6
<1>3. QED
  BY <1>1, <1>2

-----------------------------------------------------------------------------
\* A call of apply keeps the invariant.
LEMMA ApplyKeeps ==
    ASSUME Nav2Inv, NEW p \in Profiles, Apply(p)
    PROVE  Nav2Inv'
<1> DEFINE q == MapProfile(p)
<1> HIDE DEF q
<1>0. /\ profile' = p
      /\ q \in Plan
      /\ Publishes(q) => q.speed \in Nat /\ q.speed # NoLimit
  BY MapProfileSound DEF Apply, q
<1>1. CASE NothingPublished(p)
  <2>1. /\ plan' = q /\ ~Publishes(q)
        /\ UNCHANGED <<matched, linked, up, limit, inbox, held>>
    BY <1>1 DEF Apply, NothingPublished, q
  <2>2. QED
    BY <1>0, <2>1 DEF Nav2Inv, Nav2TypeOK, PlanFits, LastIsCurrent, NoZeroQueued, Publishes, q
<1>2. CASE PublishFails(p)
  <2>1. plan' = Refuse /\ UNCHANGED <<matched, linked, up, limit, inbox, held>>
    BY <1>2 DEF Apply, PublishFails
  <2>2. Refuse \in Plan /\ ~Publishes(Refuse)
    BY DEF Refuse, Plan, Publishes, NoSpeed
  <2>3. QED
    BY <1>0, <2>1, <2>2 DEF Nav2Inv, Nav2TypeOK, PlanFits, LastIsCurrent, NoZeroQueued, Publishes
<1>3. CASE Publish(p)
  <2>1. /\ plan' = q /\ Publishes(q)
        /\ inbox' = IF linked THEN Enqueue(q.speed) ELSE inbox
        /\ held' = linked
        /\ UNCHANGED <<matched, linked, up, limit>>
    BY <1>3 DEF Apply, Publish, q
  <2>2. CASE ~linked
    BY <1>0, <2>1, <2>2
       DEF Nav2Inv, Nav2TypeOK, PlanFits, LastIsCurrent, NoZeroQueued, Publishes, q
  <2>3. CASE linked
    <3>1. /\ inbox' = Enqueue(q.speed) /\ inbox' \in Seq(Nat) /\ Len(inbox') \in 1 .. Depth
          /\ inbox'[Len(inbox')] = q.speed
          /\ \A i \in 1 .. Len(inbox') :
                inbox'[i] = q.speed \/ \E j \in i .. Len(inbox) : inbox'[i] = inbox[j]
      BY <1>0, <2>1, <2>3, EnqueueSound DEF Nav2Inv
    <3>2. Nav2TypeOK'
      BY <1>0, <2>1, <3>1, Nav2Assumption, SMT DEF Nav2Inv, Nav2TypeOK
    <3>3. LastIsCurrent'
      BY <2>1, <3>1, SMT DEF LastIsCurrent
    <3>4. NoZeroQueued'
      BY <1>0, <2>1, <3>1 DEF Nav2Inv, NoZeroQueued
    <3>5. PlanFits'
      BY <1>0, <2>1 DEF PlanFits, q
    <3>6. QED
      BY <3>2, <3>3, <3>4, <3>5 DEF Nav2Inv
  <2>4. QED
    BY <2>2, <2>3 DEF Nav2Inv, Nav2TypeOK
<1>4. QED
  BY <1>1, <1>2, <1>3 DEF Apply

\* A delivery keeps the invariant.
LEMMA DeliverKeeps ==
    ASSUME Nav2Inv, Deliver
    PROVE  Nav2Inv'
<1>1. /\ inbox \in Seq(Nat) /\ inbox # <<>> /\ Len(inbox) <= Depth
      /\ limit' = Head(inbox) /\ inbox' = Tail(inbox)
      /\ UNCHANGED <<profile, plan, matched, linked, up, held>>
  BY DEF Nav2Inv, Nav2TypeOK, Deliver
<1>2. /\ Head(inbox) \in Nat /\ Head(inbox) = inbox[1]
      /\ Tail(inbox) \in Seq(Nat) /\ Len(Tail(inbox)) = Len(inbox) - 1
      /\ \A i \in 1 .. Len(Tail(inbox)) : Tail(inbox)[i] = inbox[i + 1]
      /\ Len(inbox) \in Nat \ {0}
      /\ (Tail(inbox) = <<>>) <=> (Len(inbox) = 1)
  <2>1. Head(inbox) = inbox[1] /\ Len(inbox) \in Nat \ {0} /\ Head(inbox) \in Nat
    BY <1>1, EmptySeq, ElementOfSeq, SMT
  <2>2. /\ Tail(inbox) \in Seq(Nat) /\ Len(Tail(inbox)) = Len(inbox) - 1
        /\ \A i \in 1 .. Len(Tail(inbox)) : Tail(inbox)[i] = inbox[i + 1]
    BY <1>1, HeadTailProperties
  <2>3. (Tail(inbox) = <<>>) <=> (Len(inbox) = 1)
    <3>1. \A q \in Seq(Nat) : q = <<>> <=> Len(q) = 0
      BY EmptySeq, Zenon
    <3>2. (Len(inbox) - 1 = 0) <=> (Len(inbox) = 1)
      BY <2>1, SMT
    <3>3. QED
      BY <2>2, <3>1, <3>2, Zenon
  <2>4. QED
    BY <2>1, <2>2, <2>3
<1>3. Nav2TypeOK'
  BY <1>1, <1>2, Nav2Assumption, SMT DEF Nav2Inv, Nav2TypeOK
<1>4. LastIsCurrent'
  <2>1. CASE Len(inbox) = 1
    BY <1>1, <1>2, <2>1, Zenon DEF Nav2Inv, LastIsCurrent, Publishes
  <2>2. CASE Len(inbox) # 1
    <3>1. Tail(inbox) # <<>> /\ Tail(inbox)[Len(Tail(inbox))] = inbox[Len(inbox)]
      BY <1>2, <2>2, SMT
    <3>2. QED
      BY <1>1, <3>1, Zenon DEF Nav2Inv, LastIsCurrent, Publishes
  <2>3. QED
    BY <2>1, <2>2
<1>5. NoZeroQueued' /\ PlanFits'
  <2>1. NoZeroQueued'
    BY <1>1, <1>2, SMT DEF Nav2Inv, NoZeroQueued
  <2>2. QED
    BY <1>1, <2>1 DEF Nav2Inv, PlanFits, MapProfile
<1>6. QED
  BY <1>3, <1>4, <1>5 DEF Nav2Inv

\* What apply, the topic and the controller do keeps the invariant.
LEMMA Nav2Step == Nav2Inv /\ [Next]_nav2Vars => Nav2Inv'
<1> SUFFICES ASSUME Nav2Inv, [Next]_nav2Vars
             PROVE  Nav2Inv'
  OBVIOUS
<1>1. ASSUME NEW p \in Profiles, Apply(p)
      PROVE  Nav2Inv'
  BY <1>1, ApplyKeeps
<1>2. CASE Deliver
  BY <1>2, DeliverKeeps
<1>3. CASE ControllerStops
  <2>1. /\ up' = FALSE /\ linked' = FALSE /\ inbox' = <<>> /\ limit' = NoLimit /\ held' = FALSE
        /\ UNCHANGED <<profile, plan, matched>>
    BY <1>3 DEF ControllerStops
  <2>2. inbox' \in Seq(Nat) /\ Len(inbox') = 0 /\ Len(inbox') <= Depth
    BY <2>1, EmptySeq, Nav2Assumption, SMT
  <2>3. Nav2TypeOK'
    BY <2>1, <2>2 DEF Nav2Inv, Nav2TypeOK, NoLimit
  <2>4. NoZeroQueued'
    BY <2>2, SMT DEF NoZeroQueued
  <2>5. QED
    BY <2>1, <2>3, <2>4 DEF Nav2Inv, PlanFits, LastIsCurrent
<1>4. CASE ControllerStarts
  BY <1>4 DEF ControllerStarts, Nav2Inv, Nav2TypeOK, PlanFits, LastIsCurrent, NoZeroQueued, Publishes
<1>5. CASE Discover
  BY <1>5 DEF Discover, Nav2Inv, Nav2TypeOK, PlanFits, LastIsCurrent, NoZeroQueued, Publishes
<1>6. CASE UNCHANGED nav2Vars
  BY <1>6 DEF nav2Vars, Nav2Inv, Nav2TypeOK, PlanFits, LastIsCurrent, NoZeroQueued, Publishes
<1>7. QED
  BY <1>1, <1>2, <1>3, <1>4, <1>5, <1>6 DEF Next

\* It holds at the start: nothing is published yet.
LEMMA Nav2Start == Init => Nav2Inv
<1> SUFFICES ASSUME Init PROVE Nav2Inv
  OBVIOUS
<1>1. Refuse \in Plan /\ ~Publishes(Refuse)
  BY DEF Refuse, Plan, Publishes, NoSpeed
<1>2. inbox \in Seq(Nat) /\ Len(inbox) = 0
  BY EmptySeq DEF Init
<1>3. Nav2TypeOK
  <2>1. Len(inbox) <= Depth /\ limit \in Nat
    BY <1>2, Nav2Assumption, SMT DEF Init, NoLimit
  <2>2. QED
    BY <1>1, <1>2, <2>1 DEF Init, Nav2TypeOK
<1>4. PlanFits /\ LastIsCurrent /\ NoZeroQueued
  <2>1. NoZeroQueued
    BY <1>2, SMT DEF NoZeroQueued
  <2>2. QED
    BY <1>1, <2>1 DEF Init, PlanFits, LastIsCurrent
<1>5. QED
  BY <1>3, <1>4 DEF Nav2Inv

\* The inductive invariant holds throughout.
THEOREM Nav2Invariant == Nav2Spec => []Nav2Inv
  BY Nav2Start, Nav2Step, PTL DEF Nav2Spec

\* Types, the queue's depth among them: Nav2TypeOK.
THEOREM Nav2TypeCorrect == Nav2Spec => []Nav2TypeOK
<1>1. Nav2Inv => Nav2TypeOK
  BY DEF Nav2Inv
<1>2. QED
  BY <1>1, Nav2Invariant, PTL

\* SettledWithinBounds, for any profiles and any depth: once everything apply
\* published has arrived, every bound of the profile holds at the controller.
THEOREM LimitsAreWithinBounds == Nav2Spec => []SettledWithinBounds
<1>1. Nav2Inv => SettledWithinBounds
  <2> SUFFICES ASSUME Nav2Inv, plan.allowed, held, inbox = <<>>, NEW b \in Bounds(profile)
               PROVE  limit # NoLimit /\ limit <= b
    BY DEF SettledWithinBounds
  <2>1. plan = MapProfile(profile) /\ profile \in Profiles
    BY DEF Nav2Inv, PlanFits, Nav2TypeOK, Refuse
  <2>2. Publishes(plan)
    BY <2>1, MapProfileSound
  <2>3. QED
    BY <2>1, <2>2, MapProfileSound DEF Nav2Inv, LastIsCurrent
<1>2. QED
  BY <1>1, Nav2Invariant, PTL

\* NeverLifted: no history of calls makes the adapter send Nav2's "no limit".
THEOREM LimitsAreNeverLifted == Nav2Spec => NeverLifted
<1>1. Nav2Inv /\ [Next]_nav2Vars => [limit # NoLimit /\ limit' = NoLimit => ~up']_nav2Vars
  <2> SUFFICES ASSUME Nav2Inv, Next, limit # NoLimit, limit' = NoLimit
               PROVE  ~up'
    OBVIOUS
  <2>1. CASE Deliver
    <3>1. Head(inbox) = inbox[1] /\ Len(inbox) >= 1
      BY <2>1, SMT DEF Deliver, Nav2Inv, Nav2TypeOK
    <3>2. QED
      BY <2>1, <3>1, SMT DEF Deliver, Nav2Inv, NoZeroQueued, Nav2TypeOK
  <2>2. CASE ControllerStops
    BY <2>2 DEF ControllerStops
  <2>3. QED
    BY <2>1, <2>2 DEF Next, Apply, ControllerStarts, Discover
<1>2. QED
  BY <1>1, Nav2Invariant, PTL DEF Nav2Spec, NeverLifted

\* A delivery moves every message one place on.
LEMMA DeliverShifts ==
    ASSUME Nav2Inv, Deliver
    PROVE  /\ limit' = inbox[1] /\ Len(inbox) \in Nat \ {0} /\ Len(inbox') = Len(inbox) - 1
           /\ \A i \in 1 .. Len(inbox') : inbox'[i] = inbox[i + 1]
<1>1. inbox \in Seq(Nat) /\ inbox # <<>> /\ limit' = Head(inbox) /\ inbox' = Tail(inbox)
  BY DEF Nav2Inv, Nav2TypeOK, Deliver
<1>2. Head(inbox) = inbox[1] /\ Len(inbox) \in Nat \ {0}
  BY <1>1, EmptySeq, SMT
<1>3. /\ Len(Tail(inbox)) = Len(inbox) - 1
      /\ \A i \in 1 .. Len(Tail(inbox)) : Tail(inbox)[i] = inbox[i + 1]
  BY <1>1, HeadTailProperties
<1>4. QED
  BY <1>1, <1>2, <1>3

\* Publishing the plan in force again puts its limit last and drops at most the
\* oldest message.
LEMMA AgainIsLast ==
    ASSUME Nav2Inv, NEW p \in Profiles, Apply(p), Publishes(plan), plan' = plan, held'
    PROVE  \A i \in 1 .. Len(inbox') :
              inbox'[i] = plan.speed \/ \E j \in i .. Len(inbox) : inbox'[i] = inbox[j]
<1>1. ~NothingPublished(p) /\ ~PublishFails(p)
  <2>1. ~NothingPublished(p)
    BY DEF NothingPublished
  <2>2. ~Publishes(Refuse)
    BY DEF Publishes, Refuse
  <2>3. ~PublishFails(p)
    BY <2>2 DEF PublishFails
  <2>4. QED
    BY <2>1, <2>3
<1>2. plan = MapProfile(p) /\ inbox' = Enqueue(plan.speed)
  BY <1>1 DEF Apply, Publish
<1>3. plan.speed \in Nat
  BY <1>2, MapProfileSound
<1>4. QED
  BY <1>2, <1>3, EnqueueSound DEF Nav2Inv

\* LimitApproaches, for any profiles and any depth: what is ahead of the limit
\* shrinks with every delivery and never grows, which is why a fair topic puts
\* it into force.
THEOREM LimitsGetCloser == Nav2Spec => LimitApproaches
<1>1. ASSUME Nav2Inv, Nav2Inv', Next, Publishes(plan), plan' = plan, held, held'
      PROVE  /\ inbox' = <<>> => limit' = plan.speed
             /\ Deliver /\ Stale = {} => limit' = plan.speed
             /\ \A n \in 0 .. Depth : Stale \subseteq 1 .. n =>
                   Stale' \subseteq 1 .. (IF Deliver THEN n - 1 ELSE n)
  <2>1. inbox' = <<>> => limit' = plan.speed
    BY <1>1 DEF Nav2Inv, LastIsCurrent
  <2>2. CASE Deliver
    <3>1. Stale = {} => limit' = plan.speed
      BY <1>1, <2>2, DeliverShifts DEF Stale
    <3>2. ASSUME NEW n \in 0 .. Depth, Stale \subseteq 1 .. n
          PROVE  Stale' \subseteq 1 .. n - 1
      <4> SUFFICES ASSUME NEW i \in 1 .. Len(inbox'), inbox'[i] # plan.speed
                   PROVE  i \in 1 .. n - 1
        BY <1>1 DEF Stale
      <4>1. i + 1 \in 1 .. Len(inbox) /\ inbox[i + 1] # plan.speed
        BY <1>1, <2>2, DeliverShifts
      <4>2. i + 1 \in 1 .. n
        BY <3>2, <4>1 DEF Stale
      <4>3. Depth \in Nat
        BY Nav2Assumption
      <4>4. QED
        BY <4>2, <4>3
    <3>3. QED
      BY <2>1, <2>2, <3>1, <3>2
  <2>3. CASE ~Deliver
    <3>1. ASSUME NEW n \in 0 .. Depth, Stale \subseteq 1 .. n
          PROVE  Stale' \subseteq 1 .. n
      <4> SUFFICES ASSUME NEW i \in 1 .. Len(inbox'), inbox'[i] # plan.speed
                   PROVE  i \in 1 .. n
        BY <1>1 DEF Stale
      <4>1. \E j \in i .. Len(inbox) : j \in 1 .. Len(inbox) /\ inbox[j] # plan.speed
        <5>1. CASE \E p \in Profiles : Apply(p)
          <6>1. PICK j \in i .. Len(inbox) : inbox'[i] = inbox[j]
            BY <1>1, <5>1, AgainIsLast
          <6>2. Len(inbox) \in Nat /\ Len(inbox') \in Nat
            BY <1>1 DEF Nav2Inv, Nav2TypeOK
          <6>3. j \in 1 .. Len(inbox)
            BY <6>2
          <6>4. QED
            BY <6>1, <6>3
        <5>2. CASE inbox' = inbox
          BY <1>1, <5>2 DEF Nav2Inv, Nav2TypeOK
        <5>3. QED
          BY <1>1, <2>3, <5>1, <5>2 DEF Next, ControllerStarts, ControllerStops, Discover
      <4>2. PICK j \in i .. Len(inbox) : j \in 1 .. n
        BY <3>1, <4>1 DEF Stale
      <4>3. Len(inbox) \in Nat /\ Len(inbox') \in Nat /\ Depth \in Nat
        BY <1>1, Nav2Assumption DEF Nav2Inv, Nav2TypeOK
      <4>4. QED
        BY <4>2, <4>3
    <3>2. QED
      BY <2>1, <2>3, <3>1
  <2>4. QED
    BY <2>2, <2>3
<1>2. Nav2Inv /\ Nav2Inv' /\ [Next]_nav2Vars
        => [Publishes(plan) /\ plan' = plan /\ held /\ held' =>
              /\ inbox' = <<>> => limit' = plan.speed
              /\ Deliver /\ Stale = {} => limit' = plan.speed
              /\ \A n \in 0 .. Depth : Stale \subseteq 1 .. n =>
                    Stale' \subseteq 1 .. (IF Deliver THEN n - 1 ELSE n)]_nav2Vars
  BY <1>1
<1>3. QED
  BY <1>2, Nav2Invariant, PTL DEF Nav2Spec, LimitApproaches
===============================================================================
