---------------------- MODULE EvidenceAdmission_proofs ----------------------
(***************************************************************************)
(* Theorems of EvidenceAdmission, for every number of actors, calls, plans *)
(* and records and for every set of policies, robot states and mappings.   *)
(***************************************************************************)
EXTENDS EvidenceAdmission, TLAPS

LEMMA IdsOfType ==
    ASSUME NEW S, NEW T, \A x \in S : x.id \in T
    PROVE  IdsOf(S) \subseteq T
BY DEF IdsOf

\* What a planner selects are tests.
LEMMA TestsForType ==
    ASSUME NEW p \in Policies, NEW ids, NEW e \in Embodiments
    PROVE  TestsFor(p, ids, e) \subseteq Test
<1>1. p.reqs \subseteq Requirement
  BY RulesAssumption DEF Policy
<1>2. ASSUME NEW r \in p.reqs, Mapped(r, e)
      PROVE  TestFor(r, e) \in Test
  <2>1. r \in Requirement
    BY <1>1
  <2>2. MeasuredBy(r, e) \in Capabilities
    BY <1>2, RulesAssumption DEF MeasuredBy, Mapped
  <2>3. r.id \in Ids /\ <<r.op, r.value>> \in Operators \X Int
    BY <2>1 DEF Requirement
  <2> QED
    BY <2>2, <2>3 DEF TestFor, Test
<1> QED
  BY <1>2 DEF TestsFor

\* The verdict over a typed snapshot is a profile.
LEMMA VerdictType ==
    ASSUME NEW p \in Policies, NEW e \in Evidence
    PROVE  Verdict(p, e.plan, e) \in Profile
<1>1. p.reqs \subseteq Requirement
  BY RulesAssumption DEF Policy
<1>2. e.plan \in Plan /\ e.results \subseteq Result
  BY DEF Evidence
<1>3. Lacking(e.plan, e) \subseteq Ids
  BY <1>2 DEF Lacking, IdsOf, Result, Plan
<1> DEFINE lacking == {r \in p.reqs : r.id \in Lacking(e.plan, e)}
<1>4. {r.restriction : r \in {q \in lacking : Degradable(q)}}
        \subseteq Restrictions \cup {NoRestriction}
  BY <1>1 DEF Requirement
<1>5. p.reqs \ lacking \subseteq Requirement
  BY <1>1
<1> QED
  BY <1>3, <1>4, <1>5 DEF Verdict, Profile

\* A bundle built from typed state by the runner is evidence.
LEMMA BundleType ==
    ASSUME TypeOK, NEW a \in Actors, NEW plan \in plans, NEW level \in RunnerLevels
    PROVE  Bundle(a, plan, level) \in Evidence
<1>1. plan \in Plan /\ plan.tests \subseteq Test
  BY DEF TypeOK, Plan
<1>2. /\ robot[a].build \in Builds /\ robot[a].controller \in Controllers
      /\ robot[a].embodiment \in Embodiments /\ robot[a].env \in Environments
  BY RulesAssumption DEF TypeOK
<1>3. policy.version \in Nat
  BY RulesAssumption DEF TypeOK, Policy
<1>4. level \in Levels /\ now \in Nat /\ ValidUntil(now) \in Nat
  BY ServiceAssumption DEF TypeOK, ValidUntil
<1> DEFINE passed(t) == \E r \in policy.reqs :
                           r.id = t.id /\ Satisfies(r, robot[a].caps, t.capability)
           results   == {[id |-> t.id, passed |-> passed(t)] : t \in plan.tests}
<1>5. results \subseteq Result
  <2>1. ASSUME NEW t \in plan.tests
        PROVE  t.id \in Ids
    BY <1>1 DEF Test
  <2>2. ASSUME NEW t \in plan.tests
        PROVE  passed(t) \in BOOLEAN
    OBVIOUS
  <2> HIDE DEF passed
  <2> QED
    BY <2>1, <2>2 DEF Result
<1> HIDE DEF results
<1>6. Bundle(a, plan, level) =
        [actor |-> a, build |-> robot[a].build, controller |-> robot[a].controller,
         embodiment |-> robot[a].embodiment, env |-> robot[a].env,
         version |-> policy.version, plan |-> plan, results |-> results,
         level |-> level, issued |-> now, until |-> ValidUntil(now)]
  BY DEF Bundle, results
<1> QED
  BY <1>1, <1>2, <1>3, <1>4, <1>5, <1>6 DEF Evidence

\* Every way of planning adds at most a plan.
LEMMA PlanningType ==
    ASSUME TypeOK, NEW a \in Actors, Planning(a)
    PROVE  /\ plans' \subseteq Plan
           /\ UNCHANGED <<now, policy, robot, records, accepted, epoch, call>>
<1>1. policy \in Policies /\ robot[a].embodiment \in Embodiments
  BY RulesAssumption DEF TypeOK
<1>2. IdsOf(policy.reqs) \subseteq Ids
  <2>1. policy.reqs \subseteq Requirement
    BY <1>1, RulesAssumption DEF Policy
  <2> QED
    BY <2>1 DEF IdsOf, Requirement
<1>3. ASSUME NEW c \in Challenges, NEW ids, NEW reused, reused \subseteq Ids,
             NEW unresolved, unresolved \subseteq Ids, NEW level \in Levels,
             AddPlan(PlanFor(c, TestsFor(policy, ids, robot[a].embodiment),
                             reused, unresolved, level))
      PROVE  /\ plans' \subseteq Plan
             /\ UNCHANGED <<now, policy, robot, records, accepted, epoch, call>>
  <2>1. TestsFor(policy, ids, robot[a].embodiment) \subseteq Test
    BY <1>1, TestsForType
  <2> QED
    BY <1>1, <1>3, <2>1 DEF AddPlan, PlanFor, Plan, TypeOK
<1>4. ASSUME NEW c \in Challenges, NEW sources,
             DeriveRequalificationPlan(a, c, sources)
      PROVE  /\ plans' \subseteq Plan
             /\ UNCHANGED <<now, policy, robot, records, accepted, epoch, call>>
  <2> DEFINE reused     == SufficientIds(policy, a, robot[a], sources, now, 2)
             unresolved == IdsOf(policy.reqs) \ reused
  <2>1. reused \subseteq Ids /\ unresolved \subseteq Ids
    BY <1>2 DEF SufficientIds, IdsOf
  <2>2. AddPlan(PlanFor(c, TestsFor(policy, unresolved, robot[a].embodiment),
                        reused, unresolved, 2))
    BY <1>4 DEF DeriveRequalificationPlan, RequalificationPlan
  <2>3. 2 \in Levels
    BY DEF Levels
  <2> HIDE DEF reused, unresolved
  <2> QED
    BY <1>3, <2>1, <2>2, <2>3
<1>5. ASSUME NEW c \in Challenges, NEW k \in Calls, DerivePlan(a, c, k)
      PROVE  /\ plans' \subseteq Plan
             /\ UNCHANGED <<now, policy, robot, records, accepted, epoch, call>>
  <2> DEFINE reused     == TrustedGuarantees(a, k)
             unresolved == IdsOf(policy.reqs) \ reused
  <2>1. reused \subseteq Ids /\ unresolved \subseteq Ids
    BY <1>2 DEF TrustedGuarantees, IdsOf
  <2>2. AddPlan(PlanFor(c, TestsFor(policy, unresolved, robot[a].embodiment),
                        reused, unresolved, 2))
    BY <1>5 DEF DerivePlan
  <2>3. 2 \in Levels
    BY DEF Levels
  <2> HIDE DEF reused, unresolved
  <2> QED
    BY <1>3, <2>1, <2>2, <2>3
<1>6. ASSUME NEW c \in Challenges, NEW x \in ExternalPlans, ReceivePlan(a, c, x)
      PROVE  /\ plans' \subseteq Plan
             /\ UNCHANGED <<now, policy, robot, records, accepted, epoch, call>>
  <2>1. x.reused \subseteq Ids /\ x.unresolved \subseteq Ids /\ x.level \in Levels
    BY ServiceAssumption
  <2> QED
    BY <1>3, <1>6, <2>1 DEF ReceivePlan
<1> QED
  BY <1>4, <1>5, <1>6 DEF Planning

\* Every reachable state is well typed: in particular each bundle a call holds
\* is one the runner could have built and each answer is a profile.
THEOREM TypeCorrect == Spec => []TypeOK
<1>1. Init => TypeOK
  BY RulesAssumption DEF Init, TypeOK
<1>2. TypeOK /\ [Next]_vars => TypeOK'
  <2> SUFFICES ASSUME TypeOK, [Next]_vars PROVE TypeOK'
    OBVIOUS
  <2>1. CASE Tick
    BY <2>1 DEF Tick, TypeOK
  <2>2. CASE RegistryRestart
    BY <2>2 DEF RegistryRestart, TypeOK
  <2>3. ASSUME NEW p \in Policies, PublishPolicy(p)
        PROVE  TypeOK'
    BY <2>3 DEF PublishPolicy, TypeOK
  <2>4. ASSUME NEW a \in Actors, NEW s \in RobotStates, RobotChanges(a, s)
        PROVE  TypeOK'
    BY <2>4 DEF RobotChanges, TypeOK
  <2>5. ASSUME NEW a \in Actors, Planning(a)
        PROVE  TypeOK'
    BY <2>5, PlanningType DEF TypeOK
  <2>6. ASSUME NEW a \in Actors, NEW plan \in plans, NEW level \in RunnerLevels,
               RunTests(a, plan, level)
        PROVE  TypeOK'
    <3>1. Bundle(a, plan, level) \in Evidence
      BY BundleType
    <3>2. [policy |-> policy, plan |-> plan, evidence |-> Bundle(a, plan, level),
           caps |-> robot[a].caps] \in Record
      BY <3>1 DEF Record, TypeOK
    <3> QED
      BY <2>6, <3>2 DEF RunTests, TypeOK
  <2>7. ASSUME NEW a \in Actors, Submitting(a)
        PROVE  TypeOK'
    <3>1. PICK k \in Calls, entry \in Entry, plan \in plans, rec \in records :
            \E sources \in SUBSET SourceRecords : Submit(k, entry, a, plan, rec, sources)
      BY <2>7 DEF Submitting
    <3>2. NoVerdict \in Profile
      BY DEF NoVerdict, Profile
    <3>3. Snapshot(entry, rec.evidence, a) \in CallState
      BY <3>2 DEF Snapshot, CallState, TypeOK, Record
    <3>4. /\ call' = [call EXCEPT ![k] = Snapshot(entry, rec.evidence, a)]
             \/ call' = [call EXCEPT ![k] = Refused]
          /\ UNCHANGED <<now, policy, robot, plans, records, accepted, epoch>>
      BY <3>1 DEF Submit
    <3> QED
      BY <3>3, <3>4 DEF TypeOK
  <2>8. ASSUME NEW k \in Calls, Claim(k)
        PROVE  TypeOK'
    <3> DEFINE s == call[k]
               answer == [s EXCEPT !.stage = "returned", !.epoch = epoch,
                          !.profile = Verdict(s.policy, s.evidence.plan, s.evidence)]
    <3>1. s \in CallState
      BY <2>8 DEF Claim, TypeOK, Idle, Refused
    <3>2. s.evidence.plan.challenge \in Challenges
      BY <3>1 DEF CallState, Evidence, Plan
    <3>3. Verdict(s.policy, s.evidence.plan, s.evidence) \in Profile
      BY <3>1, VerdictType DEF CallState
    <3>4. answer \in CallState
      BY <3>1, <3>3 DEF CallState, TypeOK
    <3>5. /\ accepted' = accepted \cup {s.evidence.plan.challenge}
          /\ call' = [call EXCEPT ![k] = answer] \/ call' = [call EXCEPT ![k] = Refused]
          /\ UNCHANGED <<now, policy, robot, plans, records, epoch>>
      BY <2>8 DEF Claim, ChallengeOf
    <3> QED
      BY <3>2, <3>4, <3>5 DEF TypeOK
  <2>9. ASSUME NEW k \in Calls, Refuse(k)
        PROVE  TypeOK'
    BY <2>9 DEF Refuse, TypeOK
  <2>10. CASE UNCHANGED vars
    BY <2>10 DEF vars, TypeOK
  <2> QED
    BY <2>1, <2>2, <2>3, <2>4, <2>5, <2>6, <2>7, <2>8, <2>9, <2>10 DEF Next
<1> QED
  BY <1>1, <1>2, PTL DEF Spec

-----------------------------------------------------------------------------
(* Proven guarantees.  GuaranteesProven is not inductive: a step that answers
   a call knows only its snapshot.  What carries it is that the snapshot was
   vetted against records that are still there, and that an answer is the
   verdict over the snapshot and nothing else. *)

\* Admission validated s against source records the service still has.
Vetted(s) ==
    /\ \E rec \in records : rec.evidence = s.evidence
    /\ \E sources \in SUBSET SourceRecords :
          EvidenceBackedOK(s.policy, s.evidence.plan, s.evidence, s.actor,
                           s.robot, sources, s.at)

FullLifetimes ==
    \A rec \in records : rec.evidence.until = rec.evidence.issued + Validity

SnapshotsVetted ==
    \A k \in Calls :
        /\ call[k].stage \in {"claiming", "returned"}
             => (call[k].entry = "evidence_backed" => Vetted(call[k]))
        /\ call[k].stage = "returned"
             => call[k].profile = Verdict(call[k].policy, call[k].evidence.plan,
                                          call[k].evidence)

IInv == TypeOK /\ FullLifetimes /\ SnapshotsVetted

\* A source record that admission accepts, and that proves r, backs r.
LEMMA AcceptedRecordBacks ==
    ASSUME NEW s, NEW r, NEW rec, NEW floor,
           s.evidence.plan.level = floor,
           rec.evidence.until = rec.evidence.issued + Validity,
           RecordOK(rec.policy, rec.plan, rec.evidence, s.actor, s.robot, s.at, floor),
           Proves(rec, r, s.policy.place)
    PROVE  Backs(rec, s, r)
<1>1. rec.evidence.plan.policy = rec.policy
  BY DEF RecordOK, Consistent
<1>2. BoundTo(rec.evidence, s.actor, s.robot) /\ InForce(rec.evidence, s.at)
        /\ Assured(rec.evidence, rec.plan, floor)
  BY DEF RecordOK
<1> QED
  BY <1>1, <1>2 DEF Proves, BoundTo, InForce, Assured, Backs

\* What admission guarantees over some source records, one of them backs, or
\* the bundle admitted.
LEMMA GuaranteeBacked ==
    ASSUME NEW s, s.evidence \in Evidence, NEW sources,
           \A rec \in sources \cup {s} :
               rec.evidence.until = rec.evidence.issued + Validity,
           EvidenceBackedOK(s.policy, s.evidence.plan, s.evidence, s.actor,
                            s.robot, sources, s.at),
           NEW r \in Verdict(s.policy, s.evidence.plan, s.evidence).guarantees
    PROVE  \E rec \in sources \cup {s} :
              /\ Backs(rec, s, r)
              /\ \E floor : RecordOK(rec.policy, rec.evidence.plan, rec.evidence,
                                    s.actor, s.robot, s.at, floor)
<1> DEFINE e == s.evidence
           p == e.plan
<1>1. /\ RecordOK(s.policy, p, e, s.actor, s.robot, s.at, 2)
      /\ CoverageOK(s.policy, p)
      /\ p.reused \subseteq
           SufficientIds(s.policy, s.actor, s.robot, sources, s.at, p.level)
  BY DEF EvidenceBackedOK
<1>2. r \in s.policy.reqs /\ r.id \notin Lacking(p, e)
  BY DEF Verdict
<1>3. Unique(s.policy.reqs) /\ p.policy = s.policy
  BY <1>1 DEF RecordOK, Executed, Consistent
<1>4. r.id \in p.reused \/ r.id \in p.unresolved
  BY <1>1, <1>2 DEF CoverageOK, IdsOf
<1>5. CASE r.id \in p.reused
  <2>1. PICK q \in s.policy.reqs :
          q.id = r.id /\ Sufficient(q, s.policy, s.actor, s.robot, sources, s.at, p.level)
    BY <1>1, <1>5 DEF SufficientIds, IdsOf
  <2>2. q = r
    BY <2>1, <1>2, <1>3 DEF Unique
  <2>3. PICK rec \in sources :
          /\ RecordOK(rec.policy, rec.plan, rec.evidence, s.actor, s.robot, s.at, p.level)
          /\ Proves(rec, r, s.policy.place)
    BY <2>1, <2>2 DEF Sufficient
  <2>4. rec.plan = rec.evidence.plan
    BY <2>3 DEF RecordOK, Consistent
  <2> QED
    BY <2>3, <2>4, AcceptedRecordBacks
<1>6. CASE r.id \in p.unresolved
  <2>1. PICK x \in e.results : x.id = r.id
    BY <1>2, <1>6 DEF Lacking, IdsOf
  <2>2. x.passed
    BY <1>2, <2>1 DEF Lacking, IdsOf
  <2>3. x \in Result
    BY <2>1 DEF Evidence
  <2>4. x = [id |-> r.id, passed |-> TRUE]
    BY <2>1, <2>2, <2>3 DEF Result
  <2>5. BoundTo(e, s.actor, s.robot) /\ InForce(e, s.at) /\ Assured(e, p, 2)
    BY <1>1 DEF RecordOK
  <2>6. Backs(s, s, r)
    BY <1>2, <1>3, <2>1, <2>4, <2>5 DEF BoundTo, InForce, Assured, Backs
  <2> QED
    BY <1>1, <2>6
<1> QED
  BY <1>4, <1>5, <1>6

\* What a vetted snapshot guarantees, fresh or reused, some record backs.
LEMMA VettedGuaranteesBacked ==
    ASSUME FullLifetimes, NEW s, Vetted(s), s.evidence \in Evidence,
           NEW r \in Verdict(s.policy, s.evidence.plan, s.evidence).guarantees
    PROVE  \E rec \in records : Backs(rec, s, r)
<1>1. PICK sources \in SUBSET SourceRecords :
        EvidenceBackedOK(s.policy, s.evidence.plan, s.evidence, s.actor, s.robot,
                         sources, s.at)
  BY DEF Vetted
<1>2. \A rec \in sources \cup {s} :
        \E original \in records : original.evidence = rec.evidence
  BY <1>1 DEF Vetted, SourceRecords
<1>3. PICK rec \in sources \cup {s} : Backs(rec, s, r)
  BY <1>1, <1>2, GuaranteeBacked DEF FullLifetimes
<1> QED
  BY <1>2, <1>3 DEF Backs

LEMMA IInvImpliesGuaranteesProven ==
    ASSUME IInv PROVE GuaranteesProven
<1> SUFFICES ASSUME NEW k \in Calls, Enforced(k),
                    NEW r \in call[k].profile.guarantees
             PROVE  \E rec \in records : Backs(rec, call[k], r)
  BY DEF GuaranteesProven
<1>1. /\ call[k].stage = "returned" /\ call[k].entry = "evidence_backed"
      /\ call[k] \in CallState
  BY DEF Enforced, Granted, Answered, IInv, TypeOK, Idle, Refused
<1>2. /\ Vetted(call[k])
      /\ call[k].profile = Verdict(call[k].policy, call[k].evidence.plan, call[k].evidence)
  BY <1>1 DEF IInv, SnapshotsVetted
<1>3. call[k].evidence \in Evidence
  BY <1>1 DEF CallState
<1> QED
  BY <1>2, <1>3, VettedGuaranteesBacked DEF IInv

\* Steps that keep the calls and every record keep the snapshots vetted.
LEMMA RecordsGrow ==
    ASSUME IInv, records \subseteq records', call' = call, FullLifetimes', TypeOK'
    PROVE  IInv'
<1>1. ASSUME NEW k \in Calls, Vetted(call[k])
      PROVE  Vetted(call[k])'
  <2>1. SourceRecords \subseteq SourceRecords'
    BY DEF SourceRecords
  <2> QED
    BY <1>1, <2>1 DEF Vetted
<1> QED
  BY <1>1 DEF IInv, SnapshotsVetted

LEMMA IInvSubmitting ==
    ASSUME IInv, NEW a \in Actors, Submitting(a), TypeOK'
    PROVE  IInv'
<1>1. PICK k \in Calls, entry \in Entry, plan \in plans, rec \in records,
           sources \in SUBSET SourceRecords : Submit(k, entry, a, plan, rec, sources)
  BY DEF Submitting
<1>2. records' = records /\ FullLifetimes' /\ SourceRecords' = SourceRecords
  BY <1>1 DEF Submit, IInv, FullLifetimes, SourceRecords
<1> DEFINE s == Snapshot(entry, rec.evidence, a)
<1>3. ASSUME Validated(entry, rec.evidence, a, plan, sources), entry = "evidence_backed"
      PROVE  Vetted(s)
  BY <1>3 DEF Validated, AdmitOK, Vetted, Snapshot
<1>4. \/ call' = [call EXCEPT ![k] = Refused]
      \/ /\ call' = [call EXCEPT ![k] = s]
         /\ Validated(entry, rec.evidence, a, plan, sources)
  BY <1>1 DEF Submit
<1>5. ASSUME NEW l \in Calls, l # k
      PROVE  call'[l] = call[l]
  BY <1>4, <1>5 DEF IInv, TypeOK
<1>6. call'[k] = Refused \/ (call'[k] = s /\ Validated(entry, rec.evidence, a, plan, sources))
  BY <1>4 DEF IInv, TypeOK
<1>7. s.stage = "claiming" /\ s.entry = entry /\ Refused.stage = "refused"
  BY DEF Snapshot, Refused
<1>8. ASSUME NEW l \in Calls
      PROVE  /\ call'[l].stage \in {"claiming", "returned"}
                  => (call'[l].entry = "evidence_backed" => Vetted(call[l])')
             /\ call'[l].stage = "returned"
                  => call'[l].profile = Verdict(call'[l].policy, call'[l].evidence.plan,
                                                call'[l].evidence)
  <2>1. CASE l # k
    BY <2>1, <1>2, <1>5 DEF IInv, SnapshotsVetted, Vetted
  <2>2. CASE l = k
    BY <2>2, <1>2, <1>3, <1>6, <1>7 DEF Vetted
  <2> QED
    BY <2>1, <2>2
<1> QED
  BY <1>2, <1>8 DEF IInv, SnapshotsVetted

LEMMA IInvClaim ==
    ASSUME IInv, NEW k \in Calls, Claim(k), TypeOK'
    PROVE  IInv'
<1> DEFINE s      == call[k]
           answer == [s EXCEPT !.stage = "returned", !.epoch = epoch,
                      !.profile = Verdict(s.policy, s.evidence.plan, s.evidence)]
<1>1. records' = records /\ FullLifetimes' /\ SourceRecords' = SourceRecords
  BY DEF Claim, IInv, FullLifetimes, SourceRecords
<1>2. s \in CallState /\ s.stage = "claiming"
  BY DEF Claim, IInv, TypeOK, Idle, Refused
<1>3. /\ answer.stage = "returned" /\ answer.entry = s.entry /\ answer.actor = s.actor
      /\ answer.robot = s.robot /\ answer.policy = s.policy
      /\ answer.evidence = s.evidence /\ answer.at = s.at
      /\ answer.profile = Verdict(s.policy, s.evidence.plan, s.evidence)
  BY <1>2 DEF CallState
<1>4. call' = [call EXCEPT ![k] = Refused] \/ call' = [call EXCEPT ![k] = answer]
  BY DEF Claim
<1> HIDE DEF answer
<1>5. ASSUME NEW l \in Calls, l # k
      PROVE  call'[l] = call[l]
  BY <1>4, <1>5 DEF IInv, TypeOK
<1>6. call'[k] = Refused \/ call'[k] = answer
  BY <1>4 DEF IInv, TypeOK
<1>7. s.entry = "evidence_backed" => Vetted(answer)
  BY <1>2, <1>3 DEF IInv, SnapshotsVetted, Vetted
<1>8. ASSUME NEW l \in Calls
      PROVE  /\ call'[l].stage \in {"claiming", "returned"}
                  => (call'[l].entry = "evidence_backed" => Vetted(call[l])')
             /\ call'[l].stage = "returned"
                  => call'[l].profile = Verdict(call'[l].policy, call'[l].evidence.plan,
                                                call'[l].evidence)
  <2>1. CASE l # k
    BY <2>1, <1>1, <1>5 DEF IInv, SnapshotsVetted, Vetted
  <2>2. CASE l = k
    BY <2>2, <1>1, <1>3, <1>6, <1>7 DEF Vetted, Refused
  <2> QED
    BY <2>1, <2>2
<1> QED
  BY <1>1, <1>8 DEF IInv, SnapshotsVetted

LEMMA IInvRefuse ==
    ASSUME IInv, NEW k \in Calls, Refuse(k), TypeOK'
    PROVE  IInv'
<1>1. records' = records /\ FullLifetimes' /\ SourceRecords' = SourceRecords
  BY DEF Refuse, IInv, FullLifetimes, SourceRecords
<1>2. \A l \in Calls : call'[l] = call[l] \/ call'[l] = Refused
  BY DEF Refuse, IInv, TypeOK
<1> QED
  BY <1>1, <1>2 DEF IInv, SnapshotsVetted, Vetted, Refused

\* IInv is inductive.
LEMMA IInvInductive ==
    /\ Init => IInv
    /\ IInv /\ TypeOK' /\ [Next]_vars => IInv'
<1>1. Init => IInv
  BY RulesAssumption DEF Init, IInv, TypeOK, FullLifetimes, SnapshotsVetted, Idle
<1>2. ASSUME IInv, TypeOK', [Next]_vars
      PROVE  IInv'
  <2>1. ASSUME call' = call, records' = records
        PROVE  IInv'
    BY <1>2, <2>1, RecordsGrow DEF IInv, FullLifetimes
  <2>2. CASE Tick
    BY <2>1, <2>2 DEF Tick
  <2>3. CASE RegistryRestart
    BY <2>1, <2>3 DEF RegistryRestart
  <2>4. ASSUME NEW p \in Policies, PublishPolicy(p)
        PROVE  IInv'
    BY <2>1, <2>4 DEF PublishPolicy
  <2>5. ASSUME NEW a \in Actors, NEW s \in RobotStates, RobotChanges(a, s)
        PROVE  IInv'
    BY <2>1, <2>5 DEF RobotChanges
  <2>6. ASSUME NEW a \in Actors, Planning(a)
        PROVE  IInv'
    BY <1>2, <2>1, <2>6, PlanningType DEF IInv
  <2>7. ASSUME NEW a \in Actors, NEW plan \in plans, NEW level \in RunnerLevels,
               RunTests(a, plan, level)
        PROVE  IInv'
    <3>1. Bundle(a, plan, level).until = Bundle(a, plan, level).issued + Validity
      BY DEF Bundle, ValidUntil
    <3>2. FullLifetimes'
      BY <1>2, <2>7, <3>1 DEF RunTests, IInv, FullLifetimes
    <3> QED
      BY <1>2, <2>7, <3>2, RecordsGrow DEF RunTests
  <2>8. ASSUME NEW a \in Actors, Submitting(a)
        PROVE  IInv'
    BY <1>2, <2>8, IInvSubmitting
  <2>9. ASSUME NEW k \in Calls, Claim(k)
        PROVE  IInv'
    BY <1>2, <2>9, IInvClaim
  <2>10. ASSUME NEW k \in Calls, Refuse(k)
         PROVE  IInv'
    BY <1>2, <2>10, IInvRefuse
  <2>11. CASE UNCHANGED vars
    BY <2>1, <2>11 DEF vars
  <2> QED
    BY <1>2, <2>2, <2>3, <2>4, <2>5, <2>6, <2>7, <2>8, <2>9, <2>10, <2>11 DEF Next
<1> QED
  BY <1>1, <1>2

THEOREM SnapshotsStayVetted == Spec => []IInv
BY IInvInductive, TypeCorrect, PTL DEF Spec

\* Every guarantee of every evidence-backed profile is backed by an original
\* passing test of the robot as admitted, younger than the validity period.
THEOREM GuaranteesAreProven == Spec => []GuaranteesProven
BY SnapshotsStayVetted, IInvImpliesGuaranteesProven, PTL

-----------------------------------------------------------------------------
(* Guarantees that hold.  The bundle of a record tells the truth about the
   robot the runner had, through the bounds of the policy the runner had. *)

RecordTrue(rec) ==
    LET e == rec.evidence IN
    /\ e.plan = rec.plan /\ e.version = rec.policy.version /\ rec.policy \in Policies
    /\ \E st \in RobotStates :
          /\ rec.caps = st.caps
          /\ <<e.build, e.controller, e.embodiment, e.env>>
               = <<st.build, st.controller, st.embodiment, st.env>>
    /\ \A x \in e.results : x.passed =>
          \E t \in rec.plan.tests, r \in rec.policy.reqs :
              t.id = x.id /\ r.id = x.id /\ Satisfies(r, rec.caps, t.capability)

Truthful == \A rec \in records : RecordTrue(rec)

LEMMA TruthfulInductive ==
    ASSUME TypeOK, Truthful, [Next]_vars PROVE Truthful'
<1>1. ASSUME NEW a \in Actors, NEW plan \in plans, NEW level \in RunnerLevels,
             RunTests(a, plan, level)
      PROVE  Truthful'
  <2> DEFINE rec == [policy |-> policy, plan |-> plan,
                     evidence |-> Bundle(a, plan, level), caps |-> robot[a].caps]
  <2>1. policy \in Policies /\ robot[a] \in RobotStates
    BY DEF TypeOK
  <2>2. RecordTrue(rec)
    BY <2>1 DEF RecordTrue, Bundle
  <2>3. records' = records \cup {rec}
    BY <1>1 DEF RunTests
  <2> HIDE DEF rec
  <2> QED
    BY <2>2, <2>3 DEF Truthful, RecordTrue
<1>2. ASSUME UNCHANGED records
      PROVE  Truthful'
  BY <1>2 DEF Truthful
<1>3. ASSUME NEW a \in Actors, Planning(a)
      PROVE  UNCHANGED records
  BY <1>3, PlanningType
<1> QED
  BY <1>1, <1>2, <1>3 DEF Next, vars, Tick, RegistryRestart, PublishPolicy, RobotChanges,
                          Submitting, Submit, Refuse, Claim

\* A bound that is met, meets what it entails.
LEMMA EntailsSound ==
    ASSUME NEW q \in Requirement, NEW r \in Requirement, Entails(q, r),
           NEW caps, NEW c, c \in DOMAIN caps => caps[c] \in Int,
           Satisfies(q, caps, c)
    PROVE  Satisfies(r, caps, c)
<1>1. q.value \in Int /\ r.value \in Int
  BY DEF Requirement
<1> QED
  BY <1>1 DEF Entails, Satisfies

\* In a deployment whose versions identify requirements and whose fingerprints
\* determine what a robot can do, the robot admitted had what it was admitted for.
LEMMA TruthfulGuaranteesHold ==
    ASSUME IInv, Truthful, VersionsIdentify, FingerprintsDetermine, OneVersion
    PROVE  GuaranteesHold
<1> SUFFICES ASSUME NEW k \in Calls, Enforced(k), NEW r \in call[k].profile.guarantees
             PROVE  Satisfies(r, call[k].robot.caps,
                              MeasuredBy(r, call[k].robot.embodiment))
  BY DEF GuaranteesHold
<1> DEFINE s == call[k]
<1>1. /\ s.stage = "returned" /\ s.entry = "evidence_backed" /\ s \in CallState
  BY DEF Enforced, Granted, Answered, IInv, TypeOK, Idle, Refused
<1>2. s.profile = Verdict(s.policy, s.evidence.plan, s.evidence) /\ Vetted(s)
  BY <1>1 DEF IInv, SnapshotsVetted
<1>3. PICK sources \in SUBSET SourceRecords :
        EvidenceBackedOK(s.policy, s.evidence.plan, s.evidence, s.actor, s.robot,
                         sources, s.at)
  BY <1>2 DEF Vetted
<1>4. \A rec \in sources \cup {s} :
        \E original \in records : original.evidence = rec.evidence
  BY <1>2 DEF Vetted, SourceRecords
<1>5. \A rec \in sources \cup {s} : rec.evidence.until = rec.evidence.issued + Validity
  BY <1>4 DEF IInv, FullLifetimes
<1>6. s.evidence \in Evidence /\ s.robot \in RobotStates /\ s.policy \in Policies
  BY <1>1 DEF CallState
<1>7. PICK rec \in sources \cup {s} :
        /\ Backs(rec, s, r)
        /\ \E floor : RecordOK(rec.policy, rec.evidence.plan, rec.evidence,
                              s.actor, s.robot, s.at, floor)
  BY <1>2, <1>3, <1>5, <1>6, GuaranteeBacked
<1>8. PICK original \in records : original.evidence = rec.evidence
  BY <1>4
<1> DEFINE e == rec.evidence
           p == e.plan.policy
<1>9. /\ p = rec.policy /\ e.version = p.version
      /\ Executed(p, e.plan, e, s.robot.embodiment) /\ BoundTo(e, s.actor, s.robot)
  BY <1>7 DEF RecordOK, Consistent
<1>10. RecordTrue(original)
  BY DEF Truthful
<1>11. p \in Policies
  BY <1>8 DEF IInv, TypeOK, Record, Evidence, Plan
<1>12. PICK source \in p.reqs :
         source.id = r.id /\ (source = r \/ Entails(source, r))
  BY <1>7 DEF Backs
<1>13. r \in s.policy.reqs
  BY <1>2 DEF Verdict
<1>14. source \in Requirement /\ r \in Requirement /\ source.version = r.version
  <2>1. p.reqs \subseteq Requirement /\ s.policy.reqs \subseteq Requirement
    BY <1>6, <1>11, RulesAssumption DEF Policy
  <2> QED
    BY <1>6, <1>11, <1>12, <1>13, <2>1 DEF OneVersion
<1>15. PICK t \in original.plan.tests, q \in original.policy.reqs :
         t.id = r.id /\ q.id = r.id /\ Satisfies(q, original.caps, t.capability)
  <2>1. [id |-> r.id, passed |-> TRUE] \in original.evidence.results
    BY <1>7, <1>8 DEF Backs
  <2> QED
    BY <1>10, <2>1 DEF RecordTrue
<1>16. q = source
  BY <1>8, <1>9, <1>10, <1>11, <1>12, <1>15 DEF RecordTrue, VersionsIdentify
<1>17. t.capability = MeasuredBy(r, s.robot.embodiment)
  <2>1. t \in e.plan.tests
    BY <1>8, <1>10, <1>15 DEF RecordTrue
  <2>2. PICK r2 \in p.reqs : t = TestFor(r2, s.robot.embodiment)
    BY <1>9, <2>1 DEF Executed
  <2>3. r2 = source
    BY <1>9, <1>12, <1>15, <2>2 DEF Executed, Unique, TestFor
  <2> QED
    BY <1>12, <1>14, <2>2, <2>3 DEF TestFor, MeasuredBy
<1>18. original.caps = s.robot.caps
  BY <1>6, <1>8, <1>9, <1>10 DEF RecordTrue, BoundTo, FingerprintsDetermine
<1>19. Satisfies(source, s.robot.caps, MeasuredBy(r, s.robot.embodiment))
  BY <1>15, <1>16, <1>17, <1>18
<1>20. \A c \in DOMAIN s.robot.caps : s.robot.caps[c] \in Int
  BY <1>6, RulesAssumption
<1> QED
  BY <1>12, <1>14, <1>19, <1>20, EntailsSound

\* For every deployment that keeps the three assumptions: what an evidence-backed
\* profile guarantees, the robot had when it was admitted.
THEOREM GuaranteesReallyHold ==
    ASSUME VersionsIdentify, FingerprintsDetermine, OneVersion
    PROVE  Spec => []GuaranteesHold
<1>1. Init => Truthful
  BY DEF Init, Truthful
<1>2. Spec => []Truthful
  BY <1>1, TypeCorrect, TruthfulInductive, PTL DEF Spec
<1>3. ASSUME IInv, Truthful
      PROVE  GuaranteesHold
  BY <1>3, TruthfulGuaranteesHold
<1> QED
  BY <1>2, <1>3, SnapshotsStayVetted, PTL

-----------------------------------------------------------------------------
(* Completeness of the account. *)

\* An evidence-backed profile never leaves a requirement of its policy out,
\* and trades only non-essential ones for their restriction.
THEOREM NothingIsOmitted == Spec => []NothingOmitted
<1>1. ASSUME IInv, NEW k \in Calls, Enforced(k), NEW r \in call[k].policy.reqs,
             r \notin call[k].profile.guarantees
      PROVE  /\ call[k].profile.status = "DEGRADED"
             /\ ~r.essential /\ r.id # HumanSeparation
             /\ r.restriction \in call[k].profile.restrictions \ {NoRestriction}
  <2> DEFINE s == call[k]
             lacking == {q \in s.policy.reqs : q.id \in Lacking(s.evidence.plan, s.evidence)}
  <2>1. /\ s.profile = Verdict(s.policy, s.evidence.plan, s.evidence)
        /\ Vetted(s)
        /\ s.profile.status # "DENIED"
    BY <1>1 DEF IInv, SnapshotsVetted, Enforced, Granted, Answered
  <2>2. r \in lacking
    BY <1>1, <2>1 DEF Verdict
  <2>3. ~r.essential
    BY <2>1, <2>2 DEF Vetted, EvidenceBackedOK
  <2>4. \A q \in lacking : Degradable(q)
    BY <2>1 DEF Verdict
  <2>5. /\ s.profile.status = "DEGRADED"
        /\ r.restriction \in s.profile.restrictions
    BY <2>1, <2>2, <2>4 DEF Verdict
  <2> QED
    BY <2>2, <2>3, <2>4, <2>5 DEF Degradable
<1>2. IInv => NothingOmitted
  BY <1>1 DEF NothingOmitted
<1> QED
  BY <1>2, SnapshotsStayVetted, PTL

-----------------------------------------------------------------------------
(* One registry, many callers. *)

\* The registry remembers every challenge answered in its lifetime.
RegistryInv ==
    \A k \in Calls : Answered(k) =>
        /\ call[k].epoch <= epoch
        /\ call[k].epoch = epoch => ChallengeOf(k) \in accepted

NonceInv == RegistryInv /\ SingleUse /\ NonceKept

LEMMA NonceInvClaim ==
    ASSUME TypeOK, NonceInv, NEW k \in Calls, Claim(k)
    PROVE  NonceInv'
<1> DEFINE s == call[k]
           c == s.evidence.plan.challenge
           answer == [s EXCEPT !.stage = "returned", !.epoch = epoch,
                      !.profile = Verdict(s.policy, s.evidence.plan, s.evidence)]
<1>1. s \in CallState /\ s.stage = "claiming"
  BY DEF Claim, TypeOK, Idle, Refused
<1>2. accepted' = accepted \cup {c} /\ epoch' = epoch
  BY DEF Claim, ChallengeOf
<1>3. \/ c \in accepted /\ call' = [call EXCEPT ![k] = Refused]
      \/ c \notin accepted /\ call' = [call EXCEPT ![k] = answer]
  BY DEF Claim, ChallengeOf, Claimable
<1>4. answer.stage = "returned" /\ answer.epoch = epoch /\ answer.evidence = s.evidence
  BY <1>1 DEF CallState
<1> HIDE DEF answer
<1>5. ASSUME NEW l \in Calls, l # k
      PROVE  call'[l] = call[l]
  BY <1>3, <1>5 DEF TypeOK
<1>6. \/ c \in accepted /\ call'[k] = Refused
      \/ c \notin accepted /\ call'[k] = answer
  BY <1>3 DEF TypeOK
<1>7. ~Answered(k)
  BY <1>1 DEF Answered
<1>8. RegistryInv'
  BY <1>2, <1>4, <1>5, <1>6 DEF NonceInv, RegistryInv, Answered, ChallengeOf, Refused, TypeOK
<1>9. SingleUse'
  <2> SUFFICES ASSUME NEW l \in Calls, Answered(l)', l # k, Answered(k)',
                      call'[l].epoch = call'[k].epoch
               PROVE  ChallengeOf(l)' # ChallengeOf(k)'
    BY <1>5 DEF NonceInv, SingleUse, Answered, ChallengeOf
  <2>1. c \notin accepted /\ call'[k] = answer
    BY <1>6 DEF Answered, Refused
  <2>2. Answered(l) /\ call[l].epoch = epoch
    BY <1>4, <1>5, <2>1 DEF Answered
  <2>3. ChallengeOf(l) \in accepted
    BY <2>2 DEF NonceInv, RegistryInv
  <2> QED
    BY <1>4, <1>5, <2>1, <2>3 DEF ChallengeOf
<1>10. NonceKept'
  BY <1>2, <1>4, <1>5, <1>6, <1>7 DEF NonceInv, NonceKept, Answered, ChallengeOf
<1> QED
  BY <1>8, <1>9, <1>10 DEF NonceInv

LEMMA NonceInvInductive ==
    /\ Init => NonceInv
    /\ TypeOK /\ NonceInv /\ [Next]_vars => NonceInv'
<1>1. Init => NonceInv
  BY DEF Init, NonceInv, RegistryInv, SingleUse, NonceKept, Answered, Idle
<1>2. ASSUME TypeOK, NonceInv, [Next]_vars
      PROVE  NonceInv'
  <2>1. ASSUME call' = call, accepted' = accepted, epoch' = epoch
        PROVE  NonceInv'
    BY <1>2, <2>1 DEF NonceInv, RegistryInv, SingleUse, NonceKept, Answered, ChallengeOf
  <2>2. CASE Tick
    BY <2>1, <2>2 DEF Tick
  <2>3. CASE RegistryRestart
    <3>1. call' = call /\ accepted' = {} /\ epoch' = epoch + 1 /\ epoch \in Nat
      BY <1>2, <2>3 DEF RegistryRestart, TypeOK
    <3>2. \A k \in Calls : Answered(k)' => call'[k].epoch \in Nat /\ call'[k].epoch <= epoch
      BY <1>2, <3>1 DEF NonceInv, RegistryInv, Answered, TypeOK, CallState, Idle, Refused
    <3>3. RegistryInv'
      BY <3>1, <3>2 DEF RegistryInv
    <3>4. SingleUse' /\ NonceKept'
      BY <1>2, <3>1 DEF NonceInv, SingleUse, NonceKept, Answered, ChallengeOf
    <3> QED
      BY <3>3, <3>4 DEF NonceInv
  <2>4. ASSUME NEW p \in Policies, PublishPolicy(p)
        PROVE  NonceInv'
    BY <2>1, <2>4 DEF PublishPolicy
  <2>5. ASSUME NEW a \in Actors, NEW s \in RobotStates, RobotChanges(a, s)
        PROVE  NonceInv'
    BY <2>1, <2>5 DEF RobotChanges
  <2>6. ASSUME NEW a \in Actors, Planning(a)
        PROVE  NonceInv'
    BY <1>2, <2>1, <2>6, PlanningType
  <2>7. ASSUME NEW a \in Actors, NEW plan \in plans, NEW level \in RunnerLevels,
               RunTests(a, plan, level)
        PROVE  NonceInv'
    BY <2>1, <2>7 DEF RunTests
  <2>8. ASSUME NEW a \in Actors, Submitting(a)
        PROVE  NonceInv'
    <3>1. PICK k \in Calls, entry \in Entry, plan \in plans, rec \in records,
               sources \in SUBSET SourceRecords : Submit(k, entry, a, plan, rec, sources)
      BY <2>8 DEF Submitting
    <3>2. /\ call[k] = Idle
          /\ \/ call' = [call EXCEPT ![k] = Refused]
             \/ call' = [call EXCEPT ![k] = Snapshot(entry, rec.evidence, a)]
          /\ accepted' = accepted /\ epoch' = epoch
      BY <3>1 DEF Submit
    <3>3. ~Answered(k) /\ ~Answered(k)'
      BY <1>2, <3>2 DEF Answered, Idle, Refused, Snapshot, TypeOK
    <3>4. \A l \in Calls : l # k => call'[l] = call[l]
      BY <1>2, <3>2 DEF TypeOK
    <3> QED
      BY <1>2, <3>2, <3>3, <3>4 DEF NonceInv, RegistryInv, SingleUse, NonceKept,
                                    Answered, ChallengeOf
  <2>9. ASSUME NEW k \in Calls, Claim(k)
        PROVE  NonceInv'
    BY <1>2, <2>9, NonceInvClaim
  <2>10. ASSUME NEW k \in Calls, Refuse(k)
         PROVE  NonceInv'
    <3>1. /\ ~Answered(k) /\ ~Answered(k)'
          /\ \A l \in Calls : l # k => call'[l] = call[l]
          /\ accepted' = accepted /\ epoch' = epoch
      BY <1>2, <2>10 DEF Refuse, Answered, Idle, Refused, TypeOK
    <3> QED
      BY <1>2, <3>1 DEF NonceInv, RegistryInv, SingleUse, NonceKept,
                        Answered, ChallengeOf
  <2>11. CASE UNCHANGED vars
    BY <2>1, <2>11 DEF vars
  <2> QED
    BY <1>2, <2>2, <2>3, <2>4, <2>5, <2>6, <2>7, <2>8, <2>9, <2>10, <2>11 DEF Next
<1> QED
  BY <1>1, <1>2

\* No two answered calls of one registry lifetime share a challenge.
THEOREM ChallengesAreSingleUse == Spec => []SingleUse
<1>1. NonceInv => SingleUse
  BY DEF NonceInv
<1> QED
  BY <1>1, NonceInvInductive, TypeCorrect, PTL DEF Spec

\* No challenge is spent without an answered call.
THEOREM NoncesAreKept == Spec => []NonceKept
<1>1. NonceInv => NonceKept
  BY DEF NonceInv
<1> QED
  BY <1>1, NonceInvInductive, TypeCorrect, PTL DEF Spec

\* A call under way is left alone by every step but its own claim.
LEMMA OnlyClaimsFinish ==
    ASSUME TypeOK, [Next]_vars, NEW k \in Calls, call[k].stage = "claiming",
           call'[k] # call[k]
    PROVE  Claim(k)
<1>1. ASSUME NEW a \in Actors, Planning(a)
      PROVE  call' = call
  BY <1>1, PlanningType
<1>2. ASSUME NEW a \in Actors, Submitting(a)
      PROVE  call'[k] = call[k]
  <2>1. PICK l \in Calls : call[l] = Idle /\ \E c : call' = [call EXCEPT ![l] = c]
    BY <1>2 DEF Submitting, Submit
  <2> QED
    BY <2>1 DEF Idle, TypeOK
<1>3. ASSUME NEW l \in Calls, Refuse(l)
      PROVE  call'[k] = call[k]
  BY <1>3 DEF Refuse, Idle, TypeOK
<1>4. ASSUME NEW l \in Calls, l # k, Claim(l)
      PROVE  call'[k] = call[k]
  BY <1>4 DEF Claim, TypeOK
<1> QED
  BY <1>1, <1>2, <1>3, <1>4 DEF Next, vars, Tick, RegistryRestart, PublishPolicy,
                                RobotChanges, RunTests

\* A validated call is turned away only by an answered call that has its
\* challenge in the registry's present lifetime.  With the fairness of Claim
\* this is why calls that race do not all lose.
THEOREM LosersLostToWinners == Spec => LosersHaveWinner
<1>1. ASSUME TypeOK, NonceInv, [Next]_vars, NEW k \in Calls,
             call[k].stage = "claiming", call'[k] # call[k]
      PROVE  \E l \in Calls : /\ Answered(l)' /\ ChallengeOf(l)' = ChallengeOf(k)
                              /\ call'[l].epoch = epoch
  <2> DEFINE s      == call[k]
             answer == [s EXCEPT !.stage = "returned", !.epoch = epoch,
                        !.profile = Verdict(s.policy, s.evidence.plan, s.evidence)]
  <2>1. Claim(k)
    BY <1>1, OnlyClaimsFinish
  <2>2. s \in CallState
    BY <1>1 DEF TypeOK, Idle, Refused
  <2>3. CASE Claimable(ChallengeOf(k))
    <3>1. call'[k] = answer
      BY <1>1, <2>1, <2>3 DEF Claim, TypeOK
    <3>2. answer.stage = "returned" /\ answer.evidence = s.evidence /\ answer.epoch = epoch
      BY <2>2 DEF CallState
    <3> QED
      BY <3>1, <3>2 DEF Answered, ChallengeOf
  <2>4. CASE ~Claimable(ChallengeOf(k))
    <3>1. PICK l \in Calls : /\ Answered(l) /\ ChallengeOf(l) = ChallengeOf(k)
                             /\ call[l].epoch = epoch
      BY <1>1, <2>4 DEF Claimable, NonceInv, NonceKept
    <3>2. l # k
      BY <1>1, <3>1 DEF Answered
    <3>3. call'[l] = call[l]
      BY <1>1, <2>1, <3>2 DEF Claim, TypeOK
    <3> QED
      BY <3>1, <3>3 DEF Answered, ChallengeOf
  <2> QED
    BY <2>3, <2>4
<1>2. TypeOK /\ NonceInv /\ [Next]_vars
        => [\A k \in Calls :
               call[k].stage = "claiming" /\ call'[k] # call[k] =>
                   \E l \in Calls : /\ Answered(l)' /\ ChallengeOf(l)' = ChallengeOf(k)
                                    /\ call'[l].epoch = epoch]_vars
  BY <1>1
<1> QED
  BY <1>2, NonceInvInductive, TypeCorrect, PTL DEF Spec, LosersHaveWinner

-----------------------------------------------------------------------------
(* Planner, runner and admission agree. *)

\* A test the planner selects is the one test of one requirement.
LEMMA TestsSelected ==
    ASSUME NEW p, Unique(p.reqs), NEW ids, NEW m
    PROVE  /\ Unique(TestsFor(p, ids, m))
           /\ IdsOf(TestsFor(p, ids, m)) \subseteq ids
           /\ \A t \in TestsFor(p, ids, m) : \E r \in p.reqs :
                 Mapped(r, m) /\ t = TestFor(r, m)
           /\ \A r \in p.reqs : r.id \in ids /\ Mapped(r, m) =>
                 TestFor(r, m) \in TestsFor(p, ids, m)
           /\ \A r \in p.reqs, t \in TestsFor(p, ids, m) :
                 t.id = r.id => r.id \in ids /\ Mapped(r, m) /\ t = TestFor(r, m)
<1>1. ASSUME NEW t \in TestsFor(p, ids, m)
      PROVE  \E r \in p.reqs : r.id \in ids /\ Mapped(r, m) /\ t = TestFor(r, m)
  BY DEF TestsFor
<1>2. ASSUME NEW r
      PROVE  TestFor(r, m).id = r.id
  BY DEF TestFor
<1>3. \A r \in p.reqs, t \in TestsFor(p, ids, m) :
         t.id = r.id => r.id \in ids /\ Mapped(r, m) /\ t = TestFor(r, m)
  BY <1>1, <1>2 DEF Unique
<1>4. Unique(TestsFor(p, ids, m))
  BY <1>1, <1>2 DEF Unique
<1>5. IdsOf(TestsFor(p, ids, m)) \subseteq ids
  BY <1>1, <1>2 DEF IdsOf
<1>6. \A r \in p.reqs : r.id \in ids /\ Mapped(r, m) =>
         TestFor(r, m) \in TestsFor(p, ids, m)
  BY DEF TestsFor
<1> QED
  BY <1>1, <1>3, <1>4, <1>5, <1>6

\* In a fresh bundle of a derived plan exactly the unresolved requirements the
\* robot cannot show are lacking.
LEMMA BundleShows ==
    ASSUME NEW a \in Actors, NEW plan, NEW level, Unique(policy.reqs),
           plan.unresolved \subseteq IdsOf(policy.reqs),
           plan.tests = TestsFor(policy, plan.unresolved, robot[a].embodiment),
           NEW lacking,
           lacking = {r \in policy.reqs :
               /\ r.id \in plan.unresolved
               /\ ~(/\ Mapped(r, robot[a].embodiment)
                    /\ Satisfies(r, robot[a].caps, MeasuredBy(r, robot[a].embodiment)))}
    PROVE  LET e == Bundle(a, plan, level) IN
           /\ Unique(e.results) /\ IdsOf(e.results) = IdsOf(plan.tests)
           /\ lacking = {r \in policy.reqs : r.id \in Lacking(plan, e)}
           /\ Lacking(plan, e) = IdsOf(lacking)
<1> DEFINE m == robot[a].embodiment
           caps == robot[a].caps
           e == Bundle(a, plan, level)
           passed(t) == \E r \in policy.reqs : r.id = t.id /\ Satisfies(r, caps, t.capability)
           result(t) == [id |-> t.id, passed |-> passed(t)]
           results == {result(t) : t \in plan.tests}
<1>1. e.results = results
  BY DEF Bundle
<1>2. /\ Unique(plan.tests) /\ IdsOf(plan.tests) \subseteq plan.unresolved
      /\ \A r \in policy.reqs : r.id \in plan.unresolved /\ Mapped(r, m) =>
            TestFor(r, m) \in plan.tests
      /\ \A r \in policy.reqs, t \in plan.tests :
            t.id = r.id => r.id \in plan.unresolved /\ Mapped(r, m) /\ t = TestFor(r, m)
  BY TestsSelected
<1>3. \A t : result(t).id = t.id /\ result(t).passed = passed(t)
  OBVIOUS
<1>4. ASSUME NEW r \in policy.reqs
      PROVE  passed(TestFor(r, m)) <=> Satisfies(r, caps, MeasuredBy(r, m))
  BY DEF TestFor, Unique
<1> HIDE DEF e, m, caps, passed
<1>5. Unique(results)
  BY <1>2, <1>3 DEF Unique
<1>6. IdsOf(results) = IdsOf(plan.tests)
  BY <1>3 DEF IdsOf
<1>7. ASSUME NEW id \in IdsOf(policy.reqs)
      PROVE  id \in Lacking(plan, e) <=>
               \/ \E t \in plan.tests : t.id = id /\ ~passed(t)
               \/ id \in plan.unresolved /\ ~\E t \in plan.tests : t.id = id
  <2>1. id \in IdsOf({x \in results : ~x.passed})
           <=> \E t \in plan.tests : t.id = id /\ ~passed(t)
    BY <1>3, Zenon DEF IdsOf
  <2>2. id \in IdsOf(results) <=> \E t \in plan.tests : t.id = id
    BY <1>6 DEF IdsOf
  <2> QED
    BY <1>1, <2>1, <2>2 DEF Lacking
<1>8. Lacking(plan, e) \subseteq IdsOf(policy.reqs)
  BY <1>1, <1>2, <1>3 DEF Lacking, IdsOf
<1>9. ASSUME NEW r \in policy.reqs
      PROVE  r.id \in Lacking(plan, e) <=> r \in lacking
  <2>1. r.id \in IdsOf(policy.reqs)
    BY DEF IdsOf
  <2>2. TestFor(r, m).id = r.id
    BY DEF TestFor
  <2>3. lacking = {q \in policy.reqs : /\ q.id \in plan.unresolved
                      /\ ~(Mapped(q, m) /\ Satisfies(q, caps, MeasuredBy(q, m)))}
    BY DEF m, caps
  <2> QED
    BY <1>2, <1>4, <1>7, <2>1, <2>2, <2>3
<1>10. lacking = {r \in policy.reqs : r.id \in Lacking(plan, e)}
  BY <1>9
<1>11. Lacking(plan, e) = IdsOf(lacking)
  BY <1>8, <1>10 DEF IdsOf
<1> QED
  BY <1>1, <1>5, <1>6, <1>10, <1>11 DEF e

\* Requalification grants what the robot can show, whatever is taken for the
\* records of earlier admissions: the planner and admission look at the same
\* ones, at the same time.
LEMMA RequalificationGrants ==
    ASSUME TypeOK, NEW a \in Actors, NEW c \in Challenges,
           NEW level \in RunnerLevels \cap 2 .. 4, NEW sources
    PROVE  GrantsWhatIsShown(a, c, level, sources)
<1> DEFINE plan    == RequalificationPlan(a, c, sources)
           e       == Bundle(a, plan, level)
           here    == robot[a]
           lacking == {r \in policy.reqs :
               /\ r.id \in plan.unresolved
               /\ ~(/\ Mapped(r, here.embodiment)
                    /\ Satisfies(r, here.caps, MeasuredBy(r, here.embodiment)))}
           m       == here.embodiment
           reused  == SufficientIds(policy, a, here, sources, now, 2)
           ids     == IdsOf(policy.reqs) \ reused
<1> SUFFICES ASSUME ~policy.opaque, Unique(policy.reqs), policy.env = here.env,
                    \A r \in lacking : ~r.essential /\ Degradable(r)
             PROVE  /\ Validated("evidence_backed", e, a, plan, sources)
                    /\ Verdict(policy, plan, e) =
                         [status |-> IF lacking = {} THEN "ADMITTED" ELSE "DEGRADED",
                          guarantees |-> policy.reqs \ lacking,
                          restrictions |-> {r.restriction : r \in lacking},
                          unresolved |-> IdsOf(lacking)]
  BY DEF GrantsWhatIsShown
<1>1. /\ plan.policy = policy /\ plan.level = 2
      /\ plan.reused = reused /\ plan.unresolved = ids
      /\ plan.tests = TestsFor(policy, ids, m)
  BY DEF RequalificationPlan, PlanFor
<1>2. reused \subseteq IdsOf(policy.reqs)
  BY DEF SufficientIds, IdsOf
<1> HIDE DEF m, reused, ids
<1>3. ids \subseteq IdsOf(policy.reqs)
  BY DEF ids
<1>4. /\ Unique(e.results) /\ IdsOf(e.results) = IdsOf(plan.tests)
      /\ lacking = {r \in policy.reqs : r.id \in Lacking(plan, e)}
      /\ Lacking(plan, e) = IdsOf(lacking)
  <2>1. plan.tests = TestsFor(policy, plan.unresolved, robot[a].embodiment)
    BY <1>1 DEF m
  <2>2. plan.unresolved \subseteq IdsOf(policy.reqs)
    BY <1>1, <1>3
  <2>3. lacking = {r \in policy.reqs :
              /\ r.id \in plan.unresolved
              /\ ~(/\ Mapped(r, robot[a].embodiment)
                   /\ Satisfies(r, robot[a].caps, MeasuredBy(r, robot[a].embodiment)))}
    OBVIOUS
  <2> HIDE DEF plan, lacking
  <2> QED
    BY <2>1, <2>2, <2>3, BundleShows
<1>5. /\ e.actor = a /\ e.build = robot[a].build /\ e.controller = robot[a].controller
      /\ e.embodiment = m /\ e.env = robot[a].env
      /\ e.version = policy.version /\ e.plan = plan /\ e.level = level
      /\ e.issued = now /\ e.until = now + Validity
  BY DEF Bundle, ValidUntil, m
<1>6. e.issued <= now /\ e.issued < e.until /\ now < e.until
  BY <1>5, ServiceAssumption DEF TypeOK
<1>7. Executed(policy, plan, e, m)
  BY <1>1, <1>4, TestsSelected DEF Executed
<1>8. RecordOK(policy, plan, e, a, robot[a], now, 2)
  BY <1>1, <1>5, <1>6, <1>7 DEF RecordOK, Consistent, BoundTo, InForce, Assured, m
<1>9. CoverageOK(policy, plan)
  <2>1. IdsOf(plan.tests) \subseteq ids
    BY <1>1, TestsSelected
  <2> QED
    BY <1>1, <1>2, <2>1 DEF CoverageOK, ids
<1>10. plan.reused \subseteq SufficientIds(policy, a, robot[a], sources, now, plan.level)
  BY <1>1 DEF reused
<1>11. \A r \in policy.reqs : r.id \in Lacking(plan, e) => ~r.essential
  BY <1>4
<1>12. EvidenceBackedOK(policy, plan, e, a, robot[a], sources, now)
  BY <1>8, <1>9, <1>10, <1>11 DEF EvidenceBackedOK
<1>13. AdmitOK(policy, plan, e, a, robot[a], now)
  BY <1>5, <1>6 DEF AdmitOK
<1>14. {r.restriction : r \in {q \in lacking : Degradable(q)}}
         = {r.restriction : r \in lacking}
  OBVIOUS
<1>15. (\E r \in lacking : ~Degradable(r)) = FALSE
  OBVIOUS
<1>16. Verdict(policy, plan, e) =
         [status |-> IF lacking = {} THEN "ADMITTED" ELSE "DEGRADED",
          guarantees |-> policy.reqs \ lacking,
          restrictions |-> {r.restriction : r \in lacking},
          unresolved |-> IdsOf(lacking)]
  BY <1>4, <1>14, <1>15 DEF Verdict
<1> QED
  BY <1>12, <1>13, <1>16 DEF Validated

\* For every deployment, requalification grants what the robot can show.  No
\* history is needed beyond the types.
THEOREM ShownIsAlwaysGranted == Spec => []ShownIsGranted
<1>1. TypeOK => ShownIsGranted
  BY RequalificationGrants DEF ShownIsGranted
<1> QED
  BY <1>1, TypeCorrect, PTL
=============================================================================
