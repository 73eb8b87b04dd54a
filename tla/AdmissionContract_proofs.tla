---------------------- MODULE AdmissionContract_proofs ----------------------
(***************************************************************************)
(* Evidence-based admission implements its contract: the initial state     *)
(* maps to the empty ledger, and every step of the service to a step of    *)
(* the contract or to none.                                                *)
(***************************************************************************)
EXTENDS EvidenceAdmission_proofs

\* The state of the contract that a state of the service stands for.
Ledger == UNION {ProofsOf(rec.evidence) : rec \in records}
Grants == {GrantOf(call[k]) : k \in {l \in Calls : Enforced(l)}}

LEMMA InitRefines ==
    ASSUME Init PROVE Abstract!ContractInit
<1>1. records = {} /\ now = 0 /\ accepted = {}
  BY DEF Init
<1>2. \A k \in Calls : ~Enforced(k)
  BY DEF Init, Enforced, Granted, Answered, Idle
<1> QED
  BY <1>1, <1>2 DEF Abstract!ContractInit

\* The time a call was decided for is never in the future.
SnapshotsPast ==
    \A k \in Calls : call[k].stage \in {"claiming", "returned"} => call[k].at <= now

-----------------------------------------------------------------------------
(* Which steps leave the ledger and the grants alone. *)

LEMMA LedgerKept ==
    ASSUME records' = records PROVE Ledger' = Ledger
BY DEF Ledger

LEMMA GrantsKept ==
    ASSUME call' = call PROVE Grants' = Grants
BY DEF Grants, Enforced, Granted, Answered

\* A call that holds no enforced profile, before or after, adds no grant.
LEMMA GrantsKeptBy ==
    ASSUME NEW k \in Calls, \A l \in Calls : l # k => call'[l] = call[l],
           ~Enforced(k), ~Enforced(k)'
    PROVE  Grants' = Grants
BY DEF Grants, Enforced, Granted, Answered

\* A call that comes to hold one adds its own.
LEMMA GrantAdded ==
    ASSUME NEW k \in Calls, \A l \in Calls : l # k => call'[l] = call[l],
           ~Enforced(k), Enforced(k)'
    PROVE  Grants' = Grants \cup {GrantOf(call'[k])}
<1>1. \A l \in Calls : l # k => (Enforced(l)' <=> Enforced(l))
  BY DEF Enforced, Granted, Answered
<1> QED
  BY <1>1 DEF Grants

\* Steps that change neither records nor calls nor the registry nor the clock.
LEMMA IdleRefines ==
    ASSUME UNCHANGED <<now, records, accepted, call>>
    PROVE  UNCHANGED <<now, Ledger, Grants, accepted>>
BY LedgerKept, GrantsKept

-----------------------------------------------------------------------------
(* One lemma per kind of step. *)

LEMMA InitMaps ==
    ASSUME Init PROVE Abstract!ContractInit
<1>1. records = {} /\ now = 0 /\ accepted = {}
  BY DEF Init
<1>2. \A k \in Calls : ~Enforced(k)
  BY DEF Init, Enforced, Granted, Answered, Idle
<1> QED
  BY <1>1, <1>2 DEF Abstract!ContractInit

LEMMA TickPasses ==
    ASSUME TypeOK, Tick PROVE Abstract!Pass
<1>1. /\ now \in Nat /\ now' = now + 1
      /\ UNCHANGED <<records, call, accepted>>
  BY DEF Tick, TypeOK
<1> QED
  BY <1>1, LedgerKept, GrantsKept DEF Abstract!Pass, Ledger, Grants

LEMMA RestartForgets ==
    ASSUME RegistryRestart PROVE Abstract!Forget
<1>1. accepted' = {} /\ UNCHANGED <<now, records, call>>
  BY DEF RegistryRestart
<1> QED
  BY <1>1, LedgerKept, GrantsKept DEF Abstract!Forget, Ledger, Grants

\* A test run proves bounds of one robot at one place, now.
LEMMA RunTestsProves ==
    ASSUME NEW a \in Actors, NEW plan \in plans, NEW level \in RunnerLevels,
           RunTests(a, plan, level)
    PROVE  Abstract!Prove
<1> DEFINE e   == Bundle(a, plan, level)
           rec == [policy |-> policy, plan |-> plan, evidence |-> e, caps |-> robot[a].caps]
<1>1. records' = records \cup {rec} /\ UNCHANGED <<now, call, accepted>>
  BY DEF RunTests
<1>2. e.issued = now
  BY DEF Bundle
<1>3. \A p \in ProofsOf(e) :
        p.at = now /\ p.subject = SubjectOf(e) /\ p.place = e.plan.policy.place
  <2>1. ASSUME NEW p \in ProofsOf(e)
        PROVE  p.at = e.issued /\ p.subject = SubjectOf(e) /\ p.place = e.plan.policy.place
    <3> HIDE DEF e, rec
    <3>1. PICK r \in {q \in e.plan.policy.reqs :
                       e.level >= 2 /\ [id |-> q.id, passed |-> TRUE] \in e.results} :
            p = [subject |-> SubjectOf(e), place |-> e.plan.policy.place, bound |-> r,
                 at |-> e.issued]
      BY <2>1 DEF ProofsOf
    <3> QED
      BY <3>1
  <2> QED
    BY <1>2, <2>1
<1>4. Ledger' = Ledger \cup ProofsOf(e)
  <2> HIDE DEF e
  <2>1. rec.evidence = e
    OBVIOUS
  <2> HIDE DEF rec
  <2> QED
    BY <1>1, <2>1 DEF Ledger
<1>5. Grants' = Grants
  BY <1>1, GrantsKept
<1> HIDE DEF e
<1> QED
  BY <1>1, <1>3, <1>4, <1>5 DEF Abstract!Prove, Ledger, Grants

\* Neither submitting a call nor refusing it is an admission.
LEMMA SubmittingStutters ==
    ASSUME TypeOK, NEW a \in Actors, Submitting(a)
    PROVE  UNCHANGED <<now, Ledger, Grants, accepted>>
<1>1. PICK k \in Calls, entry \in Entry, plan \in plans, rec \in records :
        \E sources \in SUBSET SourceRecords : Submit(k, entry, a, plan, rec, sources)
  BY DEF Submitting
<1>2. /\ call[k] = Idle
      /\ \/ call' = [call EXCEPT ![k] = Snapshot(entry, rec.evidence, a)]
         \/ call' = [call EXCEPT ![k] = Refused]
      /\ UNCHANGED <<now, records, accepted>>
  BY <1>1 DEF Submit
<1>3. ~Enforced(k) /\ ~Enforced(k)'
  BY <1>2 DEF TypeOK, Enforced, Granted, Answered, Idle, Refused, Snapshot
<1>4. \A l \in Calls : l # k => call'[l] = call[l]
  BY <1>2 DEF TypeOK
<1> QED
  BY <1>2, <1>3, <1>4, LedgerKept, GrantsKeptBy

LEMMA RefuseStutters ==
    ASSUME TypeOK, NEW k \in Calls, Refuse(k)
    PROVE  UNCHANGED <<now, Ledger, Grants, accepted>>
<1>1. /\ call[k] = Idle /\ call' = [call EXCEPT ![k] = Refused]
      /\ UNCHANGED <<now, records, accepted>>
  BY DEF Refuse
<1>2. ~Enforced(k) /\ ~Enforced(k)'
  BY <1>1 DEF TypeOK, Enforced, Granted, Answered, Idle, Refused
<1>3. \A l \in Calls : l # k => call'[l] = call[l]
  BY <1>1 DEF TypeOK
<1> QED
  BY <1>1, <1>2, <1>3, LedgerKept, GrantsKeptBy

\* What backs a guarantee is a proof in the ledger.
LEMMA BackedIsProven ==
    ASSUME TypeOK, NEW s, NEW r, NEW rec \in records, Backs(rec, s, r)
    PROVE  \E p \in Ledger :
              /\ p.subject = GrantOf(s).subject /\ p.place = GrantOf(s).place
              /\ p.at <= s.at /\ s.at < p.at + Validity
              /\ BoundEntails(p.bound, r)
<1> DEFINE e == rec.evidence
<1>1. PICK source \in e.plan.policy.reqs :
        \/ source = r
        \/ source.id = r.id /\ source.scope = r.scope /\ Entails(source, r)
  BY DEF Backs
<1>2. /\ source.id = r.id
      /\ e.level >= 2 /\ [id |-> r.id, passed |-> TRUE] \in e.results
      /\ SubjectOf(e) = GrantOf(s).subject /\ e.plan.policy.place = GrantOf(s).place
      /\ e.issued <= s.at /\ s.at < e.issued + Validity
  BY <1>1 DEF Backs, SubjectOf, GrantOf
<1> DEFINE p == [subject |-> SubjectOf(e), place |-> e.plan.policy.place,
                 bound |-> source, at |-> e.issued]
<1>3. p \in ProofsOf(e)
  BY <1>2 DEF ProofsOf
<1>4. p \in Ledger
  BY <1>3 DEF Ledger
<1>5. BoundEntails(p.bound, r)
  BY <1>1 DEF BoundEntails
<1>6. /\ p.subject = GrantOf(s).subject /\ p.place = GrantOf(s).place
      /\ p.at <= s.at /\ s.at < p.at + Validity
  BY <1>2
<1> QED
  BY <1>4, <1>5, <1>6

\* An enforced profile is justified by the ledger at any time since the one it
\* was decided for.
LEMMA GrantJustified ==
    ASSUME IInv, SnapshotsPast, NEW k \in Calls, Enforced(k)
    PROVE  Abstract!Justified(GrantOf(call[k]))
<1> DEFINE s == call[k]
<1>1. s.at <= now
  BY DEF SnapshotsPast, Enforced, Granted, Answered
<1>2. ASSUME NEW r \in s.profile.guarantees
      PROVE  \E p \in Ledger :
                /\ p.subject = GrantOf(s).subject /\ p.place = GrantOf(s).place
                /\ p.at <= s.at /\ s.at < p.at + Validity
                /\ BoundEntails(p.bound, r)
  <2>1. PICK rec \in records : Backs(rec, s, r)
    BY IInvImpliesGuaranteesProven DEF GuaranteesProven
  <2> QED
    BY <2>1, BackedIsProven DEF IInv
<1>3. GrantOf(s).asOf = s.at /\ GrantOf(s).bounds = s.profile.guarantees
  BY DEF GrantOf
<1> QED
  BY <1>1, <1>2, <1>3 DEF Abstract!Justified, Ledger

\* A claim that wins decides one admission and spends its challenge; a claim
\* that loses changes nothing.
LEMMA ClaimDecides ==
    ASSUME TypeOK, IInv', SnapshotsPast', NEW k \in Calls, Claim(k)
    PROVE  Abstract!Decide \/ UNCHANGED <<now, Ledger, Grants, accepted>>
<1> DEFINE s      == call[k]
           t      == ChallengeOf(k)
           answer == [s EXCEPT !.stage = "returned", !.epoch = epoch,
                      !.profile = Verdict(s.policy, s.evidence.plan, s.evidence)]
<1>1. s \in CallState /\ s.stage = "claiming" /\ t \in Challenges
  BY DEF Claim, TypeOK, Idle, Refused, CallState, Evidence, Plan, ChallengeOf
<1>2. accepted' = accepted \cup {t} /\ UNCHANGED <<now, records>>
  BY DEF Claim
<1>3. \/ t \in accepted /\ call' = [call EXCEPT ![k] = Refused]
      \/ t \notin accepted /\ call' = [call EXCEPT ![k] = answer]
  BY DEF Claim, Claimable
<1>4. answer.evidence = s.evidence
  BY <1>1 DEF CallState
<1> HIDE DEF answer
<1>5. /\ \A l \in Calls : l # k => call'[l] = call[l]
      /\ t \in accepted => call'[k] = Refused
      /\ t \notin accepted => call'[k] = answer
  BY <1>3 DEF TypeOK
<1>6. ~Enforced(k)
  BY <1>1 DEF Enforced, Granted, Answered
<1>7. Ledger' = Ledger
  BY <1>2, LedgerKept
<1>8. CASE t \in accepted
  <2>1. ~Enforced(k)'
    BY <1>5, <1>8 DEF Enforced, Granted, Answered, Refused
  <2> QED
    BY <1>2, <1>5, <1>6, <1>7, <1>8, <2>1, GrantsKeptBy
<1>9. CASE t \notin accepted /\ ~Enforced(k)'
  <2>1. Grants' = Grants
    BY <1>5, <1>6, <1>9, GrantsKeptBy
  <2> QED
    BY <1>1, <1>2, <1>7, <1>9, <2>1 DEF Abstract!Decide, Ledger, Grants
<1>10. CASE t \notin accepted /\ Enforced(k)'
  <2> DEFINE g == GrantOf(call'[k])
  <2>1. Grants' = Grants \cup {g}
    BY <1>5, <1>6, <1>10, GrantAdded
  <2>2. g.token = t
    BY <1>4, <1>5, <1>10 DEF GrantOf, ChallengeOf
  <2>3. Abstract!Justified(GrantOf(call[k]))'
    BY <1>10, GrantJustified, PTL
  <2>4. Abstract!Justified(g)
    BY <1>2, <1>7, <2>3 DEF Abstract!Justified, Ledger
  <2> HIDE DEF g
  <2>5. \E x \in Grants' : /\ x.token = t /\ Abstract!Justified(x)
                           /\ Grants' = Grants \cup {x}
    BY <2>1, <2>2, <2>4
  <2> QED
    BY <1>1, <1>2, <1>7, <1>10, <2>5 DEF Abstract!Decide, Ledger, Grants
<1> QED
  BY <1>8, <1>9, <1>10

-----------------------------------------------------------------------------
LEMMA PastInductive ==
    /\ Init => SnapshotsPast
    /\ TypeOK /\ SnapshotsPast /\ [Next]_vars => SnapshotsPast'
<1>1. Init => SnapshotsPast
  BY DEF Init, SnapshotsPast, Idle
<1>2. ASSUME TypeOK, SnapshotsPast, [Next]_vars
      PROVE  SnapshotsPast'
  <2>1. ASSUME UNCHANGED <<now, call>>
        PROVE  SnapshotsPast'
    BY <1>2, <2>1 DEF SnapshotsPast
  <2>2. CASE Tick
    <3>1. \A k \in Calls : call[k].stage \in {"claiming", "returned"} => call[k].at \in Nat
      BY <1>2 DEF TypeOK, CallState, Idle, Refused
    <3> QED
      BY <1>2, <2>2, <3>1 DEF Tick, SnapshotsPast, TypeOK
  <2>3. ASSUME NEW a \in Actors, Planning(a)
        PROVE  SnapshotsPast'
    BY <1>2, <2>1, <2>3, PlanningType
  <2>4. ASSUME NEW a \in Actors, Submitting(a)
        PROVE  SnapshotsPast'
    <3>1. PICK k \in Calls, entry \in Entry, plan \in plans, rec \in records :
            \E sources \in SUBSET SourceRecords : Submit(k, entry, a, plan, rec, sources)
      BY <2>4 DEF Submitting
    <3>2. /\ now' = now /\ now \in Nat
          /\ \/ call' = [call EXCEPT ![k] = Snapshot(entry, rec.evidence, a)]
             \/ call' = [call EXCEPT ![k] = Refused]
      BY <1>2, <3>1 DEF Submit, TypeOK
    <3>3. Snapshot(entry, rec.evidence, a).at = now /\ Refused.stage = "refused"
      BY DEF Snapshot, Refused
    <3> QED
      BY <1>2, <3>2, <3>3 DEF SnapshotsPast, TypeOK
  <2>5. ASSUME NEW k \in Calls, Refuse(k)
        PROVE  SnapshotsPast'
    BY <1>2, <2>5 DEF Refuse, SnapshotsPast, TypeOK, Refused
  <2>6. ASSUME NEW k \in Calls, Claim(k)
        PROVE  SnapshotsPast'
    <3> DEFINE s      == call[k]
               answer == [s EXCEPT !.stage = "returned", !.epoch = epoch,
                          !.profile = Verdict(s.policy, s.evidence.plan, s.evidence)]
    <3>1. s \in CallState /\ s.stage = "claiming"
      BY <1>2, <2>6 DEF Claim, TypeOK, Idle, Refused
    <3>2. answer.at = s.at /\ s.at <= now
      BY <1>2, <3>1 DEF CallState, SnapshotsPast
    <3>3. /\ now' = now
          /\ call' = [call EXCEPT ![k] = answer] \/ call' = [call EXCEPT ![k] = Refused]
      BY <2>6 DEF Claim
    <3> HIDE DEF answer
    <3> QED
      BY <1>2, <3>2, <3>3 DEF SnapshotsPast, TypeOK, Refused
  <2> QED
    BY <1>2, <2>1, <2>2, <2>3, <2>4, <2>5, <2>6
      DEF Next, vars, RegistryRestart, PublishPolicy, RobotChanges, RunTests
<1> QED
  BY <1>1, <1>2

\* Every step of the service is a step of the contract, or none.
LEMMA StepMaps ==
    ASSUME TypeOK, IInv', SnapshotsPast', [Next]_vars
    PROVE  [\/ Abstract!Pass \/ Abstract!Prove
            \/ Abstract!Decide \/ Abstract!Forget]_<<now, Ledger, Grants, accepted>>
<1>1. ASSUME UNCHANGED <<now, records, accepted, call>>
      PROVE  UNCHANGED <<now, Ledger, Grants, accepted>>
  BY <1>1, IdleRefines
<1>2. ASSUME NEW a \in Actors, Planning(a)
      PROVE  UNCHANGED <<now, Ledger, Grants, accepted>>
  BY <1>1, <1>2, PlanningType
<1> QED
  BY <1>1, <1>2, TickPasses, RestartForgets, RunTestsProves, SubmittingStutters,
     RefuseStutters, ClaimDecides
    DEF Next, vars, PublishPolicy, RobotChanges

\* Evidence-backed admission is an implementation of its contract: whatever is
\* planned, bundled, reused, published or raced for, an admission is one fresh
\* token spent on bounds the subject had proved at that place in time.
THEOREM ServiceImplementsContract == Spec => ImplementsContract
<1>1. Spec => []SnapshotsPast
  BY PastInductive, TypeCorrect, PTL DEF Spec
<1>2. ASSUME [\/ Abstract!Pass \/ Abstract!Prove
              \/ Abstract!Decide \/ Abstract!Forget]_<<now, Ledger, Grants, accepted>>
      PROVE  [\/ Abstract!Pass \/ Abstract!Prove
              \/ Abstract!Decide \/ Abstract!Forget]_(Abstract!contractVars)
  BY <1>2 DEF Abstract!contractVars, Ledger, Grants
<1> QED
  BY <1>1, <1>2, InitMaps, StepMaps, TypeCorrect, SnapshotsStayVetted, PTL
    DEF Spec, ImplementsContract, Abstract!Contract
=============================================================================
