----------------------- MODULE VerifiedAdmission_proofs -----------------------
(***************************************************************************)
(* Theorems of VerifiedAdmission, for every set of validators, authorities *)
(* and anchors.  What is carried may be altered at will; a signature under *)
(* a key the registry knows was made by its owner, so whatever verifies is *)
(* what an honest signer signed.  The verified entry points are then       *)
(* admission over genuine records, and trust is a matter of the snapshot.  *)
(***************************************************************************)
EXTENDS VerifiedAdmission, ProfileLifecycle_proofs

\* Wrappers are what validators signed, of records the service had.
WrapperOK(w) ==
    /\ w.issuer \in IssuerIds
    /\ w = SignEvidence(w.policy, w.plan, w.evidence, w.issuer, KeyOf[w.issuer])
    /\ \E rec \in records : /\ w.policy = rec.policy /\ w.plan = rec.plan
                            /\ w.evidence = rec.evidence

\* Every bundle is of a plan the service handed out.
RecordsPlanned == \A rec \in records : rec.plan \in plans /\ rec.evidence.plan = rec.plan

\* A registry that trusts w's issuer to sign for the scope.
Anchored(w, registry, scope) ==
    LET anchor == registry[w.issuer] IN
    /\ anchor.enabled /\ anchor.key = KeyOf[w.issuer]
    /\ EvidenceBundleType \in anchor.types /\ scope \in anchor.scopes

\* What verifies is the evidence of a wrapper, signed by the issuer and for the
\* scope it was verified for, whatever its carrier altered.
LEMMA VerifiedIsGenuine ==
    ASSUME VerifiedTypeOK, NEW x \in Carried, NEW expected,
           Verifies(x, issuers, expected)
    PROVE  \E w \in wrappers : /\ w.evidence = x.evidence /\ w.scope = expected
                               /\ Anchored(w, issuers, expected)
<1>1. \A w \in wrappers : WrapperOK(w)
  BY DEF VerifiedTypeOK, WrapperOK
<1>2. PICK w \in wrappers : x = w \/ x \in Doctored(w)
  BY DEF Carried
<1> DEFINE anchor == issuers[x.issuer]
<1>3. /\ w.digest = w.evidence /\ w.type = EvidenceBundleType
      /\ w.signature = Signature(KeyOf[w.issuer], w.issuer, w.type, w.scope, w.digest)
      /\ w.issuer \in IssuerIds
  BY <1>1 DEF WrapperOK, SignEvidence
<1>4. /\ anchor.enabled /\ x.type \in anchor.types
      /\ x.scope = expected /\ x.scope \in anchor.scopes
      /\ x.digest = x.evidence
      /\ x.signature = Signature(anchor.key, x.issuer, x.type, x.scope, x.digest)
  BY DEF Verifies
<1>5. ASSUME x.signature = w.signature
      PROVE  /\ w.evidence = x.evidence /\ w.scope = expected
             /\ Anchored(w, issuers, expected)
  <2>1. <<anchor.key, x.issuer, x.type, x.scope, x.digest>>
          = <<KeyOf[w.issuer], w.issuer, w.type, w.scope, w.digest>>
    BY <1>3, <1>4, <1>5 DEF Signature
  <2> QED
    BY <1>3, <1>4, <2>1 DEF Anchored
<1>6. CASE x = w
  BY <1>5, <1>6
<1>7. CASE x \in Doctored(w)
  <2> DEFINE e == Flattered(w.evidence)
  <2>1. CASE x = SignEvidence(w.policy, w.plan, e, w.issuer, ForeignKey)
    <3>1. x.issuer = w.issuer
            /\ x.signature = Signature(ForeignKey, x.issuer, x.type, x.scope, x.digest)
      BY <2>1 DEF SignEvidence
    <3>2. anchor.key = ForeignKey
      BY <1>4, <3>1 DEF Signature
    <3>3. anchor \in Issuer \/ anchor = Unknown
      BY <1>3, <3>1 DEF VerifiedTypeOK
    <3>4. anchor \in Issuer
      BY <1>4, <3>3 DEF Unknown
    <3>5. anchor.key \in Keys
      BY <3>4 DEF Issuer
    <3> QED
      BY <3>2, <3>5, TrustAssumption
  <2>2. CASE x # SignEvidence(w.policy, w.plan, e, w.issuer, ForeignKey)
    <3> DEFINE s == w.signature
    <3>1. w = [policy |-> w.policy, plan |-> w.plan, evidence |-> w.evidence,
               issuer |-> w.issuer, type |-> w.type, scope |-> w.scope,
               digest |-> w.digest, signature |-> s]
      BY <1>1 DEF WrapperOK, SignEvidence
    <3> HIDE DEF s, e
    <3>2. x.signature = s
      <4>1. CASE \E p \in Policies : x = [w EXCEPT !.policy = p]
                                        \/ x = [w EXCEPT !.scope = EvidenceScope(p)]
        BY <3>1, <4>1
      <4>2. CASE \E i \in IssuerIds : x = [w EXCEPT !.issuer = i]
        BY <3>1, <4>2
      <4>3. CASE \E v \in wrappers : x = [w EXCEPT !.plan = v.plan, !.evidence = v.evidence]
        BY <3>1, <4>3
      <4>4. CASE x = [w EXCEPT !.evidence = e]
        BY <3>1, <4>4
      <4>5. CASE x = [w EXCEPT !.evidence = e, !.digest = e]
        BY <3>1, <4>5
      <4> QED
        BY <1>7, <2>2, <4>1, <4>2, <4>3, <4>4, <4>5 DEF Doctored, e
    <3> QED
      BY <1>5, <3>2 DEF s
  <2> QED
    BY <2>1, <2>2
<1> QED
  BY <1>2, <1>6, <1>7

\* A notice that verifies is one an authority signed, and may sign.
LEMMA VerifiedIsEndorsed ==
    ASSUME VerifiedTypeOK, NEW n \in CarriedNotices, NEW place, NEW space,
           VerifiesPolicy(n, authorities, place, space)
    PROVE  Authorized(n.policy, authorities)
<1> DEFINE anchor == authorities[n.authority]
<1>1. /\ anchor.enabled
      /\ n.policy.place \in anchor.places /\ n.policy.space \in anchor.scopes
      /\ n.digest = n.policy
      /\ n.signature = Signature(anchor.key, n.authority, n.type, n.scope, n.digest)
  BY DEF VerifiesPolicy, PolicyScope
<1>2. PICK m \in Notices : n = m \/ n \in DoctoredNotices(m)
  BY DEF CarriedNotices
<1>3. PICK u \in AuthorityIds, q \in Policies :
         <<u, q>> \in Endorses /\ m = SignPolicy(q, u, KeyOf[u])
  BY <1>2, TrustAssumption DEF Notices
<1>4. ASSUME n.signature = m.signature
      PROVE  Authorized(n.policy, authorities)
  <2>1. <<anchor.key, n.authority, n.digest>> = <<KeyOf[u], u, q>>
    BY <1>1, <1>3, <1>4 DEF Signature, SignPolicy
  <2> QED
    BY <1>1, <1>3, <2>1 DEF Authorized, AuthorizedBy
<1>5. CASE \E p \in Policies : n = SignPolicy(p, m.authority, ForeignKey)
  <2>1. n.authority = u
          /\ n.signature = Signature(ForeignKey, n.authority, n.type, n.scope, n.digest)
    BY <1>3, <1>5 DEF SignPolicy
  <2>2. anchor.key = ForeignKey
    BY <1>1, <2>1 DEF Signature
  <2>3. anchor \in Authority
    BY <1>1, <2>1 DEF VerifiedTypeOK, Unknown
  <2> QED
    BY <2>2, <2>3, TrustAssumption DEF Authority
<1>6. CASE ~\E p \in Policies : n = SignPolicy(p, m.authority, ForeignKey)
  <2>1. n.signature = m.signature
    BY <1>2, <1>3, <1>6 DEF DoctoredNotices, SignPolicy
  <2> QED
    BY <1>4, <2>1
<1> QED
  BY <1>5, <1>6

-----------------------------------------------------------------------------
(* What a verified entry point passes on is a submission to the service. *)

\* The EvidenceRecord of a wrapper (boundary.py:138-140).
RecordOf(y) == [policy |-> y.policy, plan |-> y.plan, evidence |-> y.evidence]

\* The sources that admission looks further than the digests of.
Relied(sources) ==
    {RecordOf(y) : y \in {z \in sources : Consistent(z.policy, z.plan, z.evidence)}}

\* Admission over wrappers is admission over the records it relies on.
LEMMA RecordsSuffice ==
    ASSUME NEW e, NEW a, NEW plan, NEW sources,
           Validated("evidence_backed", e, a, plan, sources)
    PROVE  Validated("evidence_backed", e, a, plan, Relied(sources))
<1>1. ASSUME NEW r, Sufficient(r, policy, a, robot[a], sources, now, plan.level)
      PROVE  Sufficient(r, policy, a, robot[a], Relied(sources), now, plan.level)
  <2>1. PICK y \in sources :
          /\ RecordOK(y.policy, y.plan, y.evidence, a, robot[a], now, plan.level)
          /\ Proves(y, r, policy.place)
    BY <1>1 DEF Sufficient
  <2>2. RecordOf(y) \in Relied(sources)
    BY <2>1 DEF Relied, RecordOK
  <2>3. /\ RecordOf(y).policy = y.policy /\ RecordOf(y).plan = y.plan
        /\ RecordOf(y).evidence = y.evidence
    BY DEF RecordOf
  <2>4. Proves(RecordOf(y), r, policy.place)
    BY <2>1, <2>3 DEF Proves
  <2> QED
    BY <1>1, <2>1, <2>2, <2>3, <2>4 DEF Sufficient
<1>2. SufficientIds(policy, a, robot[a], sources, now, plan.level)
        \subseteq SufficientIds(policy, a, robot[a], Relied(sources), now, plan.level)
  BY <1>1 DEF SufficientIds, IdsOf
<1> QED
  BY <1>2 DEF Validated, EvidenceBackedOK

\* What a registry was relied on for: each record of a set has a wrapper whose
\* validator it trusts for the space of the plan.
Vouched(R, registry) ==
    \A rec \in R : \E w \in wrappers :
        w.evidence = rec.evidence /\ TrustedFor(w.evidence.plan.policy, w, registry)

\* A verified delivery is genuine and vouched for.
LEMMA DeliveryIsGenuine ==
    ASSUME VerifiedTypeOK, RecordsPlanned,
           NEW x \in Carried, NEW sources \in SUBSET Carried,
           EvidenceVerified(x, sources), NEW a \in Actors,
           Validated("evidence_backed", x.evidence, a, x.plan, sources)
    PROVE  /\ x.plan \in plans
           /\ \E rec \in records : rec.evidence = x.evidence
           /\ Relied(sources) \subseteq SourceRecords
           /\ Vouched(Relied(sources) \cup {x}, issuers)
<1>1. ASSUME NEW y \in Carried, NEW p, Verifies(y, issuers, EvidenceScope(p)),
             Consistent(p, y.plan, y.evidence)
      PROVE  /\ \E rec \in records : rec.plan = y.plan /\ rec.evidence = y.evidence
                                     /\ rec.plan.policy = p
             /\ \E w \in wrappers : /\ w.evidence = y.evidence
                                     /\ TrustedFor(w.evidence.plan.policy, w, issuers)
  <2>1. PICK w \in wrappers : /\ w.evidence = y.evidence /\ w.scope = EvidenceScope(p)
                              /\ Anchored(w, issuers, EvidenceScope(p))
    BY <1>1, VerifiedIsGenuine
  <2>2. PICK rec \in records : w.evidence = rec.evidence
    BY DEF VerifiedTypeOK
  <2>3. y.evidence.plan = y.plan /\ y.plan.policy = p
    BY <1>1 DEF Consistent
  <2>4. rec.plan = y.plan
    BY <2>1, <2>2, <2>3 DEF RecordsPlanned
  <2> QED
    BY <2>1, <2>2, <2>3, <2>4 DEF Anchored, TrustedFor
<1>2. RecordOK(policy, x.plan, x.evidence, a, robot[a], now, 2)
  BY DEF Validated, EvidenceBackedOK
<1>3. Consistent(policy, x.plan, x.evidence)
  BY <1>2 DEF RecordOK
<1>4. /\ \E rec \in records : rec.plan = x.plan /\ rec.evidence = x.evidence
      /\ \E w \in wrappers : /\ w.evidence = x.evidence
                              /\ TrustedFor(w.evidence.plan.policy, w, issuers)
  BY <1>1, <1>3 DEF EvidenceVerified
<1>5. ASSUME NEW rec \in Relied(sources)
      PROVE  /\ rec \in SourceRecords
             /\ \E w \in wrappers : /\ w.evidence = rec.evidence
                                     /\ TrustedFor(w.evidence.plan.policy, w, issuers)
  <2>1. PICK y \in sources : rec = RecordOf(y) /\ Consistent(y.policy, y.plan, y.evidence)
    BY DEF Relied
  <2>2. Verifies(y, issuers, EvidenceScope(y.policy))
    BY <2>1 DEF EvidenceVerified
  <2>3. PICK original \in records : /\ original.plan = y.plan
                                    /\ original.evidence = y.evidence
                                    /\ original.plan.policy = y.policy
    BY <1>1, <2>1, <2>2
  <2>4. rec = [policy |-> original.plan.policy, plan |-> original.plan,
               evidence |-> original.evidence]
    BY <2>1, <2>3 DEF RecordOf
  <2>5. rec \in SourceRecords
    <3>1. rec \in {[policy |-> p, plan |-> original.plan, evidence |-> original.evidence] :
                      p \in {original.policy, original.plan.policy}}
      BY <2>4
    <3> QED
      BY <3>1 DEF SourceRecords
  <2>6. rec.evidence = y.evidence
    BY <2>3, <2>4
  <2> QED
    BY <1>1, <2>1, <2>2, <2>5, <2>6
<1> QED
  BY <1>4, <1>5 DEF RecordsPlanned, Vouched

-----------------------------------------------------------------------------
(* The verified service is the service: every theorem about admission and the
   lifecycle of profiles carries over. *)

\* What may be delivered is carried.
LEMMA DeliveriesAreCarried ==
    ASSUME NEW d \in Deliveries
    PROVE  d[1] \in Carried /\ d[2] \in SUBSET Carried
<1>1. wrappers \subseteq Carried
  BY DEF Carried
<1>2. CASE d \in Carried \X SUBSET wrappers
  BY <1>1, <1>2
<1>3. CASE \E w \in wrappers, S \in SUBSET wrappers, x \in Carried : d = <<w, S \cup {x}>>
  BY <1>1, <1>3
<1> QED
  BY <1>2, <1>3 DEF Deliveries

\* Some verified entry point was called for k, with what a carrier delivered.
Delivered(k, a, x, sources, mode, n) ==
    \/ mode = "evidence" /\ SubmitVerified(k, a, x, sources)
    \/ mode = "policy" /\ n \in CarriedNotices /\ SubmitVerifiedPolicy(k, a, n, x, sources)

LEMMA VerifyingDelivers ==
    ASSUME NEW a \in Actors, Verifying(a)
    PROVE  \E k \in Calls, x \in Carried, sources \in SUBSET Carried :
              \E mode, n : Delivered(k, a, x, sources, mode, n)
<1>1. PICK k \in Calls :
         \/ \E d \in Deliveries :
               \/ SubmitVerified(k, a, d[1], d[2])
               \/ \E n \in Notices : SubmitVerifiedPolicy(k, a, n, d[1], d[2])
         \/ \E n \in CarriedNotices, w \in wrappers, S \in SUBSET wrappers :
               SubmitVerifiedPolicy(k, a, n, w, S)
  BY DEF Verifying
<1>2. CASE \E d \in Deliveries :
               \/ SubmitVerified(k, a, d[1], d[2])
               \/ \E n \in Notices : SubmitVerifiedPolicy(k, a, n, d[1], d[2])
  <2>1. Notices \subseteq CarriedNotices
    BY DEF CarriedNotices
  <2> QED
    BY <1>2, <2>1, DeliveriesAreCarried DEF Delivered
<1>3. CASE \E n \in CarriedNotices, w \in wrappers, S \in SUBSET wrappers :
               SubmitVerifiedPolicy(k, a, n, w, S)
  <2>1. wrappers \subseteq Carried
    BY DEF Carried
  <2> QED
    BY <1>3, <2>1 DEF Delivered
<1> QED
  BY <1>1, <1>2, <1>3

\* What a verified call does: it is refused, or a genuine delivery is passed on.
LEMMA DeliveredEffect ==
    ASSUME VerifiedTypeOK, RecordsPlanned, NEW k \in Calls, NEW a \in Actors,
           NEW x \in Carried, NEW sources \in SUBSET Carried, NEW mode, NEW n,
           Delivered(k, a, x, sources, mode, n)
    PROVE  /\ call[k] = Idle
           /\ UNCHANGED <<now, policy, robot, plans, records, accepted, epoch, gateVars,
                          issuers, authorities, wrappers>>
           /\ \/ call' = [call EXCEPT ![k] = Refused] /\ basis' = basis
              \/ /\ call' = [call EXCEPT ![k] = Snapshot("evidence_backed", x.evidence, a)]
                 /\ basis' = [basis EXCEPT ![k] = [mode |-> mode, issuers |-> issuers,
                                                  authorities |-> authorities]]
                 /\ Validated("evidence_backed", x.evidence, a, x.plan, sources)
                 /\ EvidenceVerified(x, sources)
                 /\ mode \in {"evidence", "policy"}
                 /\ mode = "policy" => Authorized(policy, authorities)
<1>1. CASE mode = "evidence" /\ SubmitVerified(k, a, x, sources)
  BY <1>1 DEF SubmitVerified, SubmitSigned
<1>2. CASE mode = "policy" /\ n \in CarriedNotices /\ SubmitVerifiedPolicy(k, a, n, x, sources)
  <2>1. VerifiesPolicy(n, authorities, n.policy.place, n.policy.space)
           => Authorized(n.policy, authorities)
    BY <1>2, VerifiedIsEndorsed
  <2> QED
    BY <1>2, <2>1 DEF SubmitVerifiedPolicy, SubmitSigned
<1> QED
  BY <1>1, <1>2 DEF Delivered

\* A verified call is a submission, or a refusal, of the service.
LEMMA DeliveredSubmits ==
    ASSUME VerifiedTypeOK, RecordsPlanned, NEW k \in Calls, NEW a \in Actors,
           NEW x \in Carried, NEW sources \in SUBSET Carried, NEW mode, NEW n,
           Delivered(k, a, x, sources, mode, n)
    PROVE  Next /\ UNCHANGED gateVars
<1>1. CASE call' = [call EXCEPT ![k] = Refused]
  <2>1. Refuse(k)
    BY <1>1, DeliveredEffect DEF Refuse
  <2> QED
    BY <2>1, DeliveredEffect DEF Next
<1>2. CASE /\ call' = [call EXCEPT ![k] = Snapshot("evidence_backed", x.evidence, a)]
           /\ Validated("evidence_backed", x.evidence, a, x.plan, sources)
           /\ EvidenceVerified(x, sources)
  <2>1. /\ x.plan \in plans
        /\ \E rec \in records : rec.evidence = x.evidence
        /\ Relied(sources) \in SUBSET SourceRecords
    BY <1>2, DeliveryIsGenuine
  <2>2. PICK rec \in records : rec.evidence = x.evidence
    BY <2>1
  <2>3. Validated("evidence_backed", rec.evidence, a, x.plan, Relied(sources))
    BY <1>2, <2>2, RecordsSuffice
  <2>4. Submit(k, "evidence_backed", a, x.plan, rec, Relied(sources))
    BY <1>2, <2>2, <2>3, DeliveredEffect DEF Submit
  <2>5. Submitting(a)
    BY <2>1, <2>4 DEF Submitting, Entry
  <2> QED
    BY <2>5, DeliveredEffect DEF Next
<1> QED
  BY <1>1, <1>2, DeliveredEffect

\* Every step of the verified service is one of the lifecycle or leaves it be.
LEMMA VerifiedStepIsLifecycleStep ==
    ASSUME VerifiedTypeOK, RecordsPlanned, [VerifiedNext]_verifiedVars
    PROVE  [LifecycleNext]_allVars
<1>1. CASE LifecycleNext /\ UNCHANGED <<records, trustVars>>
  BY <1>1
<1>2. CASE TrustChanges
  BY <1>2 DEF TrustChanges, AddIssuer, AddAuthority
<1>3. ASSUME NEW a \in Actors, NEW v \in IssuerIds, NEW plan \in plans,
             NEW level \in RunnerLevels, Attest(v, a, plan, level)
      PROVE  LifecycleNext
  BY <1>3 DEF Attest, LifecycleNext, Next
<1>4. ASSUME NEW a \in Actors, Verifying(a)
      PROVE  LifecycleNext
  BY <1>4, VerifyingDelivers, DeliveredSubmits DEF LifecycleNext
<1>5. ASSUME NEW a \in Actors, NEW c \in Challenges, NEW k \in Calls, NEW n,
             DeriveVerifiedPlan(a, c, k, n)
      PROVE  LifecycleNext
  <2>1. Planning(a)
    BY <1>5 DEF DeriveVerifiedPlan, Planning
  <2> QED
    BY <1>5, <2>1 DEF DeriveVerifiedPlan, LifecycleNext, Next
<1>6. CASE UNCHANGED verifiedVars
  BY <1>6 DEF verifiedVars
<1> QED
  BY <1>1, <1>2, <1>3, <1>4, <1>5, <1>6 DEF VerifiedNext

\* Plans are never taken back.
LEMMA PlansStay ==
    ASSUME [LifecycleNext]_allVars PROVE plans \subseteq plans'
<1>1. ASSUME NEW a \in Actors, Planning(a)
      PROVE  plans \subseteq plans'
  BY <1>1 DEF Planning, DeriveRequalificationPlan, DerivePlan, ReceivePlan, AddPlan
<1>2. ASSUME [Next]_vars
      PROVE  plans \subseteq plans'
  BY <1>1, <1>2 DEF Next, vars, Tick, RegistryRestart, PublishPolicy, RobotChanges,
                    RunTests, Submitting, Submit, Refuse, Claim
<1> QED
  BY <1>2 DEF LifecycleNext, allVars, vars, gateVars, ProcessRestart, RegistryRestart,
              Revoke, Consider, Enter, Leave

\* What a step may do to records, wrappers and the registries.
LEMMA TrustSteps ==
    ASSUME VerifiedTypeOK, RecordsPlanned, [VerifiedNext]_verifiedVars
    PROVE  VerifiedTypeOK' /\ RecordsPlanned'
<1> USE DEF VerifiedTypeOK
<1>1. plans \subseteq plans'
  BY VerifiedStepIsLifecycleStep, PlansStay
<1>2. ASSUME UNCHANGED <<records, trustVars>>
      PROVE  VerifiedTypeOK' /\ RecordsPlanned'
  BY <1>1, <1>2 DEF trustVars, RecordsPlanned
<1>3. CASE TrustChanges
  <2>1. ASSUME NEW i \in IssuerIds, NEW anchor \in IssuerAnchors[i], AddIssuer(i, anchor)
        PROVE  VerifiedTypeOK' /\ RecordsPlanned'
    <3>1. anchor \in Issuer
      BY TrustAssumption
    <3> QED
      BY <2>1, <3>1 DEF AddIssuer, allVars, vars, RecordsPlanned
  <2>2. ASSUME NEW u \in AuthorityIds, NEW anchor \in AuthorityAnchors[u],
               AddAuthority(u, anchor)
        PROVE  VerifiedTypeOK' /\ RecordsPlanned'
    <3>1. anchor \in Authority
      BY TrustAssumption
    <3> QED
      BY <2>2, <3>1 DEF AddAuthority, allVars, vars, RecordsPlanned
  <2> QED
    BY <1>3, <2>1, <2>2 DEF TrustChanges
<1>4. ASSUME NEW a \in Actors, NEW v \in IssuerIds, NEW plan \in plans,
             NEW level \in RunnerLevels, Attest(v, a, plan, level)
      PROVE  VerifiedTypeOK' /\ RecordsPlanned'
  <2> DEFINE rec == [policy |-> policy, plan |-> plan,
                     evidence |-> Bundle(a, plan, level), caps |-> robot[a].caps]
             w == SignEvidence(policy, plan, Bundle(a, plan, level), v, KeyOf[v])
  <2>1. /\ records' = records \cup {rec} /\ wrappers' = wrappers \cup {w}
        /\ UNCHANGED <<plans, issuers, authorities, basis>>
    BY <1>4 DEF Attest, RunTests
  <2>2. /\ w.issuer = v /\ w.policy = rec.policy /\ w.plan = rec.plan
        /\ w.evidence = rec.evidence
        /\ w = SignEvidence(w.policy, w.plan, w.evidence, w.issuer, KeyOf[w.issuer])
    BY DEF SignEvidence
  <2>3. rec.evidence.plan = rec.plan /\ rec.plan \in plans
    BY DEF Bundle
  <2> HIDE DEF rec, w
  <2>4. VerifiedTypeOK'
    BY <2>1, <2>2
  <2> QED
    BY <2>1, <2>3, <2>4 DEF RecordsPlanned
<1>5. ASSUME NEW a \in Actors, Verifying(a)
      PROVE  VerifiedTypeOK' /\ RecordsPlanned'
  <2>1. PICK k \in Calls, x \in Carried, sources \in SUBSET Carried :
           \E mode, n : Delivered(k, a, x, sources, mode, n)
    BY <1>5, VerifyingDelivers
  <2>2. PICK mode, n : Delivered(k, a, x, sources, mode, n)
    BY <2>1
  <2>3. /\ UNCHANGED <<plans, records, issuers, authorities, wrappers>>
        /\ \/ basis' = basis
           \/ /\ basis' = [basis EXCEPT ![k] = [mode |-> mode, issuers |-> issuers,
                                                authorities |-> authorities]]
              /\ mode \in {"evidence", "policy"}
    BY <2>2, DeliveredEffect
  <2>4. [mode |-> mode, issuers |-> issuers, authorities |-> authorities] \in Basis
           \/ basis' = basis
    BY <2>3 DEF Basis
  <2>5. basis' \in [Calls -> Basis \cup {Local}]
    BY <2>3, <2>4
  <2> QED
    BY <2>3, <2>5 DEF RecordsPlanned
<1>6. ASSUME NEW a \in Actors, NEW c \in Challenges, NEW k \in Calls, NEW n,
             DeriveVerifiedPlan(a, c, k, n)
      PROVE  UNCHANGED <<records, trustVars>>
  BY <1>6 DEF DeriveVerifiedPlan, DerivePlan, AddPlan
<1> QED
  BY <1>2, <1>3, <1>4, <1>5, <1>6 DEF VerifiedNext, verifiedVars, allVars, vars

THEOREM VerifiedTypeCorrect == VerifiedSpec => [](VerifiedTypeOK /\ RecordsPlanned)
<1>1. VerifiedInit => VerifiedTypeOK /\ RecordsPlanned
  BY TrustAssumption DEF VerifiedInit, LifecycleInit, Init, VerifiedTypeOK,
                         RecordsPlanned, Local
<1> QED
  BY <1>1, TrustSteps, PTL DEF VerifiedSpec

\* Signing, verifying and registries of trust add nothing admission does not
\* do without them: the verified service implements the service of
\* ProfileLifecycle, and every theorem about that one is one about this.
THEOREM VerifiedIsLifecycle == VerifiedSpec => LifecycleSpec
<1>1. VerifiedInit => LifecycleInit
  BY DEF VerifiedInit
<1> QED
  BY <1>1, VerifiedTypeCorrect, VerifiedStepIsLifecycleStep, PTL
  DEF VerifiedSpec, LifecycleSpec

\* Whatever carriers deliver and whoever is trusted meanwhile, a verified grant
\* is one the ledger of proofs backs.
THEOREM VerifiedImplementsContract == VerifiedSpec => ImplementsContract
BY VerifiedIsLifecycle, LifecycleImplementsContract, PTL

-----------------------------------------------------------------------------
(* Who vouched for a profile.  As with GuaranteesProven, the invariant is on
   the snapshots: what a call was verified against is remembered beside it. *)

\* Snapshot s passed admission over records that registries b vouch for.
SignedSnapshot(s, b) ==
    /\ \E T \in SUBSET SourceRecords :
          /\ EvidenceBackedOK(s.policy, s.evidence.plan, s.evidence, s.actor,
                              s.robot, T, s.at)
          /\ Vouched(T \cup {s}, b.issuers)
    /\ b.mode = "policy" => Authorized(s.policy, b.authorities)

Held(k) == call[k].stage \in {"claiming", "returned"}

BasisInv ==
    /\ \A k \in Calls : call[k] = Idle => basis[k] = Local
    /\ \A k \in Calls : Held(k) /\ basis[k] # Local => SignedSnapshot(call[k], basis[k])

\* A call under way is never idle again and never looks at new inputs.
LEMMA SnapshotsStay ==
    ASSUME TypeOK, [Next]_vars, NEW k \in Calls, call[k] # Idle
    PROVE  /\ call'[k] # Idle
           /\ Held(k)' =>
                /\ Held(k)
                /\ call'[k].policy = call[k].policy /\ call'[k].evidence = call[k].evidence
                /\ call'[k].actor = call[k].actor /\ call'[k].robot = call[k].robot
                /\ call'[k].at = call[k].at
<1>1. ASSUME call'[k] = call[k]
      PROVE  /\ call'[k] # Idle
             /\ Held(k)' =>
                  /\ Held(k)
                  /\ call'[k].policy = call[k].policy /\ call'[k].evidence = call[k].evidence
                  /\ call'[k].actor = call[k].actor /\ call'[k].robot = call[k].robot
                  /\ call'[k].at = call[k].at
  BY <1>1 DEF Held
<1>2. ASSUME NEW a \in Actors, Planning(a) \/ Submitting(a)
      PROVE  call'[k] = call[k]
  <2>1. ASSUME Submitting(a)
        PROVE  call'[k] = call[k]
    <3>1. PICK l \in Calls : call[l] = Idle /\ \E c : call' = [call EXCEPT ![l] = c]
      BY <2>1 DEF Submitting, Submit
    <3> QED
      BY <3>1 DEF TypeOK
  <2> QED
    BY <1>2, <2>1, PlanningType
<1>3. ASSUME NEW l \in Calls, Refuse(l)
      PROVE  call'[k] = call[k]
  BY <1>3 DEF Refuse, TypeOK
<1>4. ASSUME NEW l \in Calls, Claim(l), l # k
      PROVE  call'[k] = call[k]
  BY <1>4 DEF Claim, TypeOK
<1>5. CASE Claim(k)
  <2> DEFINE s == call[k]
             answer == [s EXCEPT !.stage = "returned", !.epoch = epoch,
                        !.profile = Verdict(s.policy, s.evidence.plan, s.evidence)]
  <2>1. s \in CallState
    BY <1>5 DEF Claim, TypeOK, Idle, Refused
  <2>2. call'[k] = answer \/ call'[k] = Refused
    BY <1>5 DEF Claim, TypeOK
  <2>3. CASE call'[k] = answer
    <3>1. /\ answer.stage = "returned"
          /\ answer.policy = s.policy /\ answer.evidence = s.evidence
          /\ answer.actor = s.actor /\ answer.robot = s.robot /\ answer.at = s.at
      BY <2>1 DEF CallState
    <3>2. s.stage = "claiming"
      BY <1>5 DEF Claim
    <3> HIDE DEF answer
    <3> QED
      BY <2>3, <3>1, <3>2 DEF Held, Idle
  <2>4. CASE call'[k] = Refused
    BY <2>4 DEF Refused, Held, Idle
  <2> QED
    BY <2>2, <2>3, <2>4
<1> QED
  BY <1>1, <1>2, <1>3, <1>4, <1>5
  DEF Next, vars, Tick, RegistryRestart, PublishPolicy, RobotChanges, RunTests

\* Steps that leave the basis alone keep it.
LEMMA BasisUndisturbed ==
    ASSUME TypeOK, BasisInv, [Next]_vars, UNCHANGED basis, wrappers \subseteq wrappers',
           records \subseteq records',
           \A k \in Calls : call[k] = Idle => basis[k] = Local
    PROVE  BasisInv'
<1>1. SourceRecords \subseteq SourceRecords'
  BY DEF SourceRecords
<1>2. ASSUME NEW k \in Calls, call'[k] = Idle
      PROVE  basis'[k] = Local
  BY <1>2, SnapshotsStay
<1>3. ASSUME NEW k \in Calls, Held(k)', basis'[k] # Local
      PROVE  SignedSnapshot(call[k], basis[k])'
  <2>1. /\ Held(k)
        /\ call'[k].policy = call[k].policy /\ call'[k].evidence = call[k].evidence
        /\ call'[k].actor = call[k].actor /\ call'[k].robot = call[k].robot
        /\ call'[k].at = call[k].at
    BY <1>3, SnapshotsStay
  <2>2. SignedSnapshot(call[k], basis[k])
    BY <1>3, <2>1 DEF BasisInv
  <2>3. PICK T \in SUBSET SourceRecords :
          /\ EvidenceBackedOK(call[k].policy, call[k].evidence.plan, call[k].evidence,
                              call[k].actor, call[k].robot, T, call[k].at)
          /\ Vouched(T \cup {call[k]}, basis[k].issuers)
    BY <2>2 DEF SignedSnapshot
  <2>4. \A rec \in T \cup {call'[k]} : \E w \in wrappers' :
          w.evidence = rec.evidence
            /\ TrustedFor(w.evidence.plan.policy, w, basis'[k].issuers)
    BY <2>1, <2>3 DEF Vouched
  <2> QED
    BY <1>1, <2>1, <2>2, <2>3, <2>4 DEF SignedSnapshot, Vouched, Authorized
<1> QED
  BY <1>2, <1>3 DEF BasisInv

\* A verified call records a basis that holds.
LEMMA BasisDelivered ==
    ASSUME VerifiedTypeOK, RecordsPlanned, TypeOK, BasisInv,
           NEW k \in Calls, NEW a \in Actors, NEW x \in Carried,
           NEW sources \in SUBSET Carried, NEW mode, NEW n,
           Delivered(k, a, x, sources, mode, n)
    PROVE  BasisInv'
<1>1. CASE basis' = basis
  <2>1. [Next]_vars
    BY DeliveredSubmits
  <2>2. UNCHANGED <<records, wrappers>>
    BY DeliveredEffect
  <2> QED
    BY <1>1, <2>1, <2>2, BasisUndisturbed DEF BasisInv
<1>2. CASE /\ call' = [call EXCEPT ![k] = Snapshot("evidence_backed", x.evidence, a)]
           /\ basis' = [basis EXCEPT ![k] = [mode |-> mode, issuers |-> issuers,
                                            authorities |-> authorities]]
           /\ Validated("evidence_backed", x.evidence, a, x.plan, sources)
           /\ EvidenceVerified(x, sources)
           /\ mode = "policy" => Authorized(policy, authorities)
  <2>1. PICK s : s = Snapshot("evidence_backed", x.evidence, a)
    OBVIOUS
  <2>2. PICK b : b = [mode |-> mode, issuers |-> issuers, authorities |-> authorities]
    OBVIOUS
  <2>3. /\ s.policy = policy /\ s.evidence = x.evidence /\ s.actor = a
        /\ s.robot = robot[a] /\ s.at = now /\ s # Idle
    BY <2>1 DEF Snapshot, Idle
  <2>4. EvidenceBackedOK(policy, x.plan, x.evidence, a, robot[a], Relied(sources), now)
    BY <1>2, RecordsSuffice DEF Validated
  <2>5. x.evidence.plan = x.plan
    BY <2>4 DEF EvidenceBackedOK, RecordOK, Consistent
  <2>6. EvidenceBackedOK(s.policy, s.evidence.plan, s.evidence, s.actor, s.robot,
                         Relied(sources), s.at)
    BY <2>3, <2>4, <2>5
  <2>7. /\ Relied(sources) \in SUBSET SourceRecords
        /\ Vouched(Relied(sources) \cup {x}, issuers)
    BY <1>2, DeliveryIsGenuine
  <2>8. Vouched(Relied(sources) \cup {s}, b.issuers)
    BY <2>2, <2>3, <2>7 DEF Vouched
  <2>9. b.mode = "policy" => Authorized(s.policy, b.authorities)
    BY <1>2, <2>2, <2>3
  <2>10. UNCHANGED <<records, wrappers>>
    BY DeliveredEffect
  <2>11. SignedSnapshot(s, b)'
    <3>1. SourceRecords' = SourceRecords
      BY <2>10 DEF SourceRecords
    <3>2. Vouched(Relied(sources) \cup {s}, b.issuers)'
      BY <2>8, <2>10 DEF Vouched
    <3> QED
      BY <2>6, <2>7, <2>9, <3>1, <3>2 DEF SignedSnapshot
  <2>12. ASSUME NEW l \in Calls, l # k, Held(l), basis[l] # Local
         PROVE  SignedSnapshot(call[l], basis[l])'
    <3>1. call'[l] = call[l] /\ basis'[l] = basis[l]
      BY <1>2, <2>12 DEF TypeOK, VerifiedTypeOK
    <3>2. SignedSnapshot(call[l], basis[l])
      BY <2>12 DEF BasisInv
    <3> QED
      BY <2>10, <3>1, <3>2 DEF SignedSnapshot, Vouched, SourceRecords
  <2>13. call' = [call EXCEPT ![k] = s] /\ basis' = [basis EXCEPT ![k] = b]
    BY <1>2, <2>1, <2>2
  <2> QED
    BY <2>3, <2>11, <2>12, <2>13 DEF BasisInv, TypeOK, VerifiedTypeOK, Held
<1> QED
  BY <1>1, <1>2, DeliveredEffect

\* What verified calls were verified against holds of what they hold.
THEOREM BasisStaysSound == VerifiedSpec => []BasisInv
<1>1. VerifiedInit => BasisInv
  BY DEF VerifiedInit, LifecycleInit, Init, BasisInv, Held, Idle
<1>2. ASSUME TypeOK, VerifiedTypeOK, RecordsPlanned, BasisInv, [VerifiedNext]_verifiedVars
      PROVE  BasisInv'
  <2>1. [LifecycleNext]_allVars
    BY <1>2, VerifiedStepIsLifecycleStep
  <2>2. ASSUME UNCHANGED basis, wrappers \subseteq wrappers', records \subseteq records'
        PROVE  BasisInv'
    <3>1. [Next]_vars
      BY <2>1, LifecycleStepIsAdmissionStep
    <3> QED
      BY <1>2, <2>2, <3>1, BasisUndisturbed DEF BasisInv
  <2>3. CASE LifecycleNext /\ UNCHANGED <<records, trustVars>>
    BY <2>2, <2>3 DEF trustVars
  <2>4. CASE TrustChanges
    BY <2>2, <2>4 DEF TrustChanges, AddIssuer, AddAuthority, allVars, vars
  <2>5. ASSUME NEW a \in Actors, NEW v \in IssuerIds, NEW plan \in plans,
               NEW level \in RunnerLevels, Attest(v, a, plan, level)
        PROVE  BasisInv'
    BY <2>2, <2>5 DEF Attest, RunTests
  <2>6. ASSUME NEW a \in Actors, Verifying(a)
        PROVE  BasisInv'
    BY <1>2, <2>6, VerifyingDelivers, BasisDelivered
  <2>7. ASSUME NEW a \in Actors, NEW c \in Challenges, NEW k \in Calls, NEW n,
               DeriveVerifiedPlan(a, c, k, n)
        PROVE  BasisInv'
    BY <2>2, <2>7 DEF DeriveVerifiedPlan, DerivePlan, AddPlan, trustVars
  <2>8. CASE UNCHANGED verifiedVars
    BY <2>2, <2>8 DEF verifiedVars, trustVars, allVars, vars
  <2> QED
    BY <1>2, <2>3, <2>4, <2>5, <2>6, <2>7, <2>8 DEF VerifiedNext
<1>3. VerifiedSpec => []TypeOK
  BY VerifiedIsLifecycle, LifecycleKeepsAdmission, TypeCorrect, PTL
<1> QED
  BY <1>1, <1>2, <1>3, VerifiedTypeCorrect, PTL DEF VerifiedSpec

\* For every deployment, each guarantee of a verified profile rests on a test
\* attested by a validator trusted then for the space it was run for.
THEOREM GuaranteesAreVouchedFor == VerifiedSpec => []VouchedFor
<1>1. ASSUME IInv, BasisInv
      PROVE  VouchedFor
  <2> SUFFICES ASSUME NEW k \in Calls, VerifiedGrant(k),
                      NEW r \in call[k].profile.guarantees
               PROVE  \E w \in wrappers :
                         /\ Backs(w, call[k], r)
                         /\ TrustedFor(w.evidence.plan.policy, w, basis[k].issuers)
    BY DEF VouchedFor
  <2> DEFINE s == call[k]
  <2>1. /\ s.stage = "returned" /\ s.entry = "evidence_backed" /\ basis[k] # Local
        /\ s \in CallState
    BY <1>1 DEF VerifiedGrant, Enforced, Granted, Answered, IInv, TypeOK, Idle, Refused
  <2>2. PICK T \in SUBSET SourceRecords :
          /\ EvidenceBackedOK(s.policy, s.evidence.plan, s.evidence, s.actor, s.robot, T, s.at)
          /\ Vouched(T \cup {s}, basis[k].issuers)
    BY <1>1, <2>1 DEF BasisInv, Held, SignedSnapshot
  <2>3. s.profile = Verdict(s.policy, s.evidence.plan, s.evidence) /\ Vetted(s)
    BY <1>1, <2>1 DEF IInv, SnapshotsVetted
  <2>4. \A rec \in T \cup {s} : rec.evidence.until = rec.evidence.issued + Validity
    BY <1>1, <2>3 DEF IInv, FullLifetimes, Vetted, SourceRecords
  <2>5. s.evidence \in Evidence
    BY <2>1 DEF CallState
  <2>6. PICK rec \in T \cup {s} : Backs(rec, s, r)
    BY <2>2, <2>3, <2>4, <2>5, GuaranteeBacked
  <2> QED
    BY <2>2, <2>6 DEF Vouched, Backs
<1>2. VerifiedSpec => []IInv
  BY VerifiedIsLifecycle, LifecycleKeepsAdmission, SnapshotsStayVetted, PTL
<1> QED
  BY <1>1, <1>2, BasisStaysSound, PTL

\* For every deployment, a verified-policy profile was admitted under a policy
\* that an authority trusted then for its place and space signed.
THEOREM PoliciesAreAuthorized == VerifiedSpec => []PolicyAuthorized
<1>1. ASSUME BasisInv
      PROVE  PolicyAuthorized
  BY <1>1 DEF PolicyAuthorized, VerifiedGrant, Enforced, Granted, Answered, BasisInv,
              Held, SignedSnapshot
<1> QED
  BY <1>1, BasisStaysSound, PTL

\* For every deployment, VALID by signatures means trusted, and proven, now.
THEOREM ValidProfilesAreTrusted == VerifiedSpec => []ValidIsTrusted
<1>1. ASSUME VerifiedTypeOK, IInv
      PROVE  ValidIsTrusted
  <2> SUFFICES ASSUME NEW k \in Calls, NEW a \in Actors, Enforced(k), NEW x \in Carried,
                      NEW n \in CarriedNotices \cup {NoNotice},
                      AssessSigned(k, a, call[k].evidence, x, n) = "VALID"
               PROVE  /\ \E w \in wrappers : /\ w.evidence = call[k].evidence
                                              /\ w.scope = EvidenceScope(policy)
                                              /\ TrustedFor(policy, w, issuers)
                      /\ n # NoNotice => Authorized(policy, authorities)
                      /\ \A r \in policy.reqs : \E rec \in records : Shows(rec, a, r)
    BY DEF ValidIsTrusted
  <2>1. Current(k, a)
    BY DEF AssessSigned, Current
  <2>2. call[k].evidence # NoEvidence
    BY <2>1 DEF Current, Assess
  <2>3. TrustHolds(call[k].evidence, x, n)
    BY <2>2 DEF AssessSigned
  <2>4. \E w \in wrappers : /\ w.evidence = call[k].evidence
                            /\ w.scope = EvidenceScope(policy)
                            /\ TrustedFor(policy, w, issuers)
    BY <1>1, <2>3, VerifiedIsGenuine DEF TrustHolds, Anchored, TrustedFor
  <2>5. n # NoNotice => Authorized(policy, authorities)
    BY <1>1, <2>3, VerifiedIsEndorsed DEF TrustHolds
  <2>6. \A r \in policy.reqs : \E rec \in records : Shows(rec, a, r)
    BY <1>1, <2>1, IInvImpliesValidIsProven DEF ValidIsProven
  <2> QED
    BY <2>4, <2>5, <2>6
<1>2. VerifiedSpec => []IInv
  BY VerifiedIsLifecycle, LifecycleKeepsAdmission, SnapshotsStayVetted, PTL
<1> QED
  BY <1>1, <1>2, VerifiedTypeCorrect, PTL

\* What an honest validator signs verifies for the space it was signed for,
\* wherever the validator is trusted for it.
LEMMA HonestVerifies ==
    ASSUME NEW i \in IssuerIds, NEW p, NEW plan, NEW e,
           TrustedFor(p, SignEvidence(p, plan, e, i, KeyOf[i]), issuers)
    PROVE  Verifies(SignEvidence(p, plan, e, i, KeyOf[i]), issuers, EvidenceScope(p))
BY DEF TrustedFor, SignEvidence, Verifies

\* Whatever an authority endorsed is on a notice, and verifies wherever the
\* authority is trusted for the place and the space.
LEMMA EndorsedVerifies ==
    ASSUME NEW u \in AuthorityIds, NEW p, AuthorizedBy(u, p, authorities)
    PROVE  \E n \in Notices : VerifiesPolicy(n, authorities, p.place, p.space)
<1> DEFINE n == SignPolicy(p, u, KeyOf[u])
<1>1. n \in Notices
  BY DEF AuthorizedBy, Notices
<1>2. VerifiesPolicy(n, authorities, p.place, p.space)
  BY DEF AuthorizedBy, SignPolicy, VerifiesPolicy, PolicyScope
<1> QED
  BY <1>1, <1>2

\* For every deployment, verification refuses nobody honest.
THEOREM HonestRobotsAreGranted == VerifiedSpec => []HonestIsGranted
<1>1. ASSUME VerifiedTypeOK, TypeOK
      PROVE  HonestIsGranted
  <2>1. ASSUME NEW a \in Actors, NEW c \in Challenges,
               NEW level \in RunnerLevels \cap 2 .. 4,
               NEW v \in IssuerIds, NEW S \in SUBSET wrappers,
               NEW plan, NEW e, NEW w,
               w = SignEvidence(policy, plan, e, v, KeyOf[v]),
               TrustedFor(policy, w, issuers),
               \A y \in S : TrustedFor(y.policy, y, issuers)
        PROVE  EvidenceVerified(w, S) /\ GrantsWhatIsShown(a, c, level, S)
    <3>1. Verifies(w, issuers, EvidenceScope(policy))
      BY <2>1, HonestVerifies
    <3>2. ASSUME NEW y \in S
          PROVE  Verifies(y, issuers, EvidenceScope(y.policy))
      <4>1. /\ y.issuer \in IssuerIds
            /\ y = SignEvidence(y.policy, y.plan, y.evidence, y.issuer, KeyOf[y.issuer])
        BY <1>1, <2>1 DEF VerifiedTypeOK
      <4>2. TrustedFor(y.policy, y, issuers)
        BY <2>1
      <4> QED
        BY <4>1, <4>2 DEF TrustedFor, SignEvidence, Verifies
    <3>3. GrantsWhatIsShown(a, c, level, S)
      BY <1>1, RequalificationGrants
    <3> QED
      BY <3>1, <3>2, <3>3 DEF EvidenceVerified
  <2> QED
    BY <2>1, EndorsedVerifies DEF HonestIsGranted
<1>2. VerifiedSpec => []TypeOK
  BY VerifiedIsLifecycle, LifecycleKeepsAdmission, TypeCorrect, PTL
<1> QED
  BY <1>1, <1>2, VerifiedTypeCorrect, PTL
=============================================================================
