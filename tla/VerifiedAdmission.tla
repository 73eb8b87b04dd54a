--------------------------- MODULE VerifiedAdmission ---------------------------
(***************************************************************************)
(* Admission from evidence and place policy that arrive signed (trust.py   *)
(* and the verified entry points of boundary.py), and the reassessment of  *)
(* profiles that goes back to the signatures (lifecycle.py).  The service  *)
(* and the lifecycle of ProfileLifecycle go on as before; here validators  *)
(* sign the bundles they produce, authorities sign requirement sets, and a *)
(* deployment adds to its two trust registries while profiles are out.     *)
(*                                                                         *)
(* A signature is the key that made it with the payload it covers: no one  *)
(* makes one without the key.  Everything between signer and verifier may  *)
(* be altered, or signed again with a key the deployment does not know.    *)
(***************************************************************************)
EXTENDS ProfileLifecycle

CONSTANTS
    IssuerIds, AuthorityIds,
    Keys, ForeignKey,   \* private keys of the validators and authorities; anyone else's
    KeyOf,              \* the key each of them signs with
    IssuerAnchors,      \* the TrustedIssuers that may be provisioned for an id
    AuthorityAnchors,   \* the TrustedPolicyAuthorities, likewise
    InitialIssuers, InitialAuthorities,   \* the registries as constructed
    Endorses            \* <<authority, policy>>: the requirement sets it signed

EvidenceBundleType    == "spp:evidence-bundle"
PlaceRequirementsType == "spp:place-requirement-set"

\* evidence_scope and policy_scope; an anchor's patterns stand for the set of
\* scopes they match.
EvidenceScope(p) == <<p.place, p.space>>
PolicyScope(p)   == p.space

PayloadTypes == {EvidenceBundleType, PlaceRequirementsType}

Issuer    == [key : Keys, types : SUBSET PayloadTypes, scopes : SUBSET (Places \X Spaces),
              enabled : BOOLEAN]
Authority == [key : Keys, places : SUBSET Places, scopes : SUBSET Spaces,
              enabled : BOOLEAN]
Unknown   == [enabled |-> FALSE]

ASSUME TrustAssumption ==
    /\ ForeignKey \notin Keys
    /\ KeyOf \in [IssuerIds \cup AuthorityIds -> Keys]
    /\ \A i \in IssuerIds : IssuerAnchors[i] \subseteq Issuer
    /\ \A u \in AuthorityIds : AuthorityAnchors[u] \subseteq Authority
    /\ InitialIssuers \in [IssuerIds -> Issuer \cup {Unknown}]
    /\ InitialAuthorities \in [AuthorityIds -> Authority \cup {Unknown}]
    /\ Endorses \subseteq AuthorityIds \X Policies

VARIABLES
    issuers,       \* TrustedIssuerRegistry._issuers
    authorities,   \* TrustedPolicyAuthorityRegistry._authorities
    wrappers,      \* SignedEvidenceRecords validators handed out
    basis          \* what each verified call was verified against

trustVars    == <<issuers, authorities, wrappers, basis>>
verifiedVars == <<allVars, trustVars>>

Local == [mode |-> "local"]     \* the call did not come by a verified entry point

-----------------------------------------------------------------------------
(* Signing and verifying. *)

\* _signature_payload and its counterpart for policies, under the key that signs it.
Signature(key, issuer, type, scope, digest) == <<key, issuer, type, scope, digest>>

\* sign_evidence by issuer i, with the requirements and plan that a
\* SignedEvidenceRecord carries along unsigned.
SignEvidence(p, plan, e, i, key) ==
    [policy |-> p, plan |-> plan, evidence |-> e, issuer |-> i,
     type |-> EvidenceBundleType, scope |-> EvidenceScope(p), digest |-> e,
     signature |-> Signature(key, i, EvidenceBundleType, EvidenceScope(p), e)]

\* Mutant: the signed digest is not compared with the evidence it comes with.
VerifiesAnyPayload(x, registry, expected) ==
    LET anchor == registry[x.issuer] IN
    /\ anchor.enabled /\ x.type \in anchor.types
    /\ x.scope = expected /\ x.scope \in anchor.scopes
    /\ x.signature = Signature(anchor.key, x.issuer, x.type, x.scope, x.digest)

\* verify_signed_evidence; an issuer that is not registered is Unknown.
Verifies(x, registry, expected) ==
    LET anchor == registry[x.issuer] IN
    /\ anchor.enabled /\ x.type \in anchor.types
    /\ x.scope = expected /\ x.scope \in anchor.scopes
    /\ x.digest = x.evidence
    /\ x.signature = Signature(anchor.key, x.issuer, x.type, x.scope, x.digest)

\* sign_place_requirements.
SignPolicy(p, u, key) ==
    [policy |-> p, authority |-> u, type |-> PlaceRequirementsType,
     scope |-> PolicyScope(p), digest |-> p,
     signature |-> Signature(key, u, PlaceRequirementsType, PolicyScope(p), p)]

\* Mutant: whoever may sign for the place may sign for every space of it.
VerifiesAnySpace(n, registry, place, space) ==
    LET anchor == registry[n.authority] IN
    /\ anchor.enabled
    /\ n.policy.place = place /\ PolicyScope(n.policy) = space
    /\ n.scope = PolicyScope(n.policy) /\ n.type = PlaceRequirementsType
    /\ n.policy.place \in anchor.places
    /\ n.digest = n.policy
    /\ n.signature = Signature(anchor.key, n.authority, n.type, n.scope, n.digest)

\* verify_signed_place_requirements.
VerifiesPolicy(n, registry, place, space) ==
    LET anchor == registry[n.authority] IN
    /\ anchor.enabled
    /\ n.policy.place = place /\ PolicyScope(n.policy) = space
    /\ n.scope = PolicyScope(n.policy) /\ n.type = PlaceRequirementsType
    /\ n.policy.place \in anchor.places /\ PolicyScope(n.policy) \in anchor.scopes
    /\ n.digest = n.policy
    /\ n.signature = Signature(anchor.key, n.authority, n.type, n.scope, n.digest)

-----------------------------------------------------------------------------
(* What reaches a verifier. *)

\* A bundle in which every test passed.
Flattered(e) == [e EXCEPT !.results = {[r EXCEPT !.passed = TRUE] : r \in @}]

\* What a carrier can make of a wrapper without a trusted key.
Doctored(w) ==
    LET e == Flattered(w.evidence) IN
    {[w EXCEPT !.policy = p] : p \in Policies}
    \cup {[w EXCEPT !.scope = EvidenceScope(p)] : p \in Policies}
    \cup {[w EXCEPT !.issuer = i] : i \in IssuerIds}
    \cup {[w EXCEPT !.plan = v.plan, !.evidence = v.evidence] : v \in wrappers}
    \cup {[w EXCEPT !.evidence = e], [w EXCEPT !.evidence = e, !.digest = e],
          SignEvidence(w.policy, w.plan, e, w.issuer, ForeignKey)}

Carried == wrappers \cup UNION {Doctored(w) : w \in wrappers}

\* A current wrapper and source wrappers, one of them doctored at most.
Deliveries ==
    (Carried \X SUBSET wrappers)
    \cup {<<w, S \cup {x}>> : w \in wrappers, S \in SUBSET wrappers, x \in Carried}

Notices == {SignPolicy(n[2], n[1], KeyOf[n[1]]) : n \in Endorses}

DoctoredNotices(n) ==
    {[n EXCEPT !.policy = p] : p \in Policies}
    \cup {[n EXCEPT !.policy = p, !.scope = PolicyScope(p), !.digest = p] : p \in Policies}
    \cup {[n EXCEPT !.authority = u] : u \in AuthorityIds}
    \cup {SignPolicy(p, n.authority, ForeignKey) : p \in Policies}

CarriedNotices == Notices \cup UNION {DoctoredNotices(n) : n \in Notices}

NoNotice == [policy |-> "none"]     \* signed_requirements not given

-----------------------------------------------------------------------------
VerifiedInit ==
    /\ LifecycleInit
    /\ issuers = InitialIssuers /\ authorities = InitialAuthorities
    /\ wrappers = {}
    /\ basis = [k \in Calls |-> Local]

\* TrustedIssuerRegistry.add: a new anchor, or another key, scope or state in
\* the place of the one the id had.
AddIssuer(i, anchor) ==
    /\ anchor # issuers[i]
    /\ issuers' = [issuers EXCEPT ![i] = anchor]
    /\ UNCHANGED <<allVars, authorities, wrappers, basis>>

AddAuthority(u, anchor) ==
    /\ anchor # authorities[u]
    /\ authorities' = [authorities EXCEPT ![u] = anchor]
    /\ UNCHANGED <<allVars, issuers, wrappers, basis>>

\* Mutant: the wrapper is scoped to the space the plan was made for.
AttestForPlan(v, a, plan, level) ==
    /\ RunTests(a, plan, level)
    /\ wrappers' = wrappers \cup
         {SignEvidence(plan.policy, plan, Bundle(a, plan, level), v, KeyOf[v])}
    /\ UNCHANGED <<gateVars, issuers, authorities, basis>>

\* A validator runs a plan and signs its bundle for the place and space of the
\* requirements it had.
Attest(v, a, plan, level) ==
    /\ RunTests(a, plan, level)
    /\ wrappers' = wrappers \cup
         {SignEvidence(policy, plan, Bundle(a, plan, level), v, KeyOf[v])}
    /\ UNCHANGED <<gateVars, issuers, authorities, basis>>

\* Mutant: only the current wrapper is verified, not those of the sources.
CurrentVerified(x, sources) == Verifies(x, issuers, EvidenceScope(policy))

\* Mutant: source wrappers are held to the space that is asked for.
SourcesOfThisSpace(x, sources) ==
    \A y \in sources \cup {x} : Verifies(y, issuers, EvidenceScope(policy))

\* The current wrapper verifies for the admitted policy, each source wrapper
\* for the requirements that came with it.
EvidenceVerified(x, sources) ==
    /\ Verifies(x, issuers, EvidenceScope(policy))
    /\ \A y \in sources : Verifies(y, issuers, EvidenceScope(y.policy))

\* A verified entry point: refuse what does not verify, pass the rest on.
SubmitSigned(k, mode, a, x, sources, verified) ==
    LET passed == verified /\ Validated("evidence_backed", x.evidence, a, x.plan, sources)
    IN  /\ call[k] = Idle
        /\ call' = [call EXCEPT ![k] =
                     IF passed THEN Snapshot("evidence_backed", x.evidence, a)
                     ELSE Refused]
        /\ basis' = IF passed
                    THEN [basis EXCEPT ![k] = [mode |-> mode, issuers |-> issuers,
                                               authorities |-> authorities]]
                    ELSE basis
        /\ UNCHANGED <<now, policy, robot, plans, records, accepted, epoch, gateVars,
                       issuers, authorities, wrappers>>

\* admit_verified_evidence_backed.
SubmitVerified(k, a, x, sources) ==
    SubmitSigned(k, "evidence", a, x, sources, EvidenceVerified(x, sources))

\* admit_verified_policy_evidence_backed; expected_place and expected_scope are
\* the notice's own.
SubmitVerifiedPolicy(k, a, n, x, sources) ==
    /\ n.policy = policy
    /\ SubmitSigned(k, "policy", a, x, sources,
          /\ VerifiesPolicy(n, authorities, n.policy.place, n.policy.space)
          /\ EvidenceVerified(x, sources))

\* derive_verified_plan raises unless the requirements verify.
DeriveVerifiedPlan(a, c, k, n) ==
    /\ n.policy = policy
    /\ VerifiesPolicy(n, authorities, n.policy.place, n.policy.space)
    /\ DerivePlan(a, c, k)
    /\ UNCHANGED <<gateVars, trustVars>>

TrustChanges ==
    \/ \E i \in IssuerIds : \E anchor \in IssuerAnchors[i] : AddIssuer(i, anchor)
    \/ \E u \in AuthorityIds : \E anchor \in AuthorityAnchors[u] : AddAuthority(u, anchor)

Verifying(a) ==
    \E k \in {j \in Calls : call[j] = Idle} :
        \/ \E d \in Deliveries :
              \/ SubmitVerified(k, a, d[1], d[2])
              \/ \E n \in Notices : SubmitVerifiedPolicy(k, a, n, d[1], d[2])
        \/ \E n \in CarriedNotices, w \in wrappers, S \in SUBSET wrappers :
              SubmitVerifiedPolicy(k, a, n, w, S)

VerifiedNext ==
    \/ LifecycleNext /\ UNCHANGED <<records, trustVars>>
    \/ TrustChanges
    \/ \E a \in Actors :
          \/ \E v \in IssuerIds, plan \in plans, level \in RunnerLevels :
                Attest(v, a, plan, level)
          \/ Verifying(a)
          \/ \E c \in Challenges, k \in Calls, n \in CarriedNotices :
                DeriveVerifiedPlan(a, c, k, n)

VerifiedSpec ==
    /\ VerifiedInit /\ [][VerifiedNext]_verifiedVars
    /\ \A k \in Calls : WF_vars(Claim(k))

-----------------------------------------------------------------------------
(* Reassessment with signatures: assess_profile_lifecycle given the wrapper
   and, unless it is NoNotice, the signed requirements. *)

\* Mutant: the wrapper may be about other evidence than the one assessed.
TrustHoldsForAny(e, x, n) ==
    /\ Verifies(x, issuers, EvidenceScope(policy))
    /\ n # NoNotice =>
          /\ VerifiesPolicy(n, authorities, policy.place, policy.space)
          /\ n.policy = policy

\* _trust_assessment finds nothing wrong.
TrustHolds(e, x, n) ==
    /\ Verifies(x, issuers, EvidenceScope(policy)) /\ x.evidence = e
    /\ n # NoNotice =>
          /\ VerifiesPolicy(n, authorities, policy.place, policy.space)
          /\ n.policy = policy

\* A revoked or denied profile, or one without evidence, is answered before
\* trust is looked at; Assess answers it the same.
AssessSigned(k, a, e, x, n) ==
    IF e # NoEvidence /\ ~TrustHolds(e, x, n) THEN "INVALID" ELSE Assess(k, a, e)

-----------------------------------------------------------------------------
(* Properties. *)

Basis == [mode : {"evidence", "policy"},
          issuers : [IssuerIds -> Issuer \cup {Unknown}],
          authorities : [AuthorityIds -> Authority \cup {Unknown}]]

VerifiedTypeOK ==
    /\ issuers \in [IssuerIds -> Issuer \cup {Unknown}]
    /\ authorities \in [AuthorityIds -> Authority \cup {Unknown}]
    /\ basis \in [Calls -> Basis \cup {Local}]
    /\ \A w \in wrappers :
          /\ w.issuer \in IssuerIds
          /\ w = SignEvidence(w.policy, w.plan, w.evidence, w.issuer, KeyOf[w.issuer])
          /\ \E rec \in records : /\ w.policy = rec.policy /\ w.plan = rec.plan
                                 /\ w.evidence = rec.evidence

\* A registry trusts the validator of w for the place and space of policy p.
TrustedFor(p, w, registry) ==
    LET anchor == registry[w.issuer] IN
    /\ anchor.enabled /\ anchor.key = KeyOf[w.issuer]
    /\ EvidenceBundleType \in anchor.types
    /\ EvidenceScope(p) \in anchor.scopes

AuthorizedBy(u, p, registry) ==
    /\ <<u, p>> \in Endorses
    /\ registry[u].enabled /\ registry[u].key = KeyOf[u]
    /\ p.place \in registry[u].places /\ p.space \in registry[u].scopes

Authorized(p, registry) == \E u \in AuthorityIds : AuthorizedBy(u, p, registry)

VerifiedGrant(k) == Enforced(k) /\ basis[k] # Local

\* Whatever carriers altered, and however a proof travelled, each guarantee of
\* a verified profile rests on a direct test that an honest validator attested,
\* whom the deployment trusted, when the call was made, for the very space the
\* test was run for (boundary.py:120-140, trust.py:196-229).
VouchedFor ==
    \A k \in Calls : VerifiedGrant(k) =>
        \A r \in call[k].profile.guarantees :
            \E w \in wrappers :
                /\ Backs(w, call[k], r)
                /\ TrustedFor(w.evidence.plan.policy, w, basis[k].issuers)

\* The policy a verified-policy profile was admitted under was signed, as it
\* stands, by an authority trusted then for that place and that space
\* (boundary.py:162-170, trust.py:256-301).
PolicyAuthorized ==
    \A k \in Calls : VerifiedGrant(k) /\ basis[k].mode = "policy" =>
        Authorized(call[k].policy, basis[k].authorities)

\* VALID by signatures means trusted now: whatever wrapper and notice a host is
\* handed, the profile's own bundle is from a validator trusted today for the
\* space now asked for, the policy in force, if signed, from an authority
\* trusted today for it, and its requirements are proven (lifecycle.py:72-166).
ValidIsTrusted ==
    \A k \in Calls, a \in Actors : Enforced(k) =>
        \A x \in Carried, n \in CarriedNotices \cup {NoNotice} :
            AssessSigned(k, a, call[k].evidence, x, n) = "VALID" =>
                /\ \E w \in wrappers : /\ w.evidence = call[k].evidence
                                       /\ w.scope = EvidenceScope(policy)
                                       /\ TrustedFor(policy, w, issuers)
                /\ n # NoNotice => Authorized(policy, authorities)
                /\ \A r \in policy.reqs : \E rec \in records : Shows(rec, a, r)

\* Verification refuses nobody honest: were a robot requalified now with
\* wrappers of any spaces, each from a validator the deployment trusts for that
\* wrapper's own space, the bundle signed by a validator trusted for the space
\* asked for, a verified entry point would let it through and grant what the
\* robot can show; and a notice of the policy in force would verify, signed by
\* an authority trusted for it (boundary.py:120-170, trust.py:177-301).
HonestIsGranted ==
    /\ \A a \in Actors, c \in Challenges, level \in RunnerLevels \cap 2 .. 4 :
          \A v \in IssuerIds, S \in SUBSET wrappers :
              LET plan == RequalificationPlan(a, c, S)
                  w    == SignEvidence(policy, plan, Bundle(a, plan, level), v, KeyOf[v])
              IN  /\ TrustedFor(policy, w, issuers)
                  /\ \A y \in S : TrustedFor(y.policy, y, issuers)
                  => EvidenceVerified(w, S) /\ GrantsWhatIsShown(a, c, level, S)
    /\ \A u \in AuthorityIds : AuthorizedBy(u, policy, authorities) =>
          \E n \in Notices : VerifiesPolicy(n, authorities, policy.place, policy.space)
=============================================================================
