-------------------------- MODULE EvidenceAdmission --------------------------
(***************************************************************************)
(* Evidence-based admission and selective requalification as a running     *)
(* service: a place publishes requirement sets, robots change state, a     *)
(* planner plans, a trusted test runner executes and bundles, and calls    *)
(* of the two admission entry points race on one shared ReplayRegistry.    *)
(*                                                                         *)
(* A call is two steps, because the code validates a private snapshot      *)
(* taken at one time (boundary.py:50) and only then claims the challenge   *)
(* in the registry other calls share: anything may happen in between.      *)
(***************************************************************************)
EXTENDS AdmissionRules, FiniteSets

CONSTANTS
    Actors, Challenges,
    Calls,            \* concurrent or successive calls of admit*
    RunnerLevels,     \* assurance levels the test runner may report
    Validity,         \* lifetime of a bundle (15 minutes)
    ExternalPlans,    \* coverage claims [reused, unresolved, tested, level]
                      \*   of planners other than derive_*_plan
    LegacyCallers,    \* does any caller use the legacy `admit`?
    MaxTime, MaxPlans, MaxRecords, MaxRestarts    \* bounds of the model

ASSUME ServiceAssumption ==
    /\ RunnerLevels \subseteq Levels
    /\ Validity \in Nat \ {0}
    /\ LegacyCallers \in BOOLEAN
    /\ MaxTime \in Nat /\ MaxPlans \in Nat /\ MaxRecords \in Nat /\ MaxRestarts \in Nat
    /\ ExternalPlans \subseteq [reused : SUBSET Ids, unresolved : SUBSET Ids,
                                tested : SUBSET Ids, level : Levels]

VARIABLES
    now,       \* the admission service's clock
    policy,    \* the requirement set the place has in force
    robot,     \* RobotState of each actor
    plans,     \* conformance plans handed to the runner
    records,   \* original EvidenceRecords, kept across transitions
    accepted,  \* ReplayRegistry._accepted
    epoch,     \* registry lifetimes so far: it lives in memory only
    call       \* progress and result of each admission call

vars == <<now, policy, robot, plans, records, accepted, epoch, call>>

Plan ==
    [policy : Policies, challenge : Challenges,
     tests : SUBSET Test,
     reused : SUBSET Ids, unresolved : SUBSET Ids, level : Levels]

Evidence ==
    [actor : Actors, build : Builds, controller : Controllers,
     embodiment : Embodiments, env : Environments, version : Nat,
     plan : Plan, results : SUBSET Result, level : Levels,
     issued : Nat, until : Nat]

\* requirements (as the runner used them), plan and bundle; caps is what the
\* robot really had when the tests ran, which no bundle discloses.
Record == [policy : Policies, plan : Plan, evidence : Evidence,
           caps : {s.caps : s \in RobotStates}]

Entry == {"evidence_backed", "legacy"}

Profile ==
    [status : {"ADMITTED", "DEGRADED", "DENIED"}, guarantees : SUBSET Requirement,
     restrictions : SUBSET (Restrictions \cup {NoRestriction}),
     unresolved : SUBSET Ids]

\* "claiming" carries a placeholder profile, "returned" the answer.
CallState ==
    [stage : {"claiming", "returned"}, entry : Entry, actor : Actors,
     robot : RobotStates, policy : Policies, evidence : Evidence, at : Nat,
     epoch : Nat, profile : Profile]

Idle    == [stage |-> "idle"]
Refused == [stage |-> "refused"]    \* DENIED before the registry is touched

-----------------------------------------------------------------------------
Init ==
    /\ now = 0
    /\ policy \in Policies
    /\ robot \in [Actors -> RobotStates]
    /\ plans = {} /\ records = {}
    /\ accepted = {} /\ epoch = 0
    /\ call = [c \in Calls |-> Idle]

(* The environment. *)

Tick ==
    /\ now < MaxTime
    /\ now' = now + 1
    /\ UNCHANGED <<policy, robot, plans, records, accepted, epoch, call>>

\* A new build, controller configuration, embodiment, environment or
\* capability, reported by the runtime at any time.
RobotChanges(a, s) ==
    /\ s # robot[a]
    /\ robot' = [robot EXCEPT ![a] = s]
    /\ UNCHANGED <<now, policy, plans, records, accepted, epoch, call>>

\* The place publishes another requirement set, or the mission moves on.
PublishPolicy(p) ==
    /\ p # policy
    /\ policy' = p
    /\ UNCHANGED <<now, robot, plans, records, accepted, epoch, call>>

\* The process restarts, or reset_replay_registry clears the registry.
RegistryRestart ==
    /\ epoch < MaxRestarts
    /\ epoch' = epoch + 1
    /\ accepted' = {}
    /\ UNCHANGED <<now, policy, robot, plans, records, call>>

-----------------------------------------------------------------------------
(* Planning. *)

\* The EvidenceRecords a caller may assemble: a plan and its bundle, with the
\* requirements the runner had or with those the plan was made for.
SourceRecords ==
    UNION {{[policy |-> p, plan |-> rec.plan, evidence |-> rec.evidence] :
               p \in {rec.policy, rec.plan.policy}} : rec \in records}

PlanFor(challenge, tests, reused, unresolved, level) ==
    [policy |-> policy, challenge |-> challenge, tests |-> tests,
     reused |-> reused, unresolved |-> unresolved, level |-> level]

AddPlan(plan) ==
    /\ Cardinality(plans) < MaxPlans
    /\ plans' = plans \cup {plan}
    /\ UNCHANGED <<now, policy, robot, records, accepted, epoch, call>>

\* What derive_requalification_plan makes of the records the caller supplies.
RequalificationPlan(a, c, sources) ==
    LET reused     == SufficientIds(policy, a, robot[a], sources, now, 2)
        unresolved == IdsOf(policy.reqs) \ reused
    IN  PlanFor(c, TestsFor(policy, unresolved, robot[a].embodiment), reused, unresolved, 2)

DeriveRequalificationPlan(a, c, sources) ==
    /\ Unique(policy.reqs)            \* assess_sufficiency would raise
    /\ policy.env = robot[a].env
    /\ AddPlan(RequalificationPlan(a, c, sources))

\* Guarantees of an earlier profile that legacy derive_plan takes for proven:
\* capabilities recorded in the guarantee, same environment, nothing else.
TrustedGuarantees(a, k) ==
    IdsOf({r \in policy.reqs :
        /\ call[k].stage = "returned"
        /\ r.id \in IdsOf(call[k].profile.guarantees)
        /\ call[k].robot.env = robot[a].env
        /\ Satisfies(r, call[k].robot.caps, r.id)})

\* Legacy derive_plan(requirements, robot, proven_guarantees).
DerivePlan(a, c, k) ==
    LET reused     == TrustedGuarantees(a, k)
        unresolved == IdsOf(policy.reqs) \ reused
    IN  AddPlan(PlanFor(c, TestsFor(policy, unresolved, robot[a].embodiment),
                        reused, unresolved, 2))

\* A plan of another planner: self-consistent, whatever it claims.
ReceivePlan(a, c, x) ==
    AddPlan(PlanFor(c, TestsFor(policy, x.tested, robot[a].embodiment),
                    x.reused, x.unresolved, x.level))

-----------------------------------------------------------------------------
(* Testing: execute_plan and build_evidence with one RobotState, as every
   caller in the repository does, against the requirement set in force. *)

\* Mutant: the lifetime is taken off.
ValidUntilBefore(t) == t - Validity

ValidUntil(t) == t + Validity

Bundle(a, plan, level) ==
    [actor |-> a, build |-> robot[a].build, controller |-> robot[a].controller,
     embodiment |-> robot[a].embodiment, env |-> robot[a].env,
     version |-> policy.version, plan |-> plan,
     results |-> {[id |-> t.id,
                   passed |-> \E r \in policy.reqs :
                      r.id = t.id /\ Satisfies(r, robot[a].caps, t.capability)]
                  : t \in plan.tests},
     level |-> level, issued |-> now, until |-> ValidUntil(now)]

RunTests(a, plan, level) ==
    /\ Cardinality(records) < MaxRecords
    /\ IdsOf(plan.tests) \subseteq IdsOf(policy.reqs)     \* next() would raise
    /\ records' = records \cup {[policy |-> policy, plan |-> plan,
                                 evidence |-> Bundle(a, plan, level),
                                 caps |-> robot[a].caps]}
    /\ UNCHANGED <<now, policy, robot, plans, accepted, epoch, call>>

-----------------------------------------------------------------------------
(* Admission. *)

\* What the call remembers of its inputs, and the checks before the claim.
Snapshot(entry, e, a) ==
    [stage |-> "claiming", entry |-> entry, actor |-> a, robot |-> robot[a],
     policy |-> policy, evidence |-> e, at |-> now, epoch |-> epoch,
     profile |-> NoVerdict]

Validated(entry, e, a, plan, sources) ==
    /\ entry = "evidence_backed" =>
         EvidenceBackedOK(policy, plan, e, a, robot[a], sources, now)
    /\ AdmitOK(policy, plan, e, a, robot[a], now)

\* Mutant: the challenge is spent before anything is validated.
SubmitClaims(k, entry, a, plan, rec, sources) ==
    /\ call[k] = Idle
    /\ entry = "legacy" => LegacyCallers
    /\ call' = [call EXCEPT ![k] =
                 IF Validated(entry, rec.evidence, a, plan, sources)
                 THEN Snapshot(entry, rec.evidence, a) ELSE Refused]
    /\ accepted' = accepted \cup {plan.challenge}
    /\ UNCHANGED <<now, policy, robot, plans, records, epoch>>

\* The part of a call that only reads: snapshot, validate, and either refuse
\* or go on to claim the challenge of the presented plan.
Submit(k, entry, a, plan, rec, sources) ==
    /\ call[k] = Idle
    /\ entry = "legacy" => LegacyCallers
    /\ call' = [call EXCEPT ![k] =
                 IF Validated(entry, rec.evidence, a, plan, sources)
                 THEN Snapshot(entry, rec.evidence, a) ELSE Refused]
    /\ UNCHANGED <<now, policy, robot, plans, records, accepted, epoch>>

\* Inputs that are not even well formed: a DENIED profile before anything else happens.
Refuse(k) ==
    /\ call[k] = Idle
    /\ call' = [call EXCEPT ![k] = Refused]
    /\ UNCHANGED <<now, policy, robot, plans, records, accepted, epoch>>

\* Mutant: the registry is added to and never looked at.
ClaimableAlways(challenge) == TRUE

\* ReplayRegistry.claim returns True.
Claimable(challenge) == challenge \notin accepted

ChallengeOf(k) == call[k].evidence.plan.challenge

\* Claim the challenge, and answer with the verdict over the snapshot.
Claim(k) ==
    LET s == call[k] IN
    /\ s.stage = "claiming"
    /\ accepted' = accepted \cup {ChallengeOf(k)}
    /\ call' = [call EXCEPT ![k] =
                 IF Claimable(ChallengeOf(k))
                 THEN [s EXCEPT !.stage = "returned", !.epoch = epoch,
                       !.profile = Verdict(s.policy, s.evidence.plan, s.evidence)]
                 ELSE Refused]
    /\ UNCHANGED <<now, policy, robot, plans, records, epoch>>

-----------------------------------------------------------------------------
Planning(a) ==
    \E c \in Challenges :
        \/ \E sources \in SUBSET SourceRecords : DeriveRequalificationPlan(a, c, sources)
        \/ \E k \in Calls : DerivePlan(a, c, k)
        \/ \E x \in ExternalPlans : ReceivePlan(a, c, x)

Submitting(a) ==
    \E k \in Calls, entry \in Entry, plan \in plans, rec \in records :
        \E sources \in SUBSET SourceRecords : Submit(k, entry, a, plan, rec, sources)

Next ==
    \/ Tick
    \/ RegistryRestart
    \/ \E p \in Policies : PublishPolicy(p)
    \/ \E a \in Actors :
          \/ \E s \in RobotStates : RobotChanges(a, s)
          \/ Planning(a)
          \/ \E plan \in plans, level \in RunnerLevels : RunTests(a, plan, level)
          \/ Submitting(a)
    \/ \E k \in Calls : Refuse(k) \/ Claim(k)

\* A call the service has started runs to its end.
Spec == Init /\ [][Next]_vars /\ \A k \in Calls : WF_vars(Claim(k))
-----------------------------------------------------------------------------
(* Properties. *)

TypeOK ==
    /\ now \in Nat /\ epoch \in Nat
    /\ policy \in Policies
    /\ robot \in [Actors -> RobotStates]
    /\ plans \subseteq Plan
    /\ records \subseteq Record
    /\ accepted \subseteq Challenges
    /\ call \in [Calls -> CallState \cup {Idle, Refused}]

Answered(k)     == call[k].stage = "returned"
Granted(k)      == Answered(k) /\ call[k].profile.status \in {"ADMITTED", "DEGRADED"}
Enforced(k)     == Granted(k) /\ call[k].entry = "evidence_backed"

\* rec directly proves r for the admission s: same actor and runtime state,
\* run within the last Validity, at the assurance the plan asks for, passed,
\* and against the admitted requirement or, at the same place, one whose bound
\* entails it.
Backs(rec, s, r) ==
    LET e == rec.evidence IN
    /\ <<e.actor, e.build, e.controller, e.embodiment, e.env>>
         = <<s.actor, s.robot.build, s.robot.controller, s.robot.embodiment, s.robot.env>>
    /\ e.issued <= s.at /\ s.at < e.issued + Validity
    /\ e.level >= 2 /\ e.level >= s.evidence.plan.level
    /\ [id |-> r.id, passed |-> TRUE] \in e.results
    /\ e.plan.policy.place = s.policy.place
    /\ \E source \in e.plan.policy.reqs :
          \/ source = r
          \/ source.id = r.id /\ source.scope = r.scope /\ Entails(source, r)

\* Whatever was planned, by whom, and however often a proof was carried from
\* space to space, every guarantee of an evidence-backed profile rests on an
\* original, direct, passing, unexpired test of this robot as it was at
\* admission: reuse never promotes a proof, tightens a bound or stretches an
\* expiry (boundary.py:76-84, sufficiency.py:144-180).
GuaranteesProven ==
    \A k \in Calls : Enforced(k) =>
        \A r \in call[k].profile.guarantees :
            \E rec \in records : Backs(rec, call[k], r)

\* The robot that was admitted really had, when it was admitted, the
\* capability each guarantee promises: the end-to-end meaning of admission.
\* It needs the deployment assumptions stated below.
GuaranteesHold ==
    \A k \in Calls : Enforced(k) =>
        LET robotThen == call[k].robot IN
        \A r \in call[k].profile.guarantees :
            Satisfies(r, robotThen.caps, MeasuredBy(r, robotThen.embodiment))

\* An evidence-backed profile accounts for every requirement of its policy: a
\* guarantee, or a non-essential one traded for its own restriction; essential
\* requirements and human separation are never traded (boundary.py:71-92).
NothingOmitted ==
    \A k \in Calls : Enforced(k) =>
        LET profile == call[k].profile IN
        \A r \in call[k].policy.reqs :
            \/ r \in profile.guarantees
            \/ /\ profile.status = "DEGRADED"
               /\ ~r.essential /\ r.id # HumanSeparation
               /\ r.restriction \in profile.restrictions \ {NoRestriction}

\* Requalified now with these records and tested in this mode, the robot is
\* granted exactly what it can show, unless it cannot show something that is
\* never traded.
GrantsWhatIsShown(a, c, level, sources) ==
    LET plan == RequalificationPlan(a, c, sources)
        e    == Bundle(a, plan, level)
        here == robot[a]
        lacking == {r \in policy.reqs :
            /\ r.id \in plan.unresolved
            /\ ~(/\ Mapped(r, here.embodiment)
                 /\ Satisfies(r, here.caps, MeasuredBy(r, here.embodiment)))}
    IN  /\ ~policy.opaque /\ Unique(policy.reqs) /\ policy.env = here.env
        /\ \A r \in lacking : ~r.essential /\ Degradable(r)
        => /\ Validated("evidence_backed", e, a, plan, sources)
           /\ Verdict(policy, plan, e) =
                [status |-> IF lacking = {} THEN "ADMITTED" ELSE "DEGRADED",
                 guarantees |-> policy.reqs \ lacking,
                 restrictions |-> {r.restriction : r \in lacking},
                 unresolved |-> IdsOf(lacking)]

\* Planner, runner and admission agree on what is enough: whatever records a
\* robot is requalified with, it is granted what it can show.  In particular
\* nothing the planner reuses or leaves out is missing at admission
\* (sufficiency.py:183-205, engine.py:102-130, boundary.py:50-92).
ShownIsGranted ==
    \A a \in Actors, c \in Challenges, level \in RunnerLevels \cap 2 .. 4 :
        \A sources \in SUBSET SourceRecords : GrantsWhatIsShown(a, c, level, sources)

\* What documents and comments of the repository say, and the code does not do.

\* spec/evidence-based-admission.md:49: "Essential safety failures, including
\* human separation, fail closed to DENIED" -- by either entry point.
EssentialFailsClosed ==
    \A k \in Calls : Granted(k) =>
        \A r \in call[k].policy.reqs :
            r.essential => r \in call[k].profile.guarantees

\* Within one registry lifetime two answered calls never share a challenge,
\* whichever entry points they used (engine.py:23-27, 218).
SingleUse ==
    \A k, l \in Calls :
        k # l /\ Answered(k) /\ Answered(l) /\ call[k].epoch = call[l].epoch
            => ChallengeOf(k) # ChallengeOf(l)

\* A claimed challenge always has an answered call to show for it: calls that
\* fail validation leave the nonce of the robot untouched (boundary.py:93).
NonceKept ==
    \A c \in accepted : \E k \in Calls :
        Answered(k) /\ ChallengeOf(k) = c /\ call[k].epoch = epoch

\* A call that validated and is done was answered, or lost to a call of this
\* registry lifetime that was answered for the same challenge: nothing else can
\* turn it away, however calls, restarts and changes interleave
\* (boundary.py:93, engine.py:23-27, 218).
LosersHaveWinner ==
    [][\A k \in Calls :
          call[k].stage = "claiming" /\ call'[k] # call[k] =>
              \E l \in Calls : /\ Answered(l)' /\ ChallengeOf(l)' = ChallengeOf(k)
                               /\ call'[l].epoch = epoch]_vars

\* Calls that race to claim one challenge do not all lose: some call is, or
\* gets, answered for it.
RaceHasWinner ==
    \A c \in Challenges :
        (\E k \in Calls : call[k].stage = "claiming" /\ ChallengeOf(k) = c)
            ~> (\E k \in Calls : Answered(k) /\ ChallengeOf(k) = c)

-----------------------------------------------------------------------------
(* Evidence-backed admission implements the AdmissionContract. *)

SubjectOf(e) == <<e.actor, e.build, e.controller, e.embodiment, e.env>>

\* A bundle proves the bounds of the policy it is bound to that it passed.
ProofsOf(e) ==
    {[subject |-> SubjectOf(e), place |-> e.plan.policy.place, bound |-> r,
      at |-> e.issued] :
        r \in {q \in e.plan.policy.reqs :
                 e.level >= 2 /\ [id |-> q.id, passed |-> TRUE] \in e.results}}

GrantOf(s) ==
    [subject |-> <<s.actor, s.robot.build, s.robot.controller,
                   s.robot.embodiment, s.robot.env>>,
     place |-> s.policy.place, bounds |-> s.profile.guarantees,
     asOf |-> s.at, token |-> s.evidence.plan.challenge]

BoundEntails(b, c) ==
    b = c \/ (b.id = c.id /\ b.scope = c.scope /\ Entails(b, c))

Abstract == INSTANCE AdmissionContract WITH
    Tokens   <- Challenges,
    Lifetime <- Validity,
    Entailed <- BoundEntails,
    clock    <- now,
    proofs   <- UNION {ProofsOf(rec.evidence) : rec \in records},
    grants   <- {GrantOf(call[k]) : k \in {l \in Calls : Enforced(l)}},
    spent    <- accepted

\* Every behaviour of the service is one of the contract: plans, bundles,
\* source records, policy changes and racing calls are all it takes.
ImplementsContract == Abstract!Contract

-----------------------------------------------------------------------------
(* Deployment assumptions of GuaranteesHold; the code cannot check them. *)

\* Two policies with one version number have the same requirements with the
\* same ids.  execute_plan tests the bounds of the set it is given and checks
\* nothing: only the version reaches the bundle.
VersionsIdentify ==
    \A p, q \in Policies : p.version = q.version =>
        \A r \in p.reqs, s \in q.reqs : r.id = s.id => r = s

\* The fingerprints determine what a robot can do.
FingerprintsDetermine ==
    \A s, t \in RobotStates :
        <<s.build, s.controller, s.embodiment, s.env>>
            = <<t.build, t.controller, t.embodiment, t.env>> => s.caps = t.caps

\* One vocabulary version of each requirement is in use: assess_sufficiency
\* compares place, action, unit and bound, but not requirement_version.
OneVersion ==
    \A p, q \in Policies : \A r \in p.reqs, s \in q.reqs :
        r.id = s.id => r.version = s.version
=============================================================================
