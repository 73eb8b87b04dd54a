--------------------------- MODULE AdmissionRules ---------------------------
(***************************************************************************)
(* The pure part of evidence-based admission: what a requirement asks of a *)
(* robot, when one proven bound proves another, when a source record may   *)
(* be relied on, and the verdict over fresh results.  Translated from      *)
(* engine.py, sufficiency.py and boundary.py of spp_admission.             *)
(*                                                                         *)
(* SHA-256 digests of canonical JSON are taken to be injective, so an      *)
(* object stands for its digest: a plan names its policy, a bundle names   *)
(* its plan.  Lists of requirements, tests and results are sets of records *)
(* that carry their id.  Values are integers; booleans are 0 and 1.        *)
(***************************************************************************)
EXTENDS Integers

CONSTANTS
    Ids,              \* requirement identifiers
    HumanSeparation,  \* the identifier engine.py:231 never degrades
    Versions,         \* vocabulary versions of a requirement
    Scopes,           \* <<action, unit>> of a requirement
    Restrictions,     \* degraded_restriction strings
    NoRestriction,    \* degraded_restriction absent
    Capabilities,     \* keys of RobotState.capabilities
    Places, Spaces, Environments, Builds, Controllers, Embodiments,
    Policies,         \* the place requirement sets the deployment may publish
    RobotStates,      \* the runtime states an actor may report
    Mapping           \* <<embodiment, id, version>> -> capability its test measures

Operators == {"<=", ">=", "=", "prohibited"}
Levels    == 0 .. 4                                          \* "E0" .. "E4"

Requirement ==
    [id: Ids, version: Versions, scope: Scopes, op: Operators, value: Int,
     essential: BOOLEAN, restriction: Restrictions \cup {NoRestriction}]

Policy ==
    [place: Places, space: Spaces, version: Nat, env: Environments,
     opaque: BOOLEAN,   \* policy_digest supplied by hand, not derived
     reqs: SUBSET Requirement]

Test   == [id: Ids, capability: Capabilities, expected: Operators \X Int]
Result == [id: Ids, passed: BOOLEAN]

ASSUME RulesAssumption ==
    /\ NoRestriction \notin Restrictions
    /\ Ids \subseteq Capabilities
    /\ Policies \subseteq Policy
    /\ \A s \in RobotStates :
          /\ s.build \in Builds /\ s.controller \in Controllers
          /\ s.embodiment \in Embodiments /\ s.env \in Environments
          /\ DOMAIN s.caps \subseteq Capabilities
          /\ \A c \in DOMAIN s.caps : s.caps[c] \in Int
    /\ DOMAIN Mapping \subseteq Embodiments \X Ids \X Versions
    /\ \A m \in DOMAIN Mapping : Mapping[m] \in Capabilities

-----------------------------------------------------------------------------
(* Requirement arithmetic. *)

\* engine._satisfies: a capability nobody reports satisfies nothing.
Satisfies(r, caps, capability) ==
    /\ capability \in DOMAIN caps
    /\ \/ r.op = "<=" /\ caps[capability] <= r.value
       \/ r.op = ">=" /\ caps[capability] >= r.value
       \/ r.op = "="  /\ caps[capability] = r.value
       \/ r.op = "prohibited" /\ caps[capability] = 0

\* sufficiency._entails: a passing bound proves that bound and no tighter one.
Entails(source, target) ==
    /\ source.op = target.op
    /\ \/ source.op = "<=" /\ source.value <= target.value
       \/ source.op = ">=" /\ source.value >= target.value
       \/ source.op = "="  /\ source.value = target.value
       \/ source.op = "prohibited" /\ source.value = 1 /\ target.value = 1

\* RequirementMappingRegistry.select finds a provider, and the test it builds.
Mapped(r, embodiment)  == <<embodiment, r.id, r.version>> \in DOMAIN Mapping
MeasuredBy(r, embodiment) == Mapping[<<embodiment, r.id, r.version>>]
TestFor(r, embodiment) ==
    [id |-> r.id, capability |-> MeasuredBy(r, embodiment),
     expected |-> <<r.op, r.value>>]

IdsOf(S)  == {x.id : x \in S}
Unique(S) == \A x, y \in S : x.id = y.id => x = y

-----------------------------------------------------------------------------
(* Evidence records and their reuse. *)

\* The checks of sufficiency._record_error, in its order.  Policy, plan and
\* bundle e are the ones the digests in each other name.
Consistent(policy, plan, e) ==
    /\ ~policy.opaque
    /\ plan.policy = policy
    /\ e.plan = plan
    /\ e.version = policy.version

\* Mutant: the controller configuration is not compared.
BoundToAnyController(e, actor, robot) ==
    <<e.actor, e.build, e.embodiment, e.env>>
        = <<actor, robot.build, robot.embodiment, robot.env>>

\* Mutant: any actor in that state.
BoundToAnyActor(e, actor, robot) ==
    <<e.build, e.controller, e.embodiment, e.env>>
        = <<robot.build, robot.controller, robot.embodiment, robot.env>>

\* The bundle describes this actor in its current state.
BoundTo(e, actor, robot) ==
    <<e.actor, e.build, e.controller, e.embodiment, e.env>>
        = <<actor, robot.build, robot.controller, robot.embodiment, robot.env>>

\* Mutant: off by one at the expiry.
InForceAtExpiry(e, t) == e.issued <= t /\ e.issued < e.until /\ t <= e.until

\* The clock is inside the bundle's validity window.
InForce(e, t) == e.issued <= t /\ e.issued < e.until /\ t < e.until

\* Mutant: only the source plan's own level is asked for.
AssuredForSource(e, plan, floor) == e.level >= 2 /\ e.level >= plan.level

Assured(e, plan, floor) == e.level >= 2 /\ e.level >= plan.level /\ e.level >= floor

\* One result per test, and the tests are those today's mapping selects.
Executed(policy, plan, e, embodiment) ==
    /\ Unique(policy.reqs) /\ Unique(plan.tests) /\ Unique(e.results)
    /\ IdsOf(e.results) = IdsOf(plan.tests)
    /\ \A test \in plan.tests : \E r \in policy.reqs :
          Mapped(r, embodiment) /\ test = TestFor(r, embodiment)

RecordOK(policy, plan, e, actor, robot, t, floor) ==
    /\ Consistent(policy, plan, e)
    /\ BoundTo(e, actor, robot) /\ policy.env = robot.env
    /\ InForce(e, t)
    /\ Assured(e, plan, floor)
    /\ Executed(policy, plan, e, robot.embodiment)

\* Mutant: a bundle that only reused a guarantee passes for a proof of it.
ProvesWhatItReused(rec, target, place) ==
    /\ rec.policy.place = place
    /\ \E source \in rec.policy.reqs :
          /\ source.id = target.id
          /\ source.scope = target.scope
          /\ \/ [id |-> target.id, passed |-> TRUE] \in rec.evidence.results
             \/ target.id \in rec.plan.reused
          /\ Entails(source, target)

\* The record directly tested the target's id, passed, and its bound proves
\* the target's.
Proves(rec, target, place) ==
    /\ rec.policy.place = place
    /\ \E source \in rec.policy.reqs :
          /\ source.id = target.id
          /\ source.scope = target.scope
          /\ [id |-> target.id, passed |-> TRUE] \in rec.evidence.results
          /\ Entails(source, target)

\* assess_sufficiency's verdict for one destination requirement.  The order
\* of the records only selects the reason code and the evidence_id reported.
Sufficient(target, dest, actor, robot, sources, t, floor) ==
    /\ Mapped(target, robot.embodiment)
    /\ dest.env = robot.env
    /\ \E rec \in sources :
          /\ RecordOK(rec.policy, rec.plan, rec.evidence, actor, robot, t, floor)
          /\ Proves(rec, target, dest.place)

SufficientIds(dest, actor, robot, sources, t, floor) ==
    IdsOf({r \in dest.reqs : Sufficient(r, dest, actor, robot, sources, t, floor)})

\* Mutant: what is reused is tested as well.
TestsForAll(policy, ids, embodiment) ==
    {TestFor(r, embodiment) : r \in {q \in policy.reqs : Mapped(q, embodiment)}}

\* The tests a planner selects for ids: unmapped ones get none.
TestsFor(policy, ids, embodiment) ==
    {TestFor(r, embodiment) :
        r \in {q \in policy.reqs : q.id \in ids /\ Mapped(q, embodiment)}}

-----------------------------------------------------------------------------
(* Admission. *)

\* Mutant: a requirement may be neither reused nor unresolved.
CoverageWithGaps(policy, plan) ==
    /\ plan.reused \cap plan.unresolved = {}
    /\ plan.reused \cup plan.unresolved \subseteq IdsOf(policy.reqs)
    /\ IdsOf(plan.tests) \subseteq plan.unresolved

\* boundary.admit_evidence_backed: reused and unresolved partition the
\* requirements and only unresolved ids are tested.
CoverageOK(policy, plan) ==
    /\ plan.reused \cap plan.unresolved = {}
    /\ plan.reused \cup plan.unresolved = IdsOf(policy.reqs)
    /\ IdsOf(plan.tests) \subseteq plan.unresolved

\* Ids that failed their fresh test, or had none although unresolved.
Lacking(plan, e) ==
    IdsOf({r \in e.results : ~r.passed}) \cup (plan.unresolved \ IdsOf(e.results))

EvidenceBackedOK(policy, plan, e, actor, robot, sources, t) ==
    /\ RecordOK(policy, plan, e, actor, robot, t, 2)
    /\ CoverageOK(policy, plan)
    /\ plan.reused \subseteq
         SufficientIds(policy, actor, robot, sources, t, plan.level)
    /\ \A r \in policy.reqs : r.id \in Lacking(plan, e) => ~r.essential

\* The checks engine.admit makes before it claims the challenge.
AdmitOK(policy, plan, e, actor, robot, t) ==
    /\ t < e.until
    /\ <<e.actor, e.build, e.controller, e.env>>
         = <<actor, robot.build, robot.controller, robot.env>>
    /\ e.plan = plan
    /\ e.version = policy.version

\* Mutant: human separation may be traded like any other requirement.
DegradableAlways(r) == r.restriction # NoRestriction

Degradable(r) == r.restriction # NoRestriction /\ r.id # HumanSeparation

\* The verdict of engine.admit once the challenge is claimed.  `essential` is
\* not consulted here: a restriction alone makes a requirement degradable.
Verdict(policy, plan, e) ==
    LET lacking == {r \in policy.reqs : r.id \in Lacking(plan, e)}
    IN  [status |-> IF \E r \in lacking : ~Degradable(r) THEN "DENIED"
                    ELSE IF lacking # {} THEN "DEGRADED" ELSE "ADMITTED",
         guarantees   |-> policy.reqs \ lacking,
         restrictions |-> {r.restriction : r \in {q \in lacking : Degradable(q)}},
         unresolved   |-> Lacking(plan, e)]

NoVerdict == [status |-> "DENIED", guarantees |-> {}, restrictions |-> {},
              unresolved |-> {}]
=============================================================================
