# A TLA+ model of the Spatial Policy Protocol reference implementation

The Spatial Policy Protocol (SPP) lets a *place* (a hospital, a clinic) say
under which conditions a robot may act in its *spaces*. The repository holds
two reference layers. The **core profile** answers single requests from a
hierarchical policy (`reference/policy-server`). The **admission layer**
(`reference/admission`) decides whether a robot may enter a space at all, from
test evidence bound to its exact build, controller, embodiment and environment,
and lets a robot that moves from space to space reuse evidence it already has.
Enforcement gates (door, Open-RMF task, Nav2 speed limit) consume the resulting
`AdmissionProfile`.

All of it is synchronous, in-process Python. What makes it hard is not threads
inside the package. It is that everything a decision rests on (the robot, the
policy in force, the clock, a registry, an earlier profile) is owned by someone
else and moves between the calls.

## Inventory

Paths are under `reference/admission/src/spp_admission/` unless they say otherwise.

| Component | State | Operations | Hard part |
|---|---|---|---|
| Evidence-backed admission: `engine.py`, `sufficiency.py`, `boundary.py`, `models.py` | `ReplayRegistry._accepted`, in memory | `derive_plan`, `derive_requalification_plan`, `execute_plan`, `build_evidence`, `admit`, `admit_evidence_backed`, `claim`, `clear` | plan, test and admission are separate calls; evidence is reused over several hops; racing calls share a registry |
| Verified admission: `trust.py`, `boundary.py:100-197` | issuer and authority registries | `add`, `sign_*`, `verify_signed_*`, `admit_verified_*`, `derive_verified_plan` | carriers alter what they carry; an anchor is disabled, re-keyed or re-scoped between planning, signing, admission and reassessment |
| Profile lifecycle: `lifecycle.py`, `engine.compute_requirement_delta` | revocation registry, in memory; the mutable profile | `revoke`, `assess_profile_lifecycle` | a profile outlives the state it was issued for |
| Gates: `facility_access.py`, `open_rmf.py` | accepted restrictions (configuration) | `authorize`, `consider` | an assessment or profile is stale, or another profile's, when it is presented |
| Nav2 enforcement: `reference/ros2-enforcer/spp_enforcer/` | the controller's limit, outside the code | `map_profile`, `Nav2Enforcer.apply` | no publication means the old limit stays; 0 means no limit |
| Policy evaluation: `reference/policy-server/src/spp/`, `policy/spp.rego` | policy loaded at start | `evaluate`, `/v1/decision`, the OPA path | override order, agreement of two evaluators |
| Vocabulary and mapping: `vocabulary.py`, `mapping.py` | registries | `register`, `resolve`, `validate`, `select` | a second version makes version-less requirements ambiguous; every site has a vocabulary of its own |
| Providers: `providers.py` | registry | `register`, `select`, `evaluate`, `validate_result` | registries grow while the selected provider runs |
| Place packages: `place_package.py` | the signed files | `create_place_package`, `verify_place_package` | a file read at another site, later, must still mean what its author meant |
| Decision trace: `explain.py` | none | rendering | none |
| Sandbox service: `sandbox/app` | none | fixed scenarios | restriction acknowledgement |

Components call each other by value: plans, bundles and profiles are plain
objects tied together by SHA-256 digests. The shared mutable objects are the
registries, and, through the caller, the robot's runtime state and the policy.

The list of hazards, each with its line and with the properties that would
catch it, is in `PROJECT.json`.

## Modules

| Module | Models |
|---|---|
| `AdmissionRules` | the pure part of admission: requirement arithmetic, record validation, sufficiency, coverage, verdict |
| `EvidenceAdmission` | admission as a running service |
| `AdmissionContract` | what that service promises, without plans or bundles |
| `AdmissionContract_proofs` | that the service implements it |
| `MCEvidenceAdmission` | small instances of it |
| `EvidenceAdmission_proofs` | theorems about it |
| `ProfileLifecycle` | extends `EvidenceAdmission` with what happens to the profiles it answered: reassessment, revocation, doors and fleet tasks |
| `MCProfileLifecycle` | small instances of it |
| `ProfileLifecycle_proofs` | theorems about it |
| `VerifiedAdmission` | extends `ProfileLifecycle` with signatures: validators, authorities, trust registries that change, the verified entry points, reassessment with signatures |
| `MCVerifiedAdmission` | a small instance of it |
| `VerifiedAdmission_proofs` | theorems about it, among them that it implements `ProfileLifecycle` |
| `RequirementRegistries` | vocabularies of several sites, provider and mechanism registries, evaluations by external providers |
| `MCRequirementRegistries` | constants of a small instance of it |
| `PlacePackages` | extends `RequirementRegistries` with signed place packages between the sites |
| `MCPlacePackages` | a small instance of both |
| `PlacePackages_proofs` | theorems about both |
| `Nav2Enforcement` | the Nav2 adapter: from profiles to speed limits, over a topic, to a controller server that restarts |
| `MCNav2Enforcement` | a small instance of it |
| `Nav2Enforcement_proofs` | theorems about it |
| `PolicyEvaluation` | the policy server: validation at start, the climb to the root, the local and the OPA evaluator |
| `MCPolicyEvaluation` | small instances of it |
| `PolicyEvaluation_proofs` | theorems about it |
| `OrderLemmas` | a fact about natural numbers the proofs share |

### Correspondence

*Data.* Digests are taken to be injective, so an object stands for its digest:
a plan contains the policy it names, a bundle the plan it names. Requirement,
test and result lists are sets of records that carry their id; where the code
looks for duplicates, so does the model (`Unique`). Requirement values are
integers and booleans are 0 and 1. JSON-schema validation is the typing of
these records. The profile of a guarantee carries the requirement itself.

*State.* `accepted` is `ReplayRegistry._accepted`, `epoch` counts its
lifetimes. `robot` and `policy` are what the trusted callers would pass at the
moment, `plans` and `records` what has been handed out so far, `now` the clock
the functions are called with. `call[k]` is one call of `admit` or
`admit_evidence_backed`, split where the code's own comments split it: `Submit`
takes the private snapshot and validates it (`boundary.py:50-92`,
`engine.py:192-216`), `Claim` claims the challenge and answers
(`engine.py:217-245`). Between the two anything may happen.

*Environment.* Time passes, robots change in any way, the place publishes
another set, planners outside the package hand in any coverage they like
(`ReceivePlan`), the admission process restarts. The test runner is trusted, as
`sufficiency.py:3-4` says it must be: `RunTests` tests the robot as it is, with
one `RobotState` for `execute_plan` and `build_evidence`, which is how every
caller in the repository uses them. It does not assume that the policy in force
when the tests run is the one the plan was made for, because `execute_plan`
does not check it.

*After admission.* `ProfileLifecycle` runs on top of the service: an issued
profile is named by the call that answered with it, and the service goes on
under it. `Assess` is `assess_profile_lifecycle` (lifecycle.py:102-168) as a
function of the profile, the actor and bundle presented, and the state of the
moment; `Classify` and `Impacted` are `compute_requirement_delta`. `ProfileOf`
is the content that `profile_identifier` hashes, so that two calls with the
same content are one profile to the revocation registry `revoked`. `Enter` is
`ReferenceDoorController.authorize` with an assessment of that moment or with
none, as `lifecycle` is optional; any actor may present any profile, since the
door is not told who does. `Consider` is the Open-RMF callback; it may be given
any profile ever issued, because the mapper cannot tell its age. `inside` and
`task` record what the gates decided. `ProcessRestart` loses both registries.

*Signatures.* `VerifiedAdmission` lets the service of `ProfileLifecycle` go on as
it is; only its `RunTests` becomes `Attest`, where the validator signs the bundle
for the place and space of the requirements it had (as sandbox_app.py:190-206
does), and keeps the wrapper. A signature is the key that made it together with the
payload of `_signature_payload`, so it can be copied but not made without the
key. `Verifies` and `VerifiesPolicy` are the checks of `trust.py` in full; an id that is
not registered is `Unknown`, and the patterns of an anchor are the set of scopes
they match. `Doctored` and `DoctoredNotices` are what a carrier can make of one
wrapper or notice: exchanged policy, plan, evidence, issuer or scope, results
turned to passed with or without a matching digest, or the whole signed with a
foreign key. `Deliveries` hands a verified entry point a current wrapper and any
source wrappers, one of them doctored; `EvidenceVerified` checks each source for
the requirements that came with it (boundary.py:128-133). `basis[k]` remembers
the registries a call was verified against, for the properties only.
`AssessSigned` is `assess_profile_lifecycle` given a wrapper and, if any, a notice.

*Vocabularies, providers, packages.* Each site has its own `vocabulary`; the
registries of providers and mechanisms are the operator's. `Resolve` and
`Validate` are `vocabulary.py`, `Select` the two `select` functions, whose steps
only tell their reasons apart. An evaluation is split where the code leaves it:
`Begin` selects and calls the provider, `Return` validates whatever the provider
answers against the vocabulary of that later moment (providers.py:160-212).
`Create` writes versions and units into every requirement
(`_canonical_requirement_set`) and seals it; `Accept` is `verify_place_package`
at a site; `Doctored` is what carriers make of a package. `CreateLegacy` is a
signed file of an earlier tool, without versions: `verify` accepts those too.
Python's `==` holds between 1, 1.0 and TRUE; no requirement set of the model has
two items that differ in that alone (`PackagesAssumption`).

*Nav2.* Speeds are naturals of some unit; a negative bound stands for every
value `add_bound` refuses, `foreign` for a restriction of another form.
`MapProfile` is `map_profile`, `Apply` is `Nav2Enforcer.apply` with its three
outcomes. What the publisher sees (`matched`, `get_subscription_count() > 0`)
and what is so (`linked`: the controller that runs now is counted) are two
variables, joined again by `Discover`. `inbox` is the KEEP_LAST queue and
`limit` what the controller imposes; `held` says that the controller `apply`
last published to still runs. Nav2's side is external. Like `apply`, the model
moves no robot: the caller is to navigate only while the plan allows it.

*Policy server.* `LoadPolicy`, `CheckSpace` and `WalkUp` are `validate_policy`
and `Climb` is `policy_chain`, one iteration each, so that ending is a property
and not an assumption; a parent that no space declares, met before its own
check, is the KeyError the code raises. `Evaluate` is the nested search of
`evaluate`, `OPACore` the sort of `spp.rego`. A rule's index stands for the
obligations, reason and lifetime a decision copies from it; an absent selector
is the empty set. `Alike` holds the pairs of values Python calls equal and JSON
does not. Unknown spaces and blank reasons end in 422, failures of OPA in 502.

*Planning.* `RequalificationPlan` is what `derive_requalification_plan` computes, and
`DeriveRequalificationPlan` the call of it; `PlanFor` is the plan object both planners
build. `GrantsWhatIsShown` runs plan, tests and admission on the state at hand;
`ShownIsGranted` and, for signed records, `HonestIsGranted` are about it.

*Fairness.* `WF(Claim(k))` in admission: a synchronous call that has started
returns; nobody is obliged to plan, test, submit or publish. Lifecycle and
verified admission take it over; place packages need none, as their properties are
about what was done, not about what must be. `WF(Deliver)` in
Nav2: a running controller spins its queue; the host owes nothing. In the policy
server weak fairness of its own steps: started code goes on, and the call to OPA
has a timeout (server.py:66); nobody is obliged to send a request.

## Runs

CHECK_DEADLOCK is off for admission, lifecycle and verified admission, where the
service stops for good when the bounds on plans, records, calls and time are used
up, and in reality whenever nobody calls it; for place packages, where it stops
when all there is to register, sign and accept has been; and for the policy
server, which stops when it refuses its policy. It is on for Nav2.

| Run | Shows | Distinct states |
|---|---|---|
| `LifecycleTransit` | `TypeOK`, `GuaranteesProven`, `GuaranteesHold`: an admitted robot was tested for, and at admission can do, what each guarantee says, although policy, controller, build or site change at any step and it moves between two spaces; `ValidIsProven`: what VALID means after they moved on under the profile | 1.0M |
| `AdmissionPlanner` | `NothingOmitted`, `GuaranteesProven`: every claim of coverage, and of reuse at a higher assurance level, over essential, degradable and human-separation requirements | 0.8M |
| `AdmissionRace` | `SingleUse`, `NonceKept`, `LosersHaveWinner`, `RaceHasWinner` and the refinement `ImplementsContract`: two calls, two entry points, two challenges, a registry that restarts, a robot that changes between the two steps of a call. `ShownIsGranted`, in each of these states: whatever records a requalification were made from, its plan passes and grants what the robot can show | 121k |
| `LifecycleGates` | `LifecycleTypeOK`, `GuaranteesProven`, `CoveredAtGates`, `AssessedEntryProven`: two robots, one of them recording, DEGRADED profiles, a door and a fleet that accept one restriction each, revocations and restarts; no proof serves the other robot, and a reassessed profile opens the door only to a robot proven for what is in force at that step | 0.8M |
| `VerifiedTrust` | `VerifiedTypeOK`, `VouchedFor`, `PolicyAuthorized`, `ValidIsTrusted`: two validators and two authorities of different scope, anchors disabled, replaced and enabled again, doctored wrappers and notices, reuse across spaces. `HonestIsGranted`, in each of these states: sources from any space and notices of the policy in force verify while their signers are trusted for their own spaces, and the robot is granted what it can show | 90k |
| `PlacePackages` | `RegistriesTypeOK`, `AcceptedAsSigned`, `PackagesStayReadable`, `MeaningTravels`, `AcceptedResultFits`, `MeasuredAsWritten`, `SelectionImproves`: an author and an operator whose vocabularies grow apart, packages altered on their way, providers that answer wrongly or late | 275k |
| `Nav2Limits` | `Nav2TypeOK`, `SettledWithinBounds`, `NeverLifted`, `LimitApproaches`, `LimitsSettle`: a limit that has arrived is within every bound of the profile `apply` said yes to, no message lifts it, every delivery brings it nearer, and it does arrive | 2k |
| `PolicyServer` | `PolicyTypeOK`, `ServesTree`, `FollowsAlgorithm`, `EnginesAgree`, `StepsRunOut`, `AlwaysAnswers`: any file is refused or served as one tree, either engine follows section 4 of the specification, no loop takes a step that does not bring its end nearer, every request is answered | 22k |
| `FindLegacyEssential`, `FindExpiredSource`, `FindOtherUnit`, `FindTrueIsOne` | disagreements between code and documents, below | |

Each run asks one question of one composition, on the most composed module that
has it: the lifecycle runs include everything the admission service does, so the
admission properties about moving robots and reuse are checked there.

Bounds. Two spaces, a strict and a lax one, make reuse succeed one way and fail
the other. Bundles live one or two ticks and time runs as long or longer, so
proofs expire while in use, except in `AdmissionPlanner` and `VerifiedTrust`, where
time stands still because coverage and trust do not depend on it. Two plans and
records are one hop: a proof, and a bundle that reuses it. That further hops add
nothing is not a matter of bounds: `GuaranteesAreProven` is proved for any number
of them. Two calls and two challenges are what a race and a replay need.
`VerifiedTrust` has a validator for the whole clinic, one for the ward only, an
authority that signs for a space it has no say in, and one that is not known at
first. `PlacePackages` has an extension requirement that either site may define
in metres or in feet and later a second time without a unit, two authorities, and
results that are right or wrong in one respect each; two packages make exchanged
parts possible, and one acceptance and one evaluation are enough, since neither
looks at another. `Nav2Limits` has a profile for each way to bound or refuse a
speed, two of them for one limit, and a queue of three, less than the host may publish before the controller
takes a message. `PolicyServer` has every parent relation over three spaces, cyclic
and dangling ones included, with any two of five rule lists, so that every tie
the algorithm breaks occurs. Every property is broken by a plausible bug under its
own run (`mutants` in `PROJECT.json`): the bounds are large enough to see it.

`GuaranteesHold` needs three things the code cannot check, stated as operators
at the end of `EvidenceAdmission`: policy versions identify requirements with
the same ids, fingerprints determine capabilities, and one vocabulary version
of a requirement is in use. The last matters because reuse compares bounds, units
and actions but not `requirement_version` (sufficiency.py, a hazard in
`PROJECT.json`). `GuaranteesProven` needs none of them.

`MeaningTravels` and `MeasuredAsWritten` leave a gap on purpose: where one site's
definition has no unit, the other's unit is not compared with anything
(vocabulary.py:96-99), which is why both allow `NoUnit`.

## Findings

* `FindLegacyEssential`: `admit` (engine.py:231) lets any requirement with a
  `degraded_restriction` be degraded, essential or not, except the literal id
  `human_separation`; the specification says essential failures are DENIED. The
  evidence-backed entry point is not affected (boundary.py:88-92).
* `FindExpiredSource`: a profile whose guarantee rests on a reused record stays
  VALID after that record expired: lifecycle.py:140 looks at the expiry of the
  profile's own bundle only. A requalification therefore stretches a proof for
  every host that reassesses, although admission itself never does
  (`GuaranteesProven`).
* `FindOtherUnit`: the requirement delta compares operator and value, not unit
  or action, so a profile stays VALID under a requirement admission would
  refuse to reuse it for (sufficiency.py:163). For the same reason the
  `environment_digest` a place declares is never compared with the profile's.
* `FindTrueIsOne`: `_subset` (evaluator.py:100) compares with `==`, and `True == 1`
  in Python, so a rule for `certified: true` matches an actor whose attribute is 1.
  `spp.rego` compares JSON values and does not match it.

## Proofs

`EvidenceAdmission_proofs` proves, for every value of the constants (any
policies, robots, external planners, numbers of calls, plans and hops):

* `TypeCorrect`: `TypeOK`, inductive as it stands with lemmas on the types of
  what each operator builds.
* `GuaranteesAreProven` and `NothingIsOmitted`. Neither is inductive: a profile
  is computed at `Claim` from checks made at `Submit`. The strengthening `IInv`
  says that every call past its checks still satisfies them, *read against its
  own snapshot* (`Vetted`), and that every bundle has exactly the lifetime
  `Validity` (`FullLifetimes`). `records` only grows and a snapshot never
  changes, so other actions preserve it (`VettedStable`, `RecordsGrow`);
  `SnapshotsStayVetted` is its invariance.
* `GuaranteesReallyHold`: `GuaranteesHold` under exactly the three deployment
  assumptions. The invariant behind it, `Truthful`, is that every result in every
  record tells the truth about any robot with the fingerprints of the one tested.
* `ChallengesAreSingleUse` and `NoncesAreKept`, from `NonceInv`: an answered
  call of the current registry lifetime has its challenge in `accepted`, and no
  call answers for a later lifetime.
* `LosersLostToWinners` is `LosersHaveWinner`. Nothing but its own `Claim` moves a
  call that is under way (`OnlyClaimsFinish`), and a challenge that cannot be
  claimed has an answered call by `NonceKept`. With `WF(Claim(k))` this is
  `RaceHasWinner`: what is left to the model checker is that a claim is made.
* `ShownIsAlwaysGranted` is `ShownIsGranted`, the converse of the properties
  above: they hold for a service that refuses everybody. It says that planner,
  runner and admission agree on what is enough. `TestsSelected` gives each
  unresolved, mapped requirement its one test, and `BundleShows` makes what lacks
  in the bundle what the robot cannot show; what is reused is judged by
  admission from the same records at the same floor (`RequalificationGrants`). No
  history is needed, only types.

`AdmissionContract_proofs` proves `ServiceImplementsContract`: `Spec =>
ImplementsContract`, the refinement of the ledger of proofs and grants. The mapping
computes the ledger from `records` and the answered calls, so the steps to show are
that a test run adds its proofs (`RunTestsProves`), that a claim adds one grant the
ledger justifies, or nothing (`ClaimDecides`), that a restart forgets tokens and
nothing else, and that every other step leaves the ledger alone. That a grant is
justified is `GuaranteesProven` of its snapshot, carried over by `IInv`
(`BackedIsProven`, `GrantJustified`); `SnapshotsPast`, that no snapshot is taken in
the future, gives the contract's condition on time.

`ProfileLifecycle_proofs` builds on them:

* `LifecycleKeepsAdmission`: `LifecycleSpec => Spec`. Hosts and gates only read
  what admission owns, so every theorem above carries over.
* `LifecycleTypeCorrect`: `LifecycleTypeOK`; whoever is revoked was issued.
* `ValidProfilesAreProven`: `ValidIsProven` follows from `IInv` in one state.
  VALID makes actor, build, controller and environment those of the profile's
  bundle, which `Vetted` ties to the robot as admitted, which
  `GuaranteesProven` ties to the records; a REUSED requirement has the bound of
  a guarantee.
* `GatesAreCovered`: `CoveredAtGates` from `NothingOmitted` and `GateInv`, which
  says that the profile a gate acted on is still there and the gate would
  decide the same again; answers are never replaced (`AnswersStay`).
* `AssessedEntriesAreProven` is `AssessedEntryProven`, an action property: the only
  step that lets somebody in on an assessment is `Enter`, and it assesses at that
  moment, so that `ValidIsProven` applies to the state it is taken in.
* `LifecycleImplementsContract`: the contract survives, by `LifecycleKeepsAdmission`.

`VerifiedAdmission_proofs`, for any validators, authorities, anchors and carriers:

* `VerifiedIsLifecycle`: `VerifiedSpec => LifecycleSpec`. A verified call is a
  submission of the service or a refusal, because what verifies is a wrapper a
  validator handed out, about a recorded run (`VerifiedIsGenuine`,
  `RecordsSuffice`). With it every theorem above is one about the verified service;
  `VerifiedImplementsContract` says so for the ledger, whatever is carried and
  whoever is trusted meanwhile.
* `GuaranteesAreVouchedFor` and `PoliciesAreAuthorized`, from `BasisInv`: a verified
  call past its checks rests on wrappers and notices that were trusted by the
  registries it was verified against, whatever those registries became since.
* `ValidProfilesAreTrusted` is `ValidIsTrusted`, a consequence in one state of the
  types of wrappers and of `IInv`, as for `ValidIsProven`.
* `HonestRobotsAreGranted` is `HonestIsGranted`, what `ShownIsAlwaysGranted` is to
  admission: verification may not refuse what honest signers signed. Each wrapper
  is verified for the space it was signed for and not for the one asked for
  (`HonestVerifies`), each endorsed policy is on a notice that verifies
  (`EndorsedVerifies`), and the rest is `RequalificationGrants`.

`PlacePackages_proofs`, for any sites, vocabularies, providers and packages, from
`PackagesInv`: signed packages are sealed, versioned and readable to their author;
accepted ones are signed, trusted and readable where they were accepted;
evaluations under way are about what their requirement meant when they began. All
of it survives growth (`GrowthKeeps`) because a key has one definition and is never
registered again: a requirement with a version always resolves to the same
definition, one without may become ambiguous but never changes its meaning
(`ResolveStable`, `ValidateStable`).

* `AcceptedPackagesAreSigned`, from `GenuineOnly`: of all a carrier can make, only
  what an authority sealed verifies.
* `SignedPackagesStayReadable`, `MeaningIsShared`, `AcceptedResultsFit`,
  `MeasurementsAreAsWritten`, `RegistriesTypeCorrect`.
* `SelectionOnlyImproves`: a finite registry has a best candidate (`BestOfIsBest`),
  and more candidates only give a better one.

`Nav2Enforcement_proofs`, for any profiles and queue depth, from `Nav2Inv`, whose
parts are `PlanFits` (the plan is a refusal or the mapping of the profile in hand),
`LastIsCurrent` (while a plan that publishes is held, the newest message, or with
an empty queue the limit, is its speed) and `NoZeroQueued`:

* `LimitsAreWithinBounds` is `SettledWithinBounds`: the queue drops its oldest
  message, so the newest is the one that counts.
* `LimitsAreNeverLifted` is `NeverLifted`, `Nav2TypeCorrect` is `Nav2TypeOK`.
* `LimitsGetCloser` is `LimitApproaches`: what is still ahead of the published limit
  loses a place with every delivery and never gains one, because publishing it again
  appends only itself (`AgainIsLast`) and a full queue drops from the front. The
  plain distance to the first message with the limit would not do: a drop can make
  it longer. With `WF(Deliver)` this is `LimitsSettle`.

`PolicyEvaluation_proofs`, for any files and requests:

* `EnginesAlwaysAgree`: the nested search and the sort pick the same rule on
  every chain, if `NoLookalikes`: no rule asks for a value that Python confuses with
  one a request brings under the same key (`FindTrueIsOne` shows why). Both
  reduce to the least matching triple (`PicksAgree`).
* `ServedPolicyIsTree` is `ServesTree`. `PolicyInv` says that the spaces
  checked so far have declared parents, or are the root; `Rooted`, that above
  each of them some space has no parent, which the walk that ended has met. Once
  all are checked, only the root has none.
* `AlgorithmIsFollowed` is `FollowsAlgorithm`, again under `NoLookalikes`: a search that
  climbs parent by parent and stops at the first match, and a sort of all
  candidates, both give the rule that section 4 asks for, which is stated over
  the set of all spaces above the requested one. `Climbed` says that the chain is
  a path of parents each of which is above all earlier ones; at its end it is
  exactly that set (`PathIsLineage`), so the first match on it is the nearest
  (`PickFollows`).
* `PolicyTypeCorrect` is `PolicyTypeOK`: the climb never looks up a missing space.
* `LoopsEnd` is `StepsRunOut`: every step of the server's loops lowers `Left`, in the
  lexical order of triples of naturals. That `Left` is never negative is the work: the
  walk has seen no more spaces than there are (`FewIds`), and the climb meets none
  twice, because under a space that `Rooted` puts below the root a path of parents
  has no repetition (`PathIsSimple`, `PathIsShort`). `policy_chain` has no cycle check
  of its own; this is why it needs none. With weak fairness it is `AlwaysAnswers`.

`OrderLemmas` proves that a nonempty set of naturals has a least element, from
the library's theorem that strict inclusion of finite sets is well founded. It
is what `Least` and the choice of a candidate rest on.

Assumptions used: the ASSUMEs on constants, which TLC evaluates on every run, and
those stated in a theorem (`NoLookalikes`, which holds in `PolicyServer`, where Python's
`True == 1` is in force; the deployment assumptions). Only
model-checked: liveness under fairness (`RaceHasWinner`, `LimitsSettle`,
`AlwaysAnswers`), which the prover does not reason about. For each of them a theorem
shows what fairness has to be added to (`LosersLostToWinners`, `LimitsGetCloser`,
`LoopsEnd`). Every other property of a passing run is stated by a theorem.

## Not modelled

* JSON schemas, key bytes, algorithm names and encodings: they are the typing of
  the records. In the core profile, policy digests, signatures of decisions and their
  timestamps are data a decision carries. Several requests at once: `decision`
  reads only the policy, which never changes after start. An unsupported
  `SPP_ENGINE` (500 on every request, server.py:62).
* In admission, a requirement whose id or version the vocabulary does not know:
  `Classify` compares versions of known requirements. What a vocabulary may do to a
  requirement is the subject of `RequirementRegistries`.
* Profiles made or edited by hand, and malformed inputs: they are what the
  types exclude. The gates' checks for them (facility_access.py:45-72,
  open_rmf.py:36-51) are therefore vacuous here.
* An assessment kept and presented later, or for another profile: `Enter` takes
  assessment and decision as one step, the use facility-access.md describes.
* Two threads inside `ReplayRegistry.claim`: it is one step, as the package
  documents no concurrent use.
* The signed set handed to `admit_verified_policy_evidence_backed` is verified before
  the snapshot is taken (boundary.py:165); the model takes both in one step, since
  no code of the package runs between them.
* Of place packages: their metadata and their command line. `create` lets its caller
  choose `policy_id` and `scope` freely, and `verify` refuses what does not mirror
  the requirement set (place_package.py:140-142): the model creates those too.
* The decision trace (`explain.py`) replays one fixed scenario with modelled
  operations and renders it. The sandbox service does the same for seven scenarios
  and compares acknowledged restrictions with those of a profile it edits by hand;
  no request leaves state behind. Demos, schemas, the whitepaper's renderer and
  the experiments are scripts, data and prose.

Differences between code and documents that no run states:

* docs/evidence-sufficiency.md:231 has a change of destination end in REQUALIFY; with a
  signed wrapper it ends in INVALID, since the wrapper is verified for the scope of
  the requirements now in force (lifecycle.py:78). `ValidIsTrusted` holds either way.
* The issuers of records a profile reused are not looked at again when it is
  reassessed (lifecycle.py:78-85): the profile does not name those records.
  `VouchedFor` is therefore about the moment of admission.
* A requirement without a version resolves while its id has one version
  (vocabulary.py:69-71), also in packages of earlier tools, which can become
  unreadable after they were accepted; `PackagesStayReadable` is about packages as
  `create_place_package` writes them.

## Plan

1. `Nav2Enforcement` as a third gate of `ProfileLifecycle`: the limit on the
   robot against the guarantees of the profile it was admitted under.
2. Place packages as the source of admission's policies: what an operator accepted
   is what `VerifiedAdmission` admits under, joined by the mapping registry.
3. The sandbox's acknowledgement check, should it move into the package.
