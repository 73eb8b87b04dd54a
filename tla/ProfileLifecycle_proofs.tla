------------------------ MODULE ProfileLifecycle_proofs ------------------------
(***************************************************************************)
(* Theorems of ProfileLifecycle.  Hosts, doors and fleets only read what   *)
(* the admission service answered, so its theorems carry over; what VALID  *)
(* and an open door mean then follows from what admission established.     *)
(***************************************************************************)
EXTENDS ProfileLifecycle, AdmissionContract_proofs

LEMMA LifecycleStepIsAdmissionStep ==
    ASSUME [LifecycleNext]_allVars PROVE [Next]_vars
<1>1. CASE Next /\ UNCHANGED gateVars
  BY <1>1
<1>2. CASE ProcessRestart
  BY <1>2 DEF ProcessRestart, Next
<1>3. ASSUME NEW k \in Calls, Revoke(k) \/ \E c \in Tasks : Consider(k, c)
      PROVE  UNCHANGED vars
  BY <1>3 DEF Revoke, Consider, vars
<1>4. ASSUME NEW k \in Calls, NEW a \in Actors, NEW d \in Doors,
             NEW assessed \in BOOLEAN, Enter(a, k, d, assessed)
      PROVE  UNCHANGED vars
  BY <1>4 DEF Enter, vars
<1>5. ASSUME NEW a \in Actors, Leave(a)
      PROVE  UNCHANGED vars
  BY <1>5 DEF Leave, vars
<1>6. CASE UNCHANGED allVars
  BY <1>6 DEF allVars
<1> QED
  BY <1>1, <1>2, <1>3, <1>4, <1>5, <1>6 DEF LifecycleNext

\* Lifecycle, revocation and enforcement never disturb admission: what they
\* run with is a behaviour of the service.
THEOREM LifecycleKeepsAdmission == LifecycleSpec => Spec
<1>1. LifecycleInit => Init
  BY DEF LifecycleInit
<1> QED
  BY <1>1, LifecycleStepIsAdmissionStep, PTL DEF LifecycleSpec, Spec

\* The service keeps its contract however long its profiles are reassessed,
\* revoked and acted on.
THEOREM LifecycleImplementsContract == LifecycleSpec => ImplementsContract
BY LifecycleKeepsAdmission, ServiceImplementsContract, PTL

\* What the registry of revocations holds are issued profiles, and gates act on
\* answered calls.
THEOREM LifecycleTypeCorrect == LifecycleSpec => []LifecycleTypeOK
<1>1. LifecycleInit => LifecycleTypeOK
  BY DEF LifecycleInit, LifecycleTypeOK
<1>2. ASSUME TypeOK, LifecycleTypeOK, [LifecycleNext]_allVars
      PROVE  LifecycleTypeOK'
  <2> USE <1>2 DEF LifecycleTypeOK
  <2>1. ASSUME NEW k \in Calls, Revoke(k)
        PROVE  LifecycleTypeOK'
    <3>1. call[k] \in CallState
      BY <2>1 DEF Revoke, Answered, TypeOK, Idle, Refused
    <3>2. call[k].policy.place \in Places /\ call[k].policy.space \in Spaces
      BY <3>1, RulesAssumption DEF CallState, Policy
    <3>3. ProfileOf(k) \in Issued
      BY <3>1, <3>2 DEF ProfileOf, Issued, CallState
    <3> QED
      BY <2>1, <3>3 DEF Revoke
  <2>2. ASSUME NEW k \in Calls, NEW c \in Tasks, Consider(k, c)
        PROVE  LifecycleTypeOK'
    BY <2>2 DEF Consider
  <2>3. ASSUME NEW k \in Calls, NEW a \in Actors, NEW d \in Doors,
               NEW assessed \in BOOLEAN, Enter(a, k, d, assessed)
        PROVE  LifecycleTypeOK'
    BY <2>3 DEF Enter, Passage
  <2>4. ASSUME NEW a \in Actors, Leave(a)
        PROVE  LifecycleTypeOK'
    BY <2>4 DEF Leave
  <2> QED
    BY <2>1, <2>2, <2>3, <2>4
    DEF LifecycleNext, gateVars, allVars, ProcessRestart
<1>3. LifecycleSpec => []TypeOK
  BY LifecycleKeepsAdmission, TypeCorrect, PTL
<1> QED
  BY <1>1, <1>2, <1>3, PTL DEF LifecycleSpec

-----------------------------------------------------------------------------
(* What VALID means. *)

\* A VALID assessment has passed every check of assess_profile_lifecycle.
LEMMA ValidChecks ==
    ASSUME NEW k, NEW a, Current(k, a)
    PROVE  /\ <<call[k].evidence.build, call[k].evidence.controller,
                call[k].evidence.env, call[k].actor>>
                = <<robot[a].build, robot[a].controller, robot[a].env, a>>
           /\ call[k].policy.place = policy.place
           /\ ~Impacted(call[k].profile.guarantees, policy)
BY DEF Current, Assess, SameBuild, SameController

\* A requirement that is REUSED has the bound of a guarantee with its id.
LEMMA ReusedIsGuaranteed ==
    ASSUME NEW guarantees, NEW r, Classify(guarantees, r) = "REUSED"
    PROVE  \E g \in guarantees :
              g.id = r.id /\ g.op = r.op /\ g.value = r.value
<1>1. r.id \in IdsOf(guarantees)
  BY DEF Classify
<1> DEFINE old == CHOOSE g \in guarantees : g.id = r.id
<1>2. old \in guarantees /\ old.id = r.id
  BY <1>1 DEF IdsOf
<1>3. <<old.op, old.value>> = <<r.op, r.value>>
  BY <1>1 DEF Classify
<1> QED
  BY <1>2, <1>3

\* In a state of the service, VALID means proven now.
LEMMA IInvImpliesValidIsProven ==
    ASSUME IInv PROVE ValidIsProven
<1> SUFFICES ASSUME NEW k \in Calls, NEW a \in Actors, Enforced(k), Current(k, a),
                    NEW r \in policy.reqs
             PROVE  \E rec \in records : Shows(rec, a, r)
  BY DEF ValidIsProven
<1> DEFINE s == call[k]
<1>1. PICK g \in s.profile.guarantees : g.id = r.id /\ g.op = r.op /\ g.value = r.value
  BY ValidChecks, ReusedIsGuaranteed DEF Impacted
<1>2. PICK rec \in records : Backs(rec, s, g)
  BY IInvImpliesGuaranteesProven DEF GuaranteesProven
<1>3. Vetted(s)
  BY DEF IInv, SnapshotsVetted, Enforced, Granted, Answered
<1>4. <<s.evidence.build, s.evidence.controller, s.evidence.env>>
        = <<s.robot.build, s.robot.controller, s.robot.env>>
  BY <1>3 DEF Vetted, EvidenceBackedOK, RecordOK, BoundTo
<1>5. <<rec.evidence.actor, rec.evidence.build, rec.evidence.controller, rec.evidence.env>>
        = <<a, robot[a].build, robot[a].controller, robot[a].env>>
  BY <1>2, <1>4, ValidChecks DEF Backs
<1>6. rec.evidence.plan.policy.place = policy.place
  BY <1>2, ValidChecks DEF Backs
<1>7. [id |-> r.id, passed |-> TRUE] \in rec.evidence.results
  BY <1>1, <1>2 DEF Backs
<1>8. \E source \in rec.evidence.plan.policy.reqs :
          /\ source.id = r.id
          /\ \/ <<source.op, source.value>> = <<r.op, r.value>>
             \/ Entails(source, r)
  <2>1. PICK source \in rec.evidence.plan.policy.reqs :
           source = g \/ (source.id = g.id /\ Entails(source, g))
    BY <1>2 DEF Backs
  <2>2. Entails(source, g) => Entails(source, r)
    BY <1>1 DEF Entails
  <2> QED
    BY <1>1, <2>1, <2>2
<1> QED
  BY <1>5, <1>6, <1>7, <1>8 DEF Shows

\* For every deployment: an evidence-backed profile that assesses as VALID
\* has every requirement now in force directly proven for this robot as it is.
THEOREM ValidProfilesAreProven == LifecycleSpec => []ValidIsProven
BY LifecycleKeepsAdmission, SnapshotsStayVetted, IInvImpliesValidIsProven, PTL

-----------------------------------------------------------------------------
(* What an open door or an accepted task means. *)

\* An answer is never taken back or replaced.
LEMMA AnswersStay ==
    ASSUME TypeOK, NEW k \in Calls, Answered(k), [Next]_vars
    PROVE  call'[k] = call[k]
<1>1. ASSUME NEW a \in Actors, Planning(a)
      PROVE  call' = call
  BY <1>1, PlanningType
<1>2. ASSUME NEW a \in Actors, Submitting(a)
      PROVE  call'[k] = call[k]
  <2>1. PICK l \in Calls : call[l] = Idle /\ \E c : call' = [call EXCEPT ![l] = c]
    BY <1>2 DEF Submitting, Submit
  <2>2. l # k
    BY <2>1 DEF Answered, Idle
  <2> QED
    BY <2>1, <2>2 DEF TypeOK
<1>3. ASSUME NEW l \in Calls, Claim(l)
      PROVE  call'[k] = call[k]
  <2>1. l # k
    BY <1>3 DEF Claim, Answered
  <2> QED
    BY <1>3, <2>1 DEF Claim, TypeOK
<1>4. ASSUME NEW l \in Calls, Refuse(l)
      PROVE  call'[k] = call[k]
  BY <1>4 DEF Refuse, Answered, Idle, TypeOK
<1> QED
  BY <1>1, <1>2, <1>3, <1>4
  DEF Next, vars, Tick, RegistryRestart, PublishPolicy, RobotChanges, RunTests

\* The answer an enforcement point acted on is still there, and is still one it
\* would act on.
GateInv ==
    /\ \A a \in Actors : inside[a] # Outside =>
          LET k == inside[a].profile IN
          /\ k \in Calls /\ Answered(k)
          /\ DoorAllows(k, inside[a].space)
          /\ inside[a].assessed => call[k].evidence.actor = a
    /\ task # NoTask =>
          /\ task.profile \in Calls /\ Answered(task.profile)
          /\ FleetAllows(task.profile, task.context)

\* Nothing that happens to the admission service changes that.
LEMMA GatesUndisturbed ==
    ASSUME TypeOK, GateInv, [Next]_vars, UNCHANGED <<inside, task>>
    PROVE  GateInv'
<1>1. ASSUME NEW k \in Calls, Answered(k)
      PROVE  call'[k] = call[k]
  BY <1>1, AnswersStay
<1> QED
  BY <1>1 DEF GateInv, Answered, DoorAllows, FleetAllows

LEMMA GateInvInductive ==
    /\ LifecycleInit => GateInv
    /\ TypeOK /\ GateInv /\ [LifecycleNext]_allVars => GateInv'
<1>1. LifecycleInit => GateInv
  BY DEF LifecycleInit, GateInv
<1>2. ASSUME TypeOK, GateInv, [LifecycleNext]_allVars
      PROVE  GateInv'
  <2>1. CASE Next /\ UNCHANGED gateVars
    BY <1>2, <2>1, GatesUndisturbed DEF gateVars
  <2>2. CASE ProcessRestart
    BY <1>2, <2>2, GatesUndisturbed DEF ProcessRestart, Next
  <2>3. ASSUME NEW k \in Calls, Revoke(k)
        PROVE  GateInv'
    BY <1>2, <2>3, GatesUndisturbed DEF Revoke
  <2>4. ASSUME NEW k \in Calls, NEW c \in Tasks, Consider(k, c)
        PROVE  GateInv'
    <3>1. UNCHANGED <<inside, call>>
      BY <2>4 DEF Consider, vars
    <3>2. task' # NoTask => task' = [profile |-> k, context |-> c] /\ FleetAllows(k, c)
      BY <2>4 DEF Consider
    <3> QED
      BY <1>2, <2>4, <3>1, <3>2 DEF GateInv, Consider, Answered, DoorAllows, FleetAllows
  <2>5. ASSUME NEW k \in Calls, NEW a \in Actors, NEW d \in Doors,
               NEW assessed \in BOOLEAN, Enter(a, k, d, assessed)
        PROVE  GateInv'
    <3>1. UNCHANGED <<call, task>>
      BY <2>5 DEF Enter, vars
    <3>2. assessed => call[k].evidence.actor = a
      BY <2>5 DEF Enter, Assess
    <3>3. /\ inside' = [inside EXCEPT ![a] = [profile |-> k, space |-> d,
                                             assessed |-> assessed]]
          /\ Answered(k) /\ DoorAllows(k, d)
      BY <2>5 DEF Enter
    <3> QED
      BY <1>2, <3>1, <3>2, <3>3 DEF GateInv, Answered, DoorAllows, FleetAllows
  <2>6. ASSUME NEW a \in Actors, Leave(a)
        PROVE  GateInv'
    BY <1>2, <2>6 DEF Leave, vars, GateInv, Answered, DoorAllows, FleetAllows
  <2>7. CASE UNCHANGED allVars
    BY <1>2, <2>7, GatesUndisturbed DEF allVars, gateVars
  <2> QED
    BY <1>2, <2>1, <2>2, <2>3, <2>4, <2>5, <2>6, <2>7 DEF LifecycleNext
<1> QED
  BY <1>1, <1>2

\* With the account of admission complete, what the gates accept covers it.
LEMMA GateInvImpliesCovered ==
    ASSUME GateInv, NothingOmitted PROVE CoveredAtGates
<1>1. ASSUME NEW k \in Calls, Enforced(k), NEW accepts,
             call[k].profile.restrictions \subseteq accepts
      PROVE  Covered(k, accepts)
  BY <1>1 DEF NothingOmitted, Covered
<1>2. ASSUME NEW a \in Actors, inside[a] # Outside, Enforced(inside[a].profile)
      PROVE  LET k == inside[a].profile IN
             /\ Covered(k, AcceptedAtDoors)
             /\ call[k].policy.space = inside[a].space
             /\ inside[a].assessed => call[k].evidence.actor = a
  BY <1>1, <1>2 DEF GateInv, DoorAllows
<1>3. ASSUME task # NoTask, Enforced(task.profile)
      PROVE  /\ Covered(task.profile, AcceptedByFleet)
             /\ call[task.profile].evidence.actor = task.context.actor
             /\ call[task.profile].policy.space = task.context.space
  BY <1>1, <1>3 DEF GateInv, FleetAllows
<1> QED
  BY <1>2, <1>3 DEF CoveredAtGates

\* For every deployment: whoever is behind a door or has a task on an
\* evidence-backed profile meets the requirements of the space, but those whose
\* restriction is configured to be enforced there.
THEOREM GatesAreCovered == LifecycleSpec => []CoveredAtGates
<1>1. LifecycleSpec => []TypeOK
  BY LifecycleKeepsAdmission, TypeCorrect, PTL
<1>2. LifecycleSpec => []GateInv
  BY <1>1, GateInvInductive, PTL DEF LifecycleSpec
<1>3. LifecycleSpec => []NothingOmitted
  BY LifecycleKeepsAdmission, NothingIsOmitted, PTL
<1> QED
  BY <1>2, <1>3, GateInvImpliesCovered, PTL

\* Only a passage through a door puts an actor behind one, and an assessed one
\* was assessed with the bundle of the profile.
LEMMA EntryIsCurrent ==
    ASSUME LifecycleTypeOK, [LifecycleNext]_allVars, NEW a \in Actors,
           inside'[a] \notin {inside[a], Outside}, inside'[a].assessed
    PROVE  /\ inside'[a].profile \in Calls /\ Current(inside'[a].profile, a)
           /\ UNCHANGED vars
<1>1. PICK b \in Actors, k \in Calls, d \in Doors, assessed \in BOOLEAN :
        Enter(b, k, d, assessed)
  <2>1. CASE UNCHANGED inside
    BY <2>1
  <2>2. ASSUME NEW b \in Actors, Leave(b)
        PROVE  FALSE
    BY <2>2 DEF Leave, LifecycleTypeOK
  <2> QED
    BY <2>1, <2>2 DEF LifecycleNext, allVars, gateVars, ProcessRestart, Revoke, Consider
<1>2. /\ inside' = [inside EXCEPT ![b] = [profile |-> k, space |-> d, assessed |-> assessed]]
      /\ UNCHANGED vars
  BY <1>1 DEF Enter
<1>3. a = b /\ inside'[a] = [profile |-> k, space |-> d, assessed |-> assessed]
  BY <1>2 DEF LifecycleTypeOK
<1>4. PICK e \in {rec.evidence : rec \in records} \cup {NoEvidence} : Assess(k, a, e) = "VALID"
  BY <1>1, <1>3 DEF Enter
<1>5. e = call[k].evidence
  BY <1>4 DEF Assess
<1> QED
  BY <1>2, <1>3, <1>4, <1>5 DEF Current

\* For every deployment: whoever comes through a door on an evidence-backed
\* profile and an assessment of that moment is the robot that was tested, has
\* shown every requirement in force at that moment, and is not revoked.
THEOREM AssessedEntriesAreProven == LifecycleSpec => AssessedEntryProven
<1>1. ASSUME IInv, LifecycleTypeOK, [LifecycleNext]_allVars, NEW a \in Actors,
             inside'[a] \notin {inside[a], Outside}, inside'[a].assessed,
             Enforced(inside'[a].profile)
      PROVE  LET k == inside'[a].profile
             IN  /\ ProfileOf(k) \notin revoked
                 /\ call[k].evidence.actor = a
                 /\ now < call[k].evidence.until
                 /\ \A r \in policy.reqs : \E rec \in records : Shows(rec, a, r)
  <2> DEFINE k == inside'[a].profile
  <2>1. k \in Calls /\ Current(k, a)
    BY <1>1, EntryIsCurrent
  <2>2. ProfileOf(k) \notin revoked /\ call[k].evidence.actor = a
    BY <2>1 DEF Current, Assess
  <2>3. ~(call[k].evidence.until <= now)
    BY <2>1 DEF Current, Assess
  <2>4. call[k].evidence.until \in Nat /\ now \in Nat
    BY <1>1, <2>1 DEF IInv, TypeOK, Enforced, Granted, Answered, Idle, Refused,
                      CallState, Evidence
  <2>5. \A r \in policy.reqs : \E rec \in records : Shows(rec, a, r)
    BY <1>1, <2>1, IInvImpliesValidIsProven DEF ValidIsProven
  <2> QED
    BY <2>2, <2>3, <2>4, <2>5
<1>2. LifecycleSpec => []IInv
  BY LifecycleKeepsAdmission, SnapshotsStayVetted, PTL
<1>3. IInv /\ LifecycleTypeOK /\ [LifecycleNext]_allVars
        => [\A a \in Actors :
               LET passage == inside'[a] IN
               /\ passage \notin {inside[a], Outside}
               /\ passage.assessed /\ Enforced(passage.profile)
               => /\ ProfileOf(passage.profile) \notin revoked
                  /\ call[passage.profile].evidence.actor = a
                  /\ now < call[passage.profile].evidence.until
                  /\ \A r \in policy.reqs : \E rec \in records : Shows(rec, a, r)]_allVars
  BY <1>1
<1> QED
  BY <1>2, <1>3, LifecycleTypeCorrect, PTL DEF LifecycleSpec, AssessedEntryProven
===============================================================================
