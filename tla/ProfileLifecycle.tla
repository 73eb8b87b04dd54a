--------------------------- MODULE ProfileLifecycle ---------------------------
(***************************************************************************)
(* What becomes of an AdmissionProfile after it was issued.  The admission *)
(* service of EvidenceAdmission goes on running: robots, policies and time *)
(* move on under the profiles it has answered with.  A host reassesses     *)
(* them (lifecycle.py), a local registry revokes them, and two enforcement *)
(* points act on them: a facility door (facility_access.py) and an         *)
(* Open-RMF task callback (open_rmf.py).                                   *)
(*                                                                         *)
(* An issued profile is named by the call that answered with it.           *)
(***************************************************************************)
EXTENDS EvidenceAdmission

CONSTANTS
    Doors,            \* spaces behind a ReferenceDoorController
    AcceptedAtDoors,  \* its accepted_restrictions
    Tasks,            \* the TaskContexts a fleet asks about
    AcceptedByFleet   \* accepted_restrictions of the delivery callback

ASSUME GatesAssumption ==
    /\ Doors \subseteq Spaces
    /\ Tasks \subseteq [actor : Actors, place : Places, space : Spaces]
    /\ AcceptedAtDoors \subseteq Restrictions /\ AcceptedByFleet \subseteq Restrictions

VARIABLES
    revoked,   \* ProfileRevocationRegistry._revoked
    inside,    \* how each actor got where it is: the last passage of a door
    task       \* the profile the fleet's current task was accepted on

gateVars == <<revoked, inside, task>>
allVars  == <<vars, gateVars>>

Outside == [space |-> "none"]
NoTask  == [profile |-> "none"]
Passage == [profile : Calls, space : Doors, assessed : BOOLEAN]

NoEvidence == [level |-> "none"]

-----------------------------------------------------------------------------
(* compute_requirement_delta. *)

\* Mutant: a stricter bound is no reason to retest.
ClassifyLoosely(guarantees, r) ==
    IF r.id \in IdsOf(guarantees) THEN "REUSED" ELSE "NEW"

\* What has become of a requirement since the guarantees were given.
Classify(guarantees, r) ==
    IF r.id \notin IdsOf(guarantees) THEN "NEW"
    ELSE LET old == CHOOSE g \in guarantees : g.id = r.id
             looser == \/ r.op = "<=" /\ r.value > old.value
                       \/ r.op = ">=" /\ r.value < old.value
         IN  IF old.version # r.version THEN "UNRESOLVED"
             ELSE IF <<old.op, old.value>> = <<r.op, r.value>> THEN "REUSED"
             ELSE IF old.op = r.op /\ looser THEN "RELAXED" ELSE "STRICTER"

\* Some item of the delta is not REUSED; a guarantee that is no longer asked
\* for is such an item.
Impacted(guarantees, current) ==
    \/ \E r \in current.reqs : Classify(guarantees, r) # "REUSED"
    \/ ~(IdsOf(guarantees) \subseteq IdsOf(current.reqs))

-----------------------------------------------------------------------------
(* assess_profile_lifecycle. *)

\* The content profile_identifier hashes.  Two calls with one content are one
\* profile to the registry.
ProfileOf(k) ==
    [profile |-> call[k].profile, actor |-> call[k].actor,
     place |-> call[k].policy.place, space |-> call[k].policy.space,
     evidence |-> call[k].evidence]

\* Mutant: the controller configuration is not compared.
AnyController(e, a) == TRUE

SameBuild(e, a)      == e.build = robot[a].build
SameController(e, a) == e.controller = robot[a].controller

\* The status of profile k for actor a and evidence bundle e, against the
\* policy and the runtime state of this moment.
Assess(k, a, e) ==
    LET s == call[k] IN
    IF ProfileOf(k) \in revoked                       THEN "INVALID"
    ELSE IF s.profile.status = "DENIED"               THEN "INVALID"
    ELSE IF e = NoEvidence                            THEN "REVALIDATE"
    ELSE IF e # s.evidence                            THEN "INVALID"
    ELSE IF e.until <= now                            THEN "REVALIDATE"
    ELSE IF s.actor # a \/ e.actor # a \/ ~SameBuild(e, a) THEN "INVALID"
    ELSE IF ~SameController(e, a)                     THEN "REVALIDATE"
    ELSE IF \/ e.env # robot[a].env
            \/ s.policy.place # policy.place
            \/ Impacted(s.profile.guarantees, policy) THEN "REQUALIFY"
    ELSE "VALID"

-----------------------------------------------------------------------------
(* Enforcement points. *)

\* Mutant: a restriction need not be accepted.
DoorIgnoresRestrictions(k, d) ==
    call[k].policy.space = d /\ call[k].profile.status \in {"ADMITTED", "DEGRADED"}

\* map_profile_to_access, after the lifecycle check.
DoorAllows(k, d) ==
    LET p == call[k].profile IN
    /\ call[k].policy.space = d
    /\ p.status \in {"ADMITTED", "DEGRADED"}
    /\ p.restrictions \subseteq AcceptedAtDoors
    /\ p.status = "DEGRADED" => p.restrictions # {}

\* open_rmf.map_profile.
FleetAllows(k, c) ==
    LET p == call[k].profile IN
    /\ <<call[k].actor, call[k].policy.place, call[k].policy.space>>
         = <<c.actor, c.place, c.space>>
    /\ p.status \in {"ADMITTED", "DEGRADED"}
    /\ call[k].evidence.actor = c.actor
    /\ p.status = "ADMITTED" => p.unresolved = {}
    /\ p.status = "DEGRADED" => p.restrictions # {}
    /\ p.restrictions \subseteq AcceptedByFleet

-----------------------------------------------------------------------------
LifecycleInit ==
    /\ Init
    /\ revoked = {}
    /\ inside = [a \in Actors |-> Outside]
    /\ task = NoTask

\* Mutant: the registry is keyed by the evidence and not by the profile.
RevokeByCall(k) ==
    /\ Answered(k)
    /\ revoked' = revoked \cup {call[k].evidence}
    /\ UNCHANGED <<vars, inside, task>>

Revoke(k) ==
    /\ Answered(k)
    /\ revoked' = revoked \cup {ProfileOf(k)}
    /\ UNCHANGED <<vars, inside, task>>

\* A facility asks its door controller, with an assessment of this moment or
\* with none: `lifecycle` is optional.
Enter(a, k, d, assessed) ==
    /\ Answered(k)
    /\ assessed => \E e \in {rec.evidence : rec \in records} \cup {NoEvidence} :
                      Assess(k, a, e) = "VALID"
    /\ DoorAllows(k, d)
    /\ inside' = [inside EXCEPT ![a] = [profile |-> k, space |-> d,
                                        assessed |-> assessed]]
    /\ UNCHANGED <<vars, revoked, task>>

Leave(a) ==
    /\ inside[a] # Outside
    /\ inside' = [inside EXCEPT ![a] = Outside]
    /\ UNCHANGED <<vars, revoked, task>>

\* consider(description): the context is resolved by the host, the profile is
\* what its evaluate_admission returned.  An exception rejects the task.
Consider(k, c) ==
    /\ Answered(k)
    /\ task' = IF FleetAllows(k, c) THEN [profile |-> k, context |-> c] ELSE NoTask
    /\ UNCHANGED <<vars, revoked, inside>>

\* Both registries live in memory: the one of revocations is lost with the
\* process as well.
ProcessRestart ==
    /\ RegistryRestart
    /\ revoked' = {}
    /\ UNCHANGED <<inside, task>>

LifecycleNext ==
    \/ Next /\ UNCHANGED gateVars
    \/ ProcessRestart
    \/ \E k \in Calls :
          \/ Revoke(k)
          \/ \E c \in Tasks : Consider(k, c)
          \/ \E a \in Actors, d \in Doors, assessed \in BOOLEAN :
                Enter(a, k, d, assessed)
    \/ \E a \in Actors : Leave(a)

LifecycleSpec ==
    /\ LifecycleInit /\ [][LifecycleNext]_allVars
    /\ \A k \in Calls : WF_vars(Claim(k))

-----------------------------------------------------------------------------
(* Properties. *)

Issued == [profile : Profile, actor : Actors, place : Places, space : Spaces,
           evidence : Evidence]

LifecycleTypeOK ==
    /\ revoked \subseteq Issued
    /\ inside \in [Actors -> Passage \cup {Outside}]
    /\ task \in [profile : Calls, context : Tasks] \cup {NoTask}

\* The assessment a host gets when it passes the right evidence.
Current(k, a) == Assess(k, a, call[k].evidence) = "VALID"

\* rec shows that a, as it is now, meets the requirement r now in force: its
\* build, controller and environment ran and passed a test, at this place, of
\* the very bound of r or of one that entails it.
Shows(rec, a, r) ==
    LET e == rec.evidence IN
    /\ <<e.actor, e.build, e.controller, e.env>>
         = <<a, robot[a].build, robot[a].controller, robot[a].env>>
    /\ e.plan.policy.place = policy.place
    /\ [id |-> r.id, passed |-> TRUE] \in e.results
    /\ \E source \in e.plan.policy.reqs :
          /\ source.id = r.id
          /\ \/ <<source.op, source.value>> = <<r.op, r.value>>
             \/ Entails(source, r)

\* VALID means proven now: whatever happened since an evidence-backed profile
\* was issued to the policy, the robot or the profile's own guarantees, while
\* it assesses as VALID every requirement in force, and not only those it was
\* issued for, was directly tested on this robot as it now runs
\* (lifecycle.py:136-166 over guarantees that may be carried over).
ValidIsProven ==
    \A k \in Calls, a \in Actors :
        Enforced(k) /\ Current(k, a) =>
            \A r \in policy.reqs : \E rec \in records : Shows(rec, a, r)

\* Every requirement of the admitted policy is guaranteed, or is one that may
\* be traded and whose restriction is among those accepted.
Covered(k, accepts) ==
    \A r \in call[k].policy.reqs :
        \/ r \in call[k].profile.guarantees
        \/ ~r.essential /\ r.id # HumanSeparation /\ r.restriction \in accepts

\* An enforcement point never acts on less than it was promised: whoever is
\* behind a door, or has a task, on an evidence-backed profile, got it for this
\* space and meets all its requirements but those the facility or the fleet
\* is configured to enforce a restriction for; a task is for the actor tested,
\* and so is a door that checks the lifecycle (facility_access.py:54-84,
\* open_rmf.py:59-72).
CoveredAtGates ==
    /\ \A a \in Actors : inside[a] # Outside /\ Enforced(inside[a].profile) =>
          LET k == inside[a].profile IN
          /\ Covered(k, AcceptedAtDoors)
          /\ call[k].policy.space = inside[a].space
          /\ inside[a].assessed => call[k].evidence.actor = a
    /\ task # NoTask /\ Enforced(task.profile) =>
          /\ Covered(task.profile, AcceptedByFleet)
          /\ call[task.profile].evidence.actor = task.context.actor
          /\ call[task.profile].policy.space = task.context.space

\* A door that is shown an assessment of this moment opens, on an evidence-backed
\* profile, only for the robot that was tested, and only while the profile is not
\* revoked, its bundle has not expired and every requirement then in force was
\* tested on the robot as it comes in, whatever moved on since the profile was
\* issued and whichever bundle the host had it assessed with
\* (facility_access.py:54, lifecycle.py:109-166).  The door does not look at the
\* age of the assessment: that is the host's to keep.
AssessedEntryProven ==
    [][\A a \in Actors :
          LET passage == inside'[a] IN
          /\ passage \notin {inside[a], Outside}
          /\ passage.assessed /\ Enforced(passage.profile)
          => /\ ProfileOf(passage.profile) \notin revoked
             /\ call[passage.profile].evidence.actor = a
             /\ now < call[passage.profile].evidence.until
             /\ \A r \in policy.reqs : \E rec \in records : Shows(rec, a, r)]_allVars

\* What documents of the repository say, and the code does not do.

\* spec/security.md:118: "It fails closed from `VALID` when supporting evidence
\* expires": some unexpired record shows each guarantee of a VALID profile.
ValidWhileSupported ==
    \A k \in Calls, a \in Actors :
        Enforced(k) /\ Current(k, a) =>
            \A r \in policy.reqs : \E rec \in records :
                Shows(rec, a, r) /\ now < rec.evidence.until

\* docs/evidence-sufficiency.md:231: "Environment changes, changed/new/stricter
\* requirements, and destination changes require `REQUALIFY`": a requirement in
\* force under a VALID profile is the one that was guaranteed.
ChangeRequalifies ==
    \A k \in Calls, a \in Actors :
        Enforced(k) /\ Current(k, a) => policy.reqs \subseteq call[k].profile.guarantees
=============================================================================
