-------------------------- MODULE MCProfileLifecycle --------------------------
(***************************************************************************)
(* Small instances of ProfileLifecycle, over the constants of              *)
(* MCEvidenceAdmission.                                                    *)
(***************************************************************************)
EXTENDS MCEvidenceAdmission, ProfileLifecycle

NoDoors == {}
NoTasks == {}

\* Policies a place may move between while a profile is out: a stricter one, a
\* relaxed one, and one that only has another version number.
Annex             == Set("lobby", 3, {Speed(2), Video})
LifecyclePolicies == {Lobby, Ward, Annex}
LifecycleRobots   == SteadyRobot \cup {Robot("b1", "c2", "site1", 2, 0),
                                   Robot("b2", "c1", "site1", 3, 1),
                                   Robot("b1", "c1", "site2", 2, 0)}

\* Each space trades its video requirement for a restriction of its own; the
\* door is configured for one of them and the fleet for the other.  A robot
\* that records is admitted DEGRADED.
Escorted      == [Video EXCEPT !.restriction = "escort"]
GatePolicies  == {Lobby, Set("ward", 2, {Speed(2), Escorted})}
GateRobots    == SteadyRobot \cup {Robot("b1", "c2", "site1", 1, 1)}
AllDoors      == {"lobby", "ward"}
GateTasks     == [actor : {"r1"}, place : {"clinic"}, space : AllDoors]

\* The finding: a place asks for the same bound in another unit.
OtherUnit == {Lobby, Set("lobby", 2, {[Speed(2) EXCEPT !.scope = "m"], Video})}
===============================================================================
