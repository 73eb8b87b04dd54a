------------------------- MODULE MCEvidenceAdmission -------------------------
(***************************************************************************)
(* Small instances of EvidenceAdmission.  One place with a lobby and a     *)
(* ward; one robot whose controller update makes it faster; a bundle lives *)
(* two ticks.  Every constant an instance varies has a definition here and *)
(* is chosen in its .cfg.                                                  *)
(***************************************************************************)
EXTENDS EvidenceAdmission

MCIds     == {"speed", "video"}
MCScopes  == {"m/s", "m", "seconds"}
MCMapping == [<<e, i, v>> \in {"base"} \X MCIds \X {"1.0"} |-> i]

Requirement1(id, scope, op, value, essential, restriction) ==
    [id |-> id, version |-> "1.0", scope |-> scope, op |-> op, value |-> value,
     essential |-> essential, restriction |-> restriction]

Speed(bound) == Requirement1("speed", "m/s", "<=", bound, TRUE, "none")
Video        == Requirement1("video", "seconds", "=", 0, FALSE, "capture_off")

Set(space, version, reqs) ==
    [place |-> "clinic", space |-> space, version |-> version, env |-> "site1",
     opaque |-> FALSE, reqs |-> reqs]

Lobby == Set("lobby", 1, {Speed(2), Video})
Ward  == Set("ward", 2, {Speed(1), Video})

Robot(build, controller, env, speed, video) ==
    [build |-> build, controller |-> controller, embodiment |-> "base",
     env |-> env, caps |-> [speed |-> speed, video |-> video]]

\* Two spaces; updates and a site change that alter what the robot can do.
TransitPolicies == {Lobby, Ward}
SteadyRobot     == {Robot("b1", "c1", "site1", 1, 0)}
TransitRobots   == SteadyRobot \cup {Robot("b1", "c2", "site1", 2, 0),
                                     Robot("b2", "c1", "site1", 3, 1),
                                     Robot("b1", "c1", "site2", 2, 0)}
ReplayRobots    == SteadyRobot \cup {Robot("b1", "c2", "site1", 2, 1)}

LobbyOnly       == {Lobby}

NoPlans == {}

\* Essential, degradable (and unmapped: no test exists for it) and
\* human-separation requirements; the last carries a restriction it must never
\* be traded for.  The robot meets a speed of 2 and nothing else.
GradedIds      == {"speed", "video", "separation"}
GradedMapping  == [<<e, i, v>> \in {"base"} \X {"speed", "separation"} \X {"1.0"} |-> i]
Separation     == Requirement1("separation", "m", ">=", 2, FALSE, "escort")
GradedPolicies == {Set("lobby", 1, {Speed(2), Video}),
                   Set("ward", 2, {Speed(2), Separation})}
GradedRobots   == {[Robot("b1", "c1", "site1", 2, 0) EXCEPT
                      !.caps = [speed |-> 2, separation |-> 1]]}

\* Coverage claims over one policy: right, omitting, overlapping, testing what
\* is reused or nothing; and one that reuses for a plan that asks for E3.
AnyCoverage ==
    {[reused |-> {"speed"}, unresolved |-> {"video"}, tested |-> {}, level |-> 3]} \cup
    UNION {{[reused |-> r, unresolved |-> u, tested |-> t, level |-> 2] :
               t \in {{}, r, u}} :
               <<r, u>> \in UNION {(SUBSET IdsOf(p.reqs)) \X (SUBSET IdsOf(p.reqs)) :
                                      p \in GradedPolicies}}

\* The finding: an essential requirement that names a restriction.
EssentialVideo == {Set("lobby", 1, {Speed(2), [Video EXCEPT !.essential = TRUE]})}
RecordingRobot == {Robot("b1", "c1", "site1", 2, 1)}
=============================================================================
