--------------------------- MODULE MCNav2Enforcement ---------------------------
(***************************************************************************)
(* A small instance of Nav2Enforcement.                                    *)
(***************************************************************************)
EXTENDS Nav2Enforcement

Bound(v) == [id |-> SpeedId, op |-> "<=", unit |-> "m/s", value |-> v]
Issued(status, guarantees, restrictions) ==
    [status |-> status, guarantees |-> guarantees, restrictions |-> restrictions,
     foreign |-> FALSE]
Separation == [id |-> "human_separation", op |-> ">=", unit |-> "m", value |-> 1]

\* A fast and a slow profile, two that come to one limit, one with bounds of both
\* kinds, one without any, and one for each reason to refuse.
MCProfiles == {
    Issued("ADMITTED", {Bound(3), Separation}, {}),
    Issued("ADMITTED", {Bound(3), Bound(2)}, {1}),
    Issued("DEGRADED", {Separation}, {2}), Issued("ADMITTED", {Bound(2)}, {}),
    Issued("ADMITTED", {Separation}, {}),
    Issued("ADMITTED", {Bound(3)}, {0}),
    Issued("DENIED", {Bound(1)}, {}),
    Issued("DEGRADED", {Bound(2)}, {-2}),
    Issued("ADMITTED", {[Bound(1) EXCEPT !.unit = "km/h"]}, {}),
    [Issued("DEGRADED", {Bound(2)}, {}) EXCEPT !.foreign = TRUE]}
===============================================================================
