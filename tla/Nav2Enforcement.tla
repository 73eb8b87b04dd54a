---------------------------- MODULE Nav2Enforcement ----------------------------
(***************************************************************************)
(* The ROS 2 enforcement point: a trusted host hands profiles to           *)
(* Nav2Enforcer.apply, which maps each to a speed limit (mapping.py) and   *)
(* publishes it to Nav2's controller server (node.py).                     *)
(*                                                                         *)
(* A publication is not an acknowledgement.  Between apply and the moment  *)
(* the controller takes the message, the message may wait in the           *)
(* subscription's queue, be pushed out of it, or be lost with the          *)
(* controller; and a restarted controller has no limit at all.             *)
(*                                                                         *)
(* Speeds are natural numbers of some unit; a negative bound stands for    *)
(* every value add_bound refuses (negative, not finite, not a number).     *)
(* Reasons are left out.                                                   *)
(***************************************************************************)
EXTENDS Integers, Sequences, FiniteSets

CONSTANTS
    Profiles,   \* the profiles the host may come to hold
    Depth       \* depth of the speed_limit topic's queue (10 in node.py)

SpeedId == "movement.max_speed"

\* What the mapper reads of a profile: its guarantees, the bounds of its textual
\* restrictions on speed, and whether it carries a restriction of another form.
ProfileType(p) ==
    /\ DOMAIN p = {"status", "guarantees", "restrictions", "foreign"}
    /\ p.status \in {"ADMITTED", "DEGRADED", "DENIED"}
    /\ \A g \in p.guarantees : DOMAIN g = {"id", "op", "unit", "value"} /\ g.value \in Int
    /\ p.restrictions \subseteq Int
    /\ p.foreign \in BOOLEAN

ASSUME Nav2Assumption ==
    /\ Depth \in Nat \ {0}
    /\ \A p \in Profiles : ProfileType(p)

VARIABLES
    profile,   \* the profile last given to apply
    plan,      \* what apply returned for it
    matched,   \* get_subscription_count() > 0, as the publisher sees it
    linked,    \* the controller that runs now is among those subscriptions
    inbox,     \* limits in the controller's subscription queue
    up,        \* the controller server runs
    limit,     \* the limit it imposes, or NoLimit
    held       \* the controller that apply last published to still runs

nav2Vars == <<profile, plan, matched, linked, inbox, up, limit, held>>

-----------------------------------------------------------------------------
(* mapping.py: map_profile. *)

NoLimit == 0    \* SpeedLimit(0) lifts the limit
NoSpeed == -1   \* max_speed_mps = None: nothing to publish

Plan == [allowed : BOOLEAN, speed : Nat \cup {NoSpeed}]

Refuse == [allowed |-> FALSE, speed |-> NoSpeed]

SpeedGuarantees(p) == {g \in p.guarantees : g.id = SpeedId}

\* Every bound on speed the profile states.
Bounds(p) == {g.value : g \in SpeedGuarantees(p)} \cup p.restrictions

\* Mutant: a negative bound is a bound.
EnforceableAnySign(p) ==
    /\ p.status \in {"ADMITTED", "DEGRADED"}
    /\ \A g \in SpeedGuarantees(p) : g.op = "<=" /\ g.unit = "m/s"
    /\ ~p.foreign

\* The profile says nothing the adapter cannot enforce.
Enforceable(p) ==
    /\ p.status \in {"ADMITTED", "DEGRADED"}
    /\ \A g \in SpeedGuarantees(p) : g.op = "<=" /\ g.unit = "m/s"
    /\ ~p.foreign
    /\ \A b \in Bounds(p) : b >= 0

Least(S) == CHOOSE x \in S : \A y \in S : x <= y

\* Mutant: the largest bound wins.
MapToLargest(p) ==
    IF ~Enforceable(p) \/ 0 \in Bounds(p) THEN Refuse
    ELSE [allowed |-> TRUE,
          speed   |-> IF Bounds(p) = {} THEN NoSpeed
                      ELSE CHOOSE x \in Bounds(p) : \A y \in Bounds(p) : x >= y]

\* Mutant: zero is published like any other bound.
MapZeroToo(p) ==
    IF ~Enforceable(p) THEN Refuse
    ELSE [allowed |-> TRUE, speed |-> IF Bounds(p) = {} THEN NoSpeed ELSE Least(Bounds(p))]

MapProfile(p) ==
    IF ~Enforceable(p) \/ (Bounds(p) # {} /\ Least(Bounds(p)) = 0) THEN Refuse
    ELSE [allowed |-> TRUE, speed |-> IF Bounds(p) = {} THEN NoSpeed ELSE Least(Bounds(p))]

-----------------------------------------------------------------------------
(* The topic and the controller server, as node.py and its README use them. *)

\* KEEP_LAST: a full queue drops its oldest message.
Enqueue(s) ==
    IF Len(inbox) < Depth THEN Append(inbox, s) ELSE Append(Tail(inbox), s)

\* The controller server takes a limit and forwards it to its plugins.
Deliver ==
    /\ inbox # <<>>
    /\ limit' = Head(inbox) /\ inbox' = Tail(inbox)
    /\ UNCHANGED <<profile, plan, matched, linked, up, held>>

ControllerStops ==
    /\ up
    /\ up' = FALSE /\ linked' = FALSE
    /\ inbox' = <<>> /\ limit' = NoLimit /\ held' = FALSE
    /\ UNCHANGED <<profile, plan, matched>>

ControllerStarts ==
    /\ ~up
    /\ up' = TRUE
    /\ UNCHANGED <<profile, plan, matched, linked, inbox, limit, held>>

\* Discovery catches up with the controller; until then the publisher may count
\* a subscription of a controller that is gone.
Discover ==
    /\ <<matched, linked>> # <<up, up>>
    /\ matched' = up /\ linked' = up
    /\ UNCHANGED <<profile, plan, inbox, up, limit, held>>

-----------------------------------------------------------------------------
(* node.py: Nav2Enforcer.apply. *)

Init ==
    /\ profile \in Profiles /\ plan = Refuse
    /\ matched = FALSE /\ linked = FALSE /\ up \in BOOLEAN
    /\ inbox = <<>> /\ limit = NoLimit /\ held = FALSE

\* The plan publishes a limit; it does not when it refuses or states no speed.
Publishes(q) == q.allowed /\ q.speed # NoSpeed

NothingPublished(p) ==
    /\ ~Publishes(MapProfile(p))
    /\ plan' = MapProfile(p)
    /\ UNCHANGED <<inbox, held>>

\* No subscriber is known, or publish raises.
PublishFails(p) ==
    /\ Publishes(MapProfile(p))
    /\ plan' = Refuse
    /\ UNCHANGED <<inbox, held>>

\* Mutant: a plan that was published already is not published again.
PublishChanges(p) ==
    /\ Publishes(MapProfile(p)) /\ matched
    /\ plan' = MapProfile(p)
    /\ inbox' = IF linked /\ plan # MapProfile(p) THEN Enqueue(MapProfile(p).speed) ELSE inbox
    /\ held' = linked

\* A subscription is counted; the message reaches the queue of the controller if
\* that is the one counted.
Publish(p) ==
    /\ Publishes(MapProfile(p)) /\ matched
    /\ plan' = MapProfile(p)
    /\ inbox' = IF linked THEN Enqueue(MapProfile(p).speed) ELSE inbox
    /\ held' = linked

Apply(p) ==
    /\ profile' = p
    /\ NothingPublished(p) \/ PublishFails(p) \/ Publish(p)
    /\ UNCHANGED <<matched, linked, up, limit>>

Next ==
    \/ \E p \in Profiles : Apply(p)
    \/ Deliver \/ ControllerStops \/ ControllerStarts \/ Discover

Fairness == WF_nav2Vars(Deliver)

Nav2Spec == Init /\ [][Next]_nav2Vars /\ Fairness

-----------------------------------------------------------------------------
(* Properties. *)

\* Types: what is in flight and in force are speeds, and a queue no longer than
\* the topic's depth.
Nav2TypeOK ==
    /\ profile \in Profiles /\ plan \in Plan
    /\ matched \in BOOLEAN /\ linked \in BOOLEAN /\ up \in BOOLEAN /\ held \in BOOLEAN
    /\ inbox \in Seq(Nat) /\ Len(inbox) <= Depth
    /\ limit \in Nat

\* apply's promise (node.py:30-44): while it allows navigation, the controller
\* it published to still runs and nothing is on its way, that controller imposes
\* a limit within every bound the profile states, whatever was applied before,
\* in whatever order and however often, and whatever the queue dropped.
SettledWithinBounds ==
    plan.allowed /\ held /\ inbox = <<>>
        => \A b \in Bounds(profile) : limit # NoLimit /\ limit <= b

\* No message of the adapter takes a limit away (mapping.py:66-68): a limited
\* controller is unlimited only by stopping.
NeverLifted == [][limit # NoLimit /\ limit' = NoLimit => ~up']_nav2Vars

\* Messages that are not the limit now published, by their place in the queue.
Stale == {i \in 1 .. Len(inbox) : inbox[i] # plan.speed}

\* Each delivery brings the limit now published nearer, and neither the host
\* publishing it again nor a full queue that drops messages pushes it back; a
\* queue that has run empty has delivered it (node.py:30-44).
LimitApproaches ==
    [][Publishes(plan) /\ plan' = plan /\ held /\ held' =>
         /\ inbox' = <<>> => limit' = plan.speed
         /\ Deliver /\ Stale = {} => limit' = plan.speed
         /\ \A n \in 0 .. Depth : Stale \subseteq 1 .. n =>
               Stale' \subseteq 1 .. (IF Deliver THEN n - 1 ELSE n)]_nav2Vars

\* A published limit comes into force, however long the queue was and although
\* the host goes on applying, unless another plan replaces it or the controller
\* stops (README of the adapter: apply again after a restart).
LimitsSettle ==
    \A p \in Profiles :
        (plan = MapProfile(p) /\ Publishes(plan) /\ held)
            ~> (limit = MapProfile(p).speed \/ plan # MapProfile(p) \/ ~held)
===============================================================================
