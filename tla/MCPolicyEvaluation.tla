-------------------------- MODULE MCPolicyEvaluation --------------------------
(***************************************************************************)
(* Small instances of PolicyEvaluation.                                    *)
(***************************************************************************)
EXTENDS PolicyEvaluation

Rule(name, decision) ==
    [family |-> "movement", name |-> name, ids |-> {}, types |-> {}, attributes |-> {},
     purpose |-> {}, emergency |-> {}, context |-> {}, decision |-> decision,
     requires |-> IF decision = "conditional" THEN {"escort"} ELSE {}, blank |-> FALSE]

Enter   == Rule("enter", "permit")
Nothing == Rule("*", "deny")
Escorted == Rule("enter", "conditional")

\* Rule lists in which every step of the algorithm decides something: a wildcard
\* before an exact name, two rules of one name, every selector.
RuleLists == {
    <<>>,
    <<Nothing, Enter>>,
    <<[Escorted EXCEPT !.ids = {"r1"}], Rule("enter", "deny")>>,
    <<[Enter EXCEPT !.purpose = {{"delivery"}}, !.emergency = {FALSE}],
      [Rule("*", "conditional") EXCEPT !.types = {"cart"}, !.context = {<<"shift", "day">>}]>>,
    <<[Enter EXCEPT !.attributes = {<<"certified", "true">>}],
      [Escorted EXCEPT !.blank = TRUE, !.purpose = {{"care"}}],
      [Enter EXCEPT !.purpose = {{}}],
      [Nothing EXCEPT !.family = "sensing"]>>}

Space(id, parent, rules) == [id |-> id, parent |-> parent, rules |-> rules]
Ids == {"site", "wing", "room"}

\* The root only answers for deliveries, so that a request may match nothing.
AtRoot == <<[Nothing EXCEPT !.purpose = {{"delivery"}}]>>

\* Every hierarchy of three spaces, right or wrong, with any two of the lists;
\* and a file that declares a space twice or a root it does not have.
Hierarchy(root, wing, room, first, second) ==
    [root |-> "site",
     spaces |-> <<Space("site", root, AtRoot), Space("wing", wing, first),
                  Space("room", room, second)>>]
MCDocuments ==
    {Hierarchy(a, b, c, f, g) : a \in Ids \cup {"none"}, b, c \in Ids \cup {"none", "attic"},
                                f, g \in RuleLists}
    \cup {[root |-> "site", spaces |-> <<Space("site", "none", <<>>), Space("site", "none", <<>>)>>],
          [root |-> "attic", spaces |-> <<Space("site", "none", <<>>)>>]}

Request(space, name, actor, purpose, attributes, authorizations) ==
    [space |-> space, family |-> "movement", name |-> name, actor |-> actor, type |-> "cart",
     purpose |-> purpose, emergency |-> FALSE, attributes |-> attributes,
     context |-> {<<"shift", "day">>}, authorizations |-> authorizations]

MCRequests == {
    Request("room", "enter", "r1", "delivery", {}, {}),
    Request("room", "enter", "r1", "care", {}, {"escort"}),
    Request("room", "leave", "r2", "none", {<<"certified", "true">>}, {}),
    [Request("room", "enter", "r2", "delivery", {<<"certified", "true">>}, {}) EXCEPT !.emergency = TRUE],
    Request("wing", "enter", "r1", "none", {<<"certified", "no">>, <<"level", "1">>}, {"escort"}),
    Request("attic", "enter", "r1", "none", {}, {})}

\* In Python, True == 1.  No request of the above brings one for the other.
TrueIsOne == {<<"1", "true">>, <<"true", "1">>}

\* The finding: a rule for certified actors, and an actor certified as 1.
Certified == {Hierarchy("none", "site", "wing", <<[Enter EXCEPT !.attributes = {<<"certified", "true">>}]>>,
                        <<>>)}
AsOne == {Request("wing", "enter", "r1", "none", {<<"certified", "1">>}, {"escort"})}
===============================================================================
