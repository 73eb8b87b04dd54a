--------------------------- MODULE PolicyEvaluation ---------------------------
(***************************************************************************)
(* The SPP 0.1 policy server: it validates one policy bundle at start      *)
(* (evaluator.py: load_policy) and then answers requests, each by its own  *)
(* evaluator or by asking OPA (server.py: decision, policy/spp.rego).      *)
(*                                                                         *)
(* The two loops of the code that need not end, the cycle check over every *)
(* space and the climb from the requested space to the root, are taken one *)
(* iteration at a time.                                                    *)
(*                                                                         *)
(* A rule carries its selectors, its decision and the authorizations it    *)
(* requires; the index of a rule in its space stands for what a decision   *)
(* copies from it (obligations, reason, lifetime).  A selector that may be *)
(* absent is a set of at most one value.  Documents and requests satisfy   *)
(* their JSON schemas.                                                     *)
(***************************************************************************)
EXTENDS Integers, Sequences, FiniteSets

CONSTANTS
    Documents,   \* policies as read from the file
    Requests,    \* decision requests
    Engines,     \* values of SPP_ENGINE: a subset of {"local", "opa"}
    Nowhere,     \* no space: parent = null, matched_space = null
    Alike        \* pairs of JSON values that differ but that Python calls equal

\* Attributes are <<key, value>> pairs.
Pairs(S) == \A e \in S : e = <<e[1], e[2]>>

RuleType(rule) ==
    /\ DOMAIN rule = {"family", "name", "ids", "types", "attributes", "purpose",
                      "emergency", "context", "decision", "requires", "blank"}
    /\ rule.decision \in {"permit", "deny", "conditional"}
    /\ rule.blank \in BOOLEAN     \* its reason is the empty string
    /\ Pairs(rule.attributes) /\ Pairs(rule.context)

SpaceType(space) ==
    /\ DOMAIN space = {"id", "parent", "rules"}
    /\ space.id # Nowhere
    /\ Len(space.rules) \in Nat
    /\ \A i \in 1 .. Len(space.rules) : RuleType(space.rules[i])

ASSUME DocumentsAssumption ==
    \A doc \in Documents : /\ Len(doc.spaces) \in Nat
                           /\ \A i \in 1 .. Len(doc.spaces) : SpaceType(doc.spaces[i])

\* request.schema.json: a request names a concrete action.
ASSUME RequestsAssumption ==
    /\ Requests # {}
    /\ \A r \in Requests : /\ r.name # "*" /\ r.space # Nowhere
                           /\ Pairs(r.attributes) /\ Pairs(r.context)

VARIABLES
    engine, policy,    \* ENGINE and the module-level policy of server.py
    phase,             \* what the server is doing
    index, seen,       \* validate_policy: the space in hand, the ids walked from it
    cursor,            \* the space a loop is at
    request, chain,    \* the request in hand and its policy_chain so far
    answer             \* the last response

policyVars == <<engine, policy, phase, index, seen, cursor, request, chain, answer>>

-----------------------------------------------------------------------------
(* evaluator.py: which rules match a request. *)

Spaces(doc)   == {doc.spaces[i] : i \in 1 .. Len(doc.spaces)}
SpaceIds(doc) == {s.id : s \in Spaces(doc)}
SpaceOf(doc, id) == CHOOSE s \in Spaces(doc) : s.id = id    \* by_id[id]

\* _subset.
Subset(expected, actual) ==
    \A e \in expected : \E a \in actual :
        a[1] = e[1] /\ (a[2] = e[2] \/ <<a[2], e[2]>> \in Alike)

\* What both engines compare alike: action, actor and context but for attributes.
Selects(rule, r) ==
    /\ rule.family = r.family /\ rule.name \in {r.name, "*"}
    /\ rule.ids = {} \/ r.actor \in rule.ids
    /\ rule.types = {} \/ r.type \in rule.types
    /\ \A p \in rule.purpose : r.purpose \in p
    /\ \A e \in rule.emergency : r.emergency = e

Matches(rule, r) ==
    /\ Selects(rule, r)
    /\ Subset(rule.attributes, r.attributes) /\ Subset(rule.context, r.context)

\* spp.rego compares JSON values.
MatchesInRego(rule, r) ==
    /\ Selects(rule, r)
    /\ rule.attributes \subseteq r.attributes /\ rule.context \subseteq r.context

Least(S) == CHOOSE x \in S : \A y \in S : x <= y

\* _matching_rules: the eligible rules of a space with this name.
Named(space, r, name) ==
    {i \in 1 .. Len(space.rules) : Matches(space.rules[i], r) /\ space.rules[i].name = name}

\* Mutant: document order alone decides.
FirstOfAnyName(space, r) == Least(Named(space, r, r.name) \cup Named(space, r, "*"))

\* The first of them, exact names before wildcards.
FirstOf(space, r) ==
    IF Named(space, r, r.name) # {} THEN Least(Named(space, r, r.name))
    ELSE Least(Named(space, r, "*"))

-----------------------------------------------------------------------------
(* From a rule to a decision. *)

\* No rule applies.
Default == [decision |-> "deny", space |-> Nowhere, rule |-> 0, requires |-> {}]

\* A conditional rule permits once nothing it requires is missing; so in
\* evaluate and in resolve of spp.rego.
Core(space, i, r) ==
    LET rule    == space.rules[i]
        missing == rule.requires \ r.authorizations
        waits   == rule.decision = "conditional" /\ missing # {}
    IN  [decision |-> IF rule.decision = "conditional" /\ ~waits
                      THEN "permit" ELSE rule.decision,
         space    |-> space.id, rule |-> i,
         requires |-> IF waits THEN missing ELSE {}]

\* evaluate: the loop over the chain stops at the first space with a match.
Applicable(spaces, r) ==
    {k \in 1 .. Len(spaces) : Named(spaces[k], r, r.name) \cup Named(spaces[k], r, "*") # {}}

Evaluate(spaces, r) ==
    IF Applicable(spaces, r) = {} THEN Default
    ELSE LET nearest == spaces[Least(Applicable(spaces, r))]
         IN  Core(nearest, FirstOf(nearest, r), r)

\* spp.rego: sort all candidates <<space_index, priority, rule_index>>, take the
\* first.
Priority(rule, r) == IF rule.name = r.name THEN 0 ELSE 1

Candidates(spaces, r) ==
    UNION {{<<k, Priority(spaces[k].rules[i], r), i>> :
               i \in {j \in 1 .. Len(spaces[k].rules) : MatchesInRego(spaces[k].rules[j], r)}} :
           k \in 1 .. Len(spaces)}

\* Mutant: the priority of the name is sorted before the space.
PrecedesByName(c, d) ==
    \/ c[2] < d[2]
    \/ c[2] = d[2] /\ (c[1] < d[1] \/ (c[1] = d[1] /\ c[3] <= d[3]))

Precedes(c, d) ==
    \/ c[1] < d[1]
    \/ c[1] = d[1] /\ (c[2] < d[2] \/ (c[2] = d[2] /\ c[3] <= d[3]))

OPACore(spaces, r) ==
    LET found == Candidates(spaces, r)
    IN  IF found = {} THEN Default
        ELSE LET first == CHOOSE c \in found : \A d \in found : Precedes(c, d)
             IN  Core(spaces[first[1]], first[3], r)

\* The decision schema wants a reason.  evaluate appends to the reason of a
\* satisfied conditional rule, spp.rego does not.
Blank(spaces, r, core) ==
    /\ core.space # Nowhere
    /\ LET rule == SpaceOf(policy, core.space).rules[core.rule]
       IN  rule.blank /\ (engine = "local" => ~(rule.decision = "conditional" /\ core.decision = "permit"))

Unprocessable == [decision |-> "422", space |-> Nowhere, rule |-> 0, requires |-> {}]
BadGateway    == [decision |-> "502", space |-> Nowhere, rule |-> 0, requires |-> {}]
NoAnswer      == [decision |-> "none", space |-> Nowhere, rule |-> 0, requires |-> {}]

Finalize(core) == IF Blank(chain, request, core) THEN Unprocessable ELSE core

-----------------------------------------------------------------------------
(* validate_policy, when the server starts. *)

Start ==
    /\ engine \in Engines /\ policy \in Documents
    /\ phase = "loading" /\ index = 1 /\ seen = {} /\ cursor = Nowhere
    /\ request = (CHOOSE r \in Requests : TRUE)    \* any: none is in hand yet
    /\ chain = <<>> /\ answer = NoAnswer

\* Ids are unique, the root is declared and has no parent.
HeaderOK(doc) ==
    /\ \A i, j \in 1 .. Len(doc.spaces) : doc.spaces[i].id = doc.spaces[j].id => i = j
    /\ doc.root \in SpaceIds(doc) /\ SpaceOf(doc, doc.root).parent = Nowhere

LoadPolicy ==
    /\ phase = "loading"
    /\ phase' = IF HeaderOK(policy) THEN "checking" ELSE "failed"
    /\ UNCHANGED <<engine, policy, index, seen, cursor, request, chain, answer>>

\* Mutant: a space without parent is left alone.
ParentKnown(doc, space) == space.parent \in SpaceIds(doc) \cup {Nowhere}

ParentOK(doc, space) ==
    \/ space.parent \in SpaceIds(doc)
    \/ space.parent = Nowhere /\ space.id = doc.root

\* The next space; the server is ready after the last.
CheckSpace ==
    /\ phase = "checking"
    /\ IF index > Len(policy.spaces)
       THEN phase' = "ready" /\ UNCHANGED <<seen, cursor>>
       ELSE IF ParentOK(policy, policy.spaces[index])
            THEN phase' = "walking" /\ seen' = {} /\ cursor' = policy.spaces[index].id
            ELSE phase' = "failed" /\ UNCHANGED <<seen, cursor>>
    /\ UNCHANGED <<engine, policy, index, request, chain, answer>>

\* Mutant: a walk does not look at where it has been.
CycleAt(id) == FALSE

Cycle(id) == id \in seen

\* Mutant: the walk remembers where it goes.
Ahead == seen \cup {SpaceOf(policy, cursor).parent}

Visited == seen \cup {cursor}

\* One step towards the root.  A parent that no space declares, if it is not the
\* space in hand that names it, ends in a KeyError: the server does not start.
WalkUp ==
    /\ phase = "walking"
    /\ IF cursor = Nowhere
       THEN phase' = "checking" /\ index' = index + 1 /\ UNCHANGED <<seen, cursor>>
       ELSE IF Cycle(cursor) \/ cursor \notin SpaceIds(policy)
            THEN phase' = "failed" /\ UNCHANGED <<index, seen, cursor>>
            ELSE /\ seen' = Visited /\ cursor' = SpaceOf(policy, cursor).parent
                 /\ UNCHANGED <<phase, index>>
    /\ UNCHANGED <<engine, policy, request, chain, answer>>

-----------------------------------------------------------------------------
(* server.py: decision. *)

Receive(r) ==
    /\ phase = "ready"
    /\ request' = r /\ chain' = <<>>
    /\ IF r.space \in SpaceIds(policy)
       THEN phase' = "climbing" /\ cursor' = r.space /\ answer' = NoAnswer
       ELSE phase' = "ready" /\ cursor' = Nowhere /\ answer' = Unprocessable
    /\ UNCHANGED <<engine, policy, index, seen>>

\* policy_chain, one space.
Climb ==
    /\ phase = "climbing" /\ cursor # Nowhere
    /\ chain' = Append(chain, SpaceOf(policy, cursor))
    /\ cursor' = SpaceOf(policy, cursor).parent
    /\ UNCHANGED <<engine, policy, phase, index, seen, request, answer>>

AnswerLocally ==
    /\ engine = "local" /\ answer' = Finalize(Evaluate(chain, request))

\* OPA answers, or the call to it fails or times out.
AnswerByOPA ==
    /\ engine = "opa"
    /\ answer' \in {Finalize(OPACore(chain, request)), BadGateway}

Answer ==
    /\ phase = "climbing" /\ cursor = Nowhere
    /\ AnswerLocally \/ AnswerByOPA
    /\ phase' = "ready"
    /\ UNCHANGED <<engine, policy, index, seen, cursor, request, chain>>

Next ==
    \/ LoadPolicy \/ CheckSpace \/ WalkUp
    \/ \E r \in Requests : Receive(r)
    \/ Climb \/ Answer

ServerStep == LoadPolicy \/ CheckSpace \/ WalkUp \/ Climb \/ Answer

\* Code that has started goes on; the call to OPA has a timeout.
Fairness == WF_policyVars(ServerStep)

PolicySpec == Start /\ [][Next]_policyVars /\ Fairness

-----------------------------------------------------------------------------
(* The algorithm of spec/SPP-0.1.md, section 4, without a walk. *)

\* A space and everything above it.
Lineage(doc, id) ==
    {t \in SpaceIds(doc) :
        \A X \in SUBSET SpaceIds(doc) :
            (id \in X /\ \A x \in X : SpaceOf(doc, x).parent \in X \cup {Nowhere}) => t \in X}

\* The rules that match, as <<space, index>>.
Matching(doc, r) ==
    UNION {{<<s, i>> : i \in {j \in 1 .. Len(SpaceOf(doc, s).rules) :
                                 MatchesInRego(SpaceOf(doc, s).rules[j], r)}} :
           s \in Lineage(doc, r.space)}

\* The nearer space, there the exact name, there document order.
Prefers(doc, r, a, b) ==
    LET exact(c) == SpaceOf(doc, c[1]).rules[c[2]].name = r.name
    IN  IF a[1] # b[1] THEN b[1] \in Lineage(doc, a[1])
        ELSE IF exact(a) # exact(b) THEN exact(a) ELSE a[2] <= b[2]

-----------------------------------------------------------------------------
(* Properties. *)

\* Python confuses no value the rule asks for with one the request brings for it.
ToldApart(rule, r) ==
    /\ \A e \in rule.attributes, a \in r.attributes : a[1] = e[1] => <<a[2], e[2]>> \notin Alike
    /\ \A e \in rule.context, a \in r.context : a[1] = e[1] => <<a[2], e[2]>> \notin Alike

\* What the engines' agreement needs of a deployment, FindTrueIsOne shows why.
NoLookalikes ==
    \A r \in Requests, doc \in Documents : \A space \in Spaces(doc) :
        \A i \in 1 .. Len(space.rules) : ToldApart(space.rules[i], r)

\* Types; the seen set and the chain hold spaces of the policy.
PolicyTypeOK ==
    /\ engine \in Engines /\ policy \in Documents /\ request \in Requests
    /\ phase \in {"loading", "failed", "checking", "walking", "ready", "climbing"}
    /\ index \in 1 .. Len(policy.spaces) + 1 /\ seen \subseteq SpaceIds(policy)
    /\ chain \in Seq(Spaces(policy))

\* A server that started serves one tree: from every space the root is reached,
\* so that no request misses the root's rules (spec/SPP-0.1.md, step 3).
ServesTree ==
    phase \in {"ready", "climbing"}
        => \A s \in SpaceIds(policy) : policy.root \in Lineage(policy, s)

\* Whatever is answered, by whichever engine, is what section 4 of the
\* specification says: the nearest matching rule, an exact name before a
\* wildcard, document order; conditional while an authorization is missing, and
\* deny if nothing matches.
FollowsAlgorithm ==
    phase = "ready" /\ answer.decision \in {"permit", "conditional", "deny"} =>
        LET found == Matching(policy, request)
        IN  IF found = {} THEN answer = Default
            ELSE LET s    == answer.space
                     rule == SpaceOf(policy, s).rules[answer.rule]
                     lacks == rule.requires \ request.authorizations
                 IN  /\ <<s, answer.rule>> \in found
                     /\ \A d \in found : Prefers(policy, request, <<s, answer.rule>>, d)
                     /\ answer.decision = "conditional"
                            <=> (rule.decision = "conditional" /\ lacks # {})
                     /\ answer.decision = "deny" <=> rule.decision = "deny"
                     /\ answer.requires = IF answer.decision = "conditional" THEN lacks ELSE {}

\* The Python evaluator and the Rego policy pick the same rule and decide alike
\* on every chain a request leads to (tests/test_opa_parity.py, for one).
EnginesAgree ==
    phase = "climbing" => Evaluate(chain, request) = OPACore(chain, request)

\* What is left to do: stages, spaces to check, spaces the loop in hand may meet.
Left ==
    LET n == Len(policy.spaces) IN
    CASE phase = "loading"  -> <<2, 0, 0>>
      [] phase = "checking" -> <<1, n + 1 - index, n + 1>>
      [] phase = "walking"  -> <<1, n + 1 - index, n - Cardinality(seen)>>
      [] phase = "climbing" -> <<1, 0, n - Len(chain)>>
      [] phase \in {"ready", "failed"} -> <<0, 0, 0>>

Below(m, o) ==
    /\ m \in Nat \X Nat \X Nat
    /\ \/ m[1] < o[1]
       \/ m[1] = o[1] /\ (m[2] < o[2] \/ (m[2] = o[2] /\ m[3] < o[3]))

\* The loops of the server come to an end on every file: no step of one is
\* taken without getting closer to it.  A walk that was let round a cycle, or
\* a climb that met a space twice, would break it (evaluator.py:79,
\* evaluator.py:92).
StepsRunOut == [][ServerStep => Below(Left', Left)]_policyVars

\* The server starts or refuses its policy, and answers what it receives,
\* whatever cycle or gap the file had.
AlwaysAnswers ==
    /\ phase = "loading" ~> phase \in {"ready", "failed"}
    /\ phase = "climbing" ~> phase = "ready"
===============================================================================
