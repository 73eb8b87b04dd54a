------------------------ MODULE PolicyEvaluation_proofs ------------------------
(***************************************************************************)
(* Proofs about PolicyEvaluation, for any documents and any requests.      *)
(***************************************************************************)
EXTENDS PolicyEvaluation, OrderLemmas, SequenceTheorems

\* The spaces before the one in hand have a parent that exists, and so has the
\* one a walk is at; when the server is ready, all have.
Checked ==
    /\ \A i \in 1 .. Len(policy.spaces) : i < index => ParentOK(policy, policy.spaces[i])
    /\ phase = "walking"
           => index <= Len(policy.spaces) /\ ParentOK(policy, policy.spaces[index])
    /\ phase \in {"ready", "climbing"} => index = Len(policy.spaces) + 1

\* A climb never leaves the policy.
OnChain == phase = "climbing" => cursor \in SpaceIds(policy) \cup {Nowhere}

PolicyInv == PolicyTypeOK /\ Checked /\ OnChain

-----------------------------------------------------------------------------
(* The two engines. *)

\* Where Python confuses no values, both match the same rules.
LEMMA MatchAlike ==
    ASSUME NEW rule, RuleType(rule), NEW r \in Requests, ToldApart(rule, r)
    PROVE  Matches(rule, r) <=> MatchesInRego(rule, r)
<1>1. Pairs(rule.attributes) /\ Pairs(rule.context) /\ Pairs(r.attributes) /\ Pairs(r.context)
  BY RequestsAssumption DEF RuleType
<1>2. ASSUME NEW S, NEW T, Pairs(S), Pairs(T),
             \A e \in S, a \in T : a[1] = e[1] => <<a[2], e[2]>> \notin Alike
      PROVE  Subset(S, T) <=> S \subseteq T
  <2>1. ASSUME Subset(S, T), NEW e \in S
        PROVE  e \in T
    <3>1. PICK a \in T : a[1] = e[1] /\ a[2] = e[2]
      BY <1>2, <2>1 DEF Subset
    <3>2. e = <<e[1], e[2]>> /\ a = <<a[1], a[2]>>
      BY <1>2 DEF Pairs
    <3>3. QED
      BY <3>1, <3>2
  <2>2. S \subseteq T => Subset(S, T)
    BY DEF Subset
  <2>3. QED
    BY <2>1, <2>2
<1>3. QED
  BY <1>1, <1>2 DEF Matches, MatchesInRego, ToldApart

\* Least elements of sets of positions.
LEMMA LeastPosition ==
    ASSUME NEW S \in SUBSET Nat, S # {}
    PROVE  /\ Least(S) \in S /\ Least(S) \in Nat
           /\ \A x \in S : Least(S) <= x
  BY LeastExists DEF Least

\* Where a space has a matching rule, the evaluator's choice is one, and comes
\* first by <<priority, index>> among them.
LEMMA FirstOfIsFirst ==
    ASSUME NEW space, SpaceType(space), NEW r \in Requests,
           Named(space, r, r.name) \cup Named(space, r, "*") # {}
    PROVE  LET f == FirstOf(space, r)
               pr(i) == Priority(space.rules[i], r)
           IN  /\ f \in 1 .. Len(space.rules) /\ Matches(space.rules[f], r)
               /\ \A i \in 1 .. Len(space.rules) :
                     Matches(space.rules[i], r)
                         => pr(f) < pr(i) \/ (pr(f) = pr(i) /\ f <= i)
<1>0. /\ Len(space.rules) \in Nat /\ r.name # "*"
      /\ Named(space, r, r.name) \in SUBSET Nat /\ Named(space, r, "*") \in SUBSET Nat
  BY RequestsAssumption, SMT DEF SpaceType, Named
<1>1. \A i \in 1 .. Len(space.rules) :
          Matches(space.rules[i], r) => space.rules[i].name \in {r.name, "*"}
  BY DEF Matches, Selects
<1>2. CASE Named(space, r, r.name) # {}
  <2>1. /\ FirstOf(space, r) \in Named(space, r, r.name)
        /\ \A i \in Named(space, r, r.name) : FirstOf(space, r) <= i
    BY <1>0, <1>2, LeastPosition DEF FirstOf
  <2>2. QED
    BY <1>0, <1>1, <2>1, SMT DEF Named, Priority
<1>3. CASE Named(space, r, r.name) = {}
  <2>1. /\ FirstOf(space, r) \in Named(space, r, "*")
        /\ \A i \in Named(space, r, "*") : FirstOf(space, r) <= i
    BY <1>0, <1>3, LeastPosition DEF FirstOf
  <2>2. QED
    BY <1>0, <1>1, <1>3, <2>1, SMT DEF Named, Priority
<1>4. QED
  BY <1>2, <1>3

\* Over any chain of spaces, the loop of evaluate and the sort of spp.rego take
\* the same rule.
LEMMA PicksAgree ==
    ASSUME NEW spaces, Len(spaces) \in Nat, NEW r \in Requests,
           \A k \in 1 .. Len(spaces) :
              /\ SpaceType(spaces[k])
              /\ \A i \in 1 .. Len(spaces[k].rules) : ToldApart(spaces[k].rules[i], r)
    PROVE  Evaluate(spaces, r) = OPACore(spaces, r)
<1> DEFINE Hit(k) == Named(spaces[k], r, r.name) \cup Named(spaces[k], r, "*")
           found  == Candidates(spaces, r)
           near   == Applicable(spaces, r)
<1>1. \A k \in 1 .. Len(spaces) : \A i \in 1 .. Len(spaces[k].rules) :
          MatchesInRego(spaces[k].rules[i], r) <=> Matches(spaces[k].rules[i], r)
  BY MatchAlike DEF SpaceType
<1>2. \A k \in 1 .. Len(spaces) :
          Hit(k) = {i \in 1 .. Len(spaces[k].rules) : Matches(spaces[k].rules[i], r)}
  BY DEF Named, Matches, Selects
<1>3. \A d : d \in found <=>
          \E k \in 1 .. Len(spaces) : \E i \in Hit(k) :
              d = <<k, Priority(spaces[k].rules[i], r), i>>
  <2> DEFINE G(k) == {j \in 1 .. Len(spaces[k].rules) : MatchesInRego(spaces[k].rules[j], r)}
  <2>1. \A k \in 1 .. Len(spaces) : G(k) = Hit(k)
    BY <1>1, <1>2
  <2>2. found = UNION {{<<k, Priority(spaces[k].rules[i], r), i>> : i \in G(k)} :
                       k \in 1 .. Len(spaces)}
    BY DEF Candidates
  <2>3. \A d : d \in found <=>
            \E k \in 1 .. Len(spaces) : \E i \in G(k) :
                d = <<k, Priority(spaces[k].rules[i], r), i>>
    <3> HIDE DEF G, found
    <3> QED
      BY <2>2, SMT
  <2> HIDE DEF G, Hit, found
  <2>4. QED
    BY <2>1, <2>3
<1>4. near = {k \in 1 .. Len(spaces) : Hit(k) # {}}
  BY DEF Applicable
<1>5. CASE near = {}
  <2>1. found = {}
    BY <1>3, <1>4, <1>5
  <2>2. QED
    BY <1>5, <2>1 DEF Evaluate, OPACore
<1>6. CASE near # {}
  <2> DEFINE m == Least(near)
             f == FirstOf(spaces[m], r)
             c == <<m, Priority(spaces[m].rules[f], r), f>>
  <2>1. m \in near /\ m \in 1 .. Len(spaces) /\ \A k \in near : m <= k
    <3>1. near \in SUBSET Nat
      BY <1>4, SMT
    <3>2. QED
      BY <1>4, <1>6, <3>1, LeastPosition
  <2>2. /\ f \in Hit(m) /\ f \in Nat
        /\ \A i \in Hit(m) :
              \/ Priority(spaces[m].rules[f], r) < Priority(spaces[m].rules[i], r)
              \/ Priority(spaces[m].rules[f], r) = Priority(spaces[m].rules[i], r) /\ f <= i
    <3>1. SpaceType(spaces[m]) /\ Hit(m) # {}
      BY <1>4, <2>1
    <3>2. Len(spaces[m].rules) \in Nat
      BY <3>1 DEF SpaceType
    <3>3. /\ f \in 1 .. Len(spaces[m].rules) /\ Matches(spaces[m].rules[f], r)
          /\ \A i \in 1 .. Len(spaces[m].rules) : Matches(spaces[m].rules[i], r) =>
                \/ Priority(spaces[m].rules[f], r) < Priority(spaces[m].rules[i], r)
                \/ Priority(spaces[m].rules[f], r) = Priority(spaces[m].rules[i], r) /\ f <= i
      BY <3>1, FirstOfIsFirst
    <3>4. QED
      BY <1>2, <2>1, <3>2, <3>3, SMT
  <2>3. c \in found
    BY <1>3, <2>1, <2>2
  <2>4. \A d \in found : Precedes(c, d)
    <3> SUFFICES ASSUME NEW d \in found PROVE Precedes(c, d)
      OBVIOUS
    <3>1. PICK k \in 1 .. Len(spaces) : \E i \in Hit(k) :
              d = <<k, Priority(spaces[k].rules[i], r), i>>
      BY <1>3
    <3>0. PICK i \in Hit(k) : d = <<k, Priority(spaces[k].rules[i], r), i>>
      BY <3>1
    <3>2. k \in near /\ m <= k
      BY <1>4, <2>1, <3>0
    <3>3. CASE m = k
      BY <2>1, <2>2, <3>0, <3>3, SMT DEF Precedes
    <3>4. CASE m # k
      <4>1. m < k
        BY <2>1, <3>2, <3>4, SMT
      <4>2. QED
        BY <3>0, <4>1 DEF Precedes
    <3>5. QED
      BY <3>3, <3>4
  <2>5. \A d \in found : Precedes(d, c) => d[1] = m /\ d[3] = f
    <3> SUFFICES ASSUME NEW d \in found, Precedes(d, c)
                 PROVE  d[1] = m /\ d[3] = f
      OBVIOUS
    <3>1. PICK k \in 1 .. Len(spaces) : \E i \in Hit(k) :
              d = <<k, Priority(spaces[k].rules[i], r), i>>
      BY <1>3
    <3>0. PICK i \in Hit(k) : d = <<k, Priority(spaces[k].rules[i], r), i>>
      BY <3>1
    <3>2. i \in Nat /\ Priority(spaces[k].rules[i], r) \in {0, 1}
                    /\ Priority(spaces[m].rules[f], r) \in {0, 1}
      BY <1>2, <3>0, SMT DEF Priority, SpaceType
    <3>3. Precedes(c, d)
      BY <2>4
    <3>4. QED
      BY <2>1, <2>2, <3>0, <3>2, <3>3, SMT DEF Precedes
  <2> HIDE DEF found, c, m, f, near
  <2>6. LET first == CHOOSE d \in found : \A e \in found : Precedes(d, e)
        IN  first[1] = m /\ first[3] = f
    BY <2>3, <2>4, <2>5, Zenon
  <2>7. found # {}
    BY <2>3
  <2>8. OPACore(spaces, r) = Core(spaces[m], f, r)
    BY <2>6, <2>7, Zenon DEF OPACore, found
  <2>9. Evaluate(spaces, r) = Core(spaces[m], f, r)
    BY <1>6 DEF Evaluate, near, m, f
  <2>10. QED
    BY <2>8, <2>9
<1>7. QED
  BY <1>5, <1>6

\* EnginesAgree in every state, as a climb only collects spaces of the policy.
LEMMA AgreeOnChains ==
    ASSUME NoLookalikes, PolicyTypeOK
    PROVE  EnginesAgree
<1>1. /\ Len(policy.spaces) \in Nat
      /\ \A s \in Spaces(policy) : SpaceType(s)
  BY DocumentsAssumption DEF PolicyTypeOK, Spaces
<1>2. /\ Len(chain) \in Nat
      /\ \A k \in 1 .. Len(chain) : chain[k] \in Spaces(policy) /\ SpaceType(chain[k])
  BY <1>1, LenProperties, ElementOfSeq DEF PolicyTypeOK
<1>3. \A k \in 1 .. Len(chain) : \A i \in 1 .. Len(chain[k].rules) :
         ToldApart(chain[k].rules[i], request)
  BY <1>2 DEF NoLookalikes, PolicyTypeOK
<1>4. QED
  BY <1>2, <1>3, PicksAgree DEF EnginesAgree, PolicyTypeOK

-----------------------------------------------------------------------------
(* Validation. *)

\* A declared id names a space of the policy.
LEMMA SpaceFound ==
    ASSUME NEW doc, NEW id \in SpaceIds(doc)
    PROVE  SpaceOf(doc, id) \in Spaces(doc) /\ SpaceOf(doc, id).id = id
  BY DEF SpaceIds, SpaceOf

\* What the loop has checked holds of every space once it is through.
LEMMA ParentsExist ==
    ASSUME PolicyTypeOK, Checked, phase \in {"ready", "climbing"}, NEW s \in Spaces(policy)
    PROVE  s.parent \in SpaceIds(policy) \cup {Nowhere}
<1>1. PICK i \in 1 .. Len(policy.spaces) : s = policy.spaces[i]
  BY DEF Spaces
<1>2. Len(policy.spaces) \in Nat
  BY DocumentsAssumption DEF PolicyTypeOK
<1>3. i < index
  BY <1>1, <1>2, SMT DEF Checked
<1>4. QED
  BY <1>1, <1>3 DEF Checked, ParentOK

\* The invariant holds before the policy is read.
LEMMA PolicyStart == Start => PolicyInv
<1> SUFFICES ASSUME Start PROVE PolicyInv
  OBVIOUS
<1>1. Len(policy.spaces) \in Nat
  BY DocumentsAssumption DEF Start
<1>2. index \in 1 .. Len(policy.spaces) + 1
  BY <1>1, SMT DEF Start
<1>3. request \in Requests
  BY RequestsAssumption DEF Start
<1>4. PolicyTypeOK
  BY <1>2, <1>3, EmptySeq DEF Start, PolicyTypeOK
<1>5. Checked /\ OnChain
  BY <1>1, SMT DEF Start, Checked, OnChain
<1>6. QED
  BY <1>4, <1>5 DEF PolicyInv

\* Every step of validation and of an answer keeps it.
LEMMA PolicyStep == PolicyInv /\ [Next]_policyVars => PolicyInv'
<1> SUFFICES ASSUME PolicyInv, [Next]_policyVars
             PROVE  PolicyInv'
  OBVIOUS
<1>0. /\ PolicyTypeOK /\ Checked /\ OnChain
      /\ Len(policy.spaces) \in Nat
      /\ index \in Nat
  BY DocumentsAssumption, SMT DEF PolicyInv, PolicyTypeOK
<1>1. CASE LoadPolicy
  BY <1>0, <1>1 DEF LoadPolicy, PolicyInv, PolicyTypeOK, Checked, OnChain
<1>2. CASE CheckSpace
  <2>1. UNCHANGED <<engine, policy, index, request, chain, answer>> /\ phase = "checking"
    BY <1>2 DEF CheckSpace
  <2>2. CASE index > Len(policy.spaces)
    <3>1. phase' = "ready" /\ UNCHANGED <<seen, cursor>> /\ index = Len(policy.spaces) + 1
      BY <1>0, <1>2, <2>2, SMT DEF CheckSpace, PolicyTypeOK
    <3>2. QED
      BY <1>0, <2>1, <3>1 DEF PolicyInv, PolicyTypeOK, Checked, OnChain
  <2>3. CASE index <= Len(policy.spaces) /\ ParentOK(policy, policy.spaces[index])
    <3>1. phase' = "walking" /\ seen' = {}
      BY <1>0, <1>2, <2>3, SMT DEF CheckSpace
    <3>2. QED
      BY <1>0, <2>1, <2>3, <3>1 DEF PolicyInv, PolicyTypeOK, Checked, OnChain
  <2>4. CASE index <= Len(policy.spaces) /\ ~ParentOK(policy, policy.spaces[index])
    <3>1. phase' = "failed" /\ UNCHANGED <<seen, cursor>>
      BY <1>0, <1>2, <2>4, SMT DEF CheckSpace
    <3>2. QED
      BY <1>0, <2>1, <3>1 DEF PolicyInv, PolicyTypeOK, Checked, OnChain
  <2>5. QED
    BY <1>0, <2>2, <2>3, <2>4, SMT
<1>3. CASE WalkUp
  <2>1. UNCHANGED <<engine, policy, request, chain, answer>> /\ phase = "walking"
    BY <1>3 DEF WalkUp
  <2>2. CASE cursor = Nowhere
    <3>1. phase' = "checking" /\ index' = index + 1 /\ UNCHANGED <<seen, cursor>>
      BY <1>3, <2>2 DEF WalkUp
    <3>2. /\ index' \in 1 .. Len(policy.spaces) + 1
          /\ \A i \in 1 .. Len(policy.spaces) : i < index' => i < index \/ i = index
      BY <1>0, <2>1, <3>1, SMT DEF Checked
    <3>3. QED
      BY <1>0, <2>1, <3>1, <3>2 DEF PolicyInv, PolicyTypeOK, Checked, OnChain
  <2>3. CASE cursor # Nowhere /\ (Cycle(cursor) \/ cursor \notin SpaceIds(policy))
    <3>1. phase' = "failed" /\ UNCHANGED <<index, seen, cursor>>
      BY <1>3, <2>3 DEF WalkUp
    <3>2. QED
      BY <1>0, <2>1, <3>1 DEF PolicyInv, PolicyTypeOK, Checked, OnChain
  <2>4. CASE cursor # Nowhere /\ ~(Cycle(cursor) \/ cursor \notin SpaceIds(policy))
    <3>1. seen' = seen \cup {cursor} /\ UNCHANGED <<phase, index>> /\ cursor \in SpaceIds(policy)
      BY <1>3, <2>4 DEF WalkUp, Visited
    <3>2. QED
      BY <1>0, <2>1, <3>1 DEF PolicyInv, PolicyTypeOK, Checked, OnChain
  <2>5. QED
    BY <2>2, <2>3, <2>4
<1>4. ASSUME NEW r \in Requests, Receive(r)
      PROVE  PolicyInv'
  <2>1. /\ phase = "ready" /\ phase' \in {"ready", "climbing"}
        /\ request' = r /\ chain' = <<>>
        /\ phase' = "climbing" => cursor' \in SpaceIds(policy)
        /\ UNCHANGED <<engine, policy, index, seen>>
    BY <1>4 DEF Receive
  <2>2. chain' \in Seq(Spaces(policy'))
    BY <2>1, EmptySeq
  <2>3. QED
    BY <1>0, <2>1, <2>2 DEF PolicyInv, PolicyTypeOK, Checked, OnChain
<1>5. CASE Climb
  <2>1. /\ phase = "climbing" /\ cursor \in SpaceIds(policy)
        /\ chain' = Append(chain, SpaceOf(policy, cursor))
        /\ cursor' = SpaceOf(policy, cursor).parent
        /\ UNCHANGED <<engine, policy, phase, index, seen, request, answer>>
    BY <1>0, <1>5 DEF Climb, OnChain
  <2>2. SpaceOf(policy, cursor) \in Spaces(policy)
    BY <2>1, SpaceFound
  <2>3. chain' \in Seq(Spaces(policy))
    BY <1>0, <2>1, <2>2, AppendProperties DEF PolicyTypeOK
  <2>4. cursor' \in SpaceIds(policy) \cup {Nowhere}
    BY <1>0, <2>1, <2>2, ParentsExist
  <2>5. QED
    BY <1>0, <2>1, <2>3, <2>4 DEF PolicyInv, PolicyTypeOK, Checked, OnChain
<1>6. CASE Answer
  BY <1>0, <1>6 DEF Answer, PolicyInv, PolicyTypeOK, Checked, OnChain
<1>7. CASE UNCHANGED policyVars
  BY <1>0, <1>7 DEF policyVars, PolicyInv, PolicyTypeOK, Checked, OnChain
<1>8. QED
  BY <1>1, <1>2, <1>3, <1>4, <1>5, <1>6, <1>7 DEF Next

\* The inductive invariant: validation has made every lookup of the climb safe.
THEOREM PolicyInvariant == PolicySpec => []PolicyInv
  BY PolicyStart, PolicyStep, PTL DEF PolicySpec

\* PolicyTypeOK, and with it: a chain holds spaces of the policy and nothing else.
THEOREM PolicyTypeCorrect == PolicySpec => []PolicyTypeOK
<1>1. PolicyInv => PolicyTypeOK
  BY DEF PolicyInv
<1>2. QED
  BY <1>1, PolicyInvariant, PTL

\* EnginesAgree for any policy and any request, as long as no rule asks for
\* a value and no request brings one that differ in JSON and are equal in Python.
THEOREM EnginesAlwaysAgree ==
    ASSUME NoLookalikes
    PROVE  PolicySpec => []EnginesAgree
<1>1. PolicyInv => EnginesAgree
  BY AgreeOnChains DEF PolicyInv
<1>2. QED
  BY <1>1, PolicyInvariant, PTL

-----------------------------------------------------------------------------
(* One tree. *)

Parentless(id) == SpaceOf(policy, id).parent = Nowhere

\* Above every checked space there is one without a parent; a walk stays above
\* the space it started from, and has met one when it ends.
Rooted ==
    /\ \A i \in 1 .. Len(policy.spaces) : i < index =>
           \E t \in Lineage(policy, policy.spaces[i].id) : Parentless(t)
    /\ phase = "walking" =>
           LET above == Lineage(policy, policy.spaces[index].id)
           IN  /\ seen \subseteq above
               /\ cursor \in SpaceIds(policy) => cursor \in above
               /\ cursor = Nowhere => \E t \in seen : Parentless(t)

\* A lineage holds the space itself, and with a space its parent.
LEMMA LineageClosed ==
    ASSUME NEW doc, NEW id \in SpaceIds(doc)
    PROVE  /\ id \in Lineage(doc, id)
           /\ \A t \in Lineage(doc, id) :
                 SpaceOf(doc, t).parent \in SpaceIds(doc) \ {Nowhere}
                     => SpaceOf(doc, t).parent \in Lineage(doc, id)
  BY Zenon DEF Lineage

\* Validation keeps Rooted.
LEMMA RootedStep == PolicyInv /\ Rooted /\ [Next]_policyVars => Rooted'
<1> SUFFICES ASSUME PolicyInv, Rooted, [Next]_policyVars
             PROVE  Rooted'
  OBVIOUS
<1>0. /\ Len(policy.spaces) \in Nat /\ index \in Nat /\ policy' = policy
      /\ \A s \in Spaces(policy) : s.id # Nowhere
  <2>1. policy \in Documents /\ index \in 1 .. Len(policy.spaces) + 1
    BY DEF PolicyInv, PolicyTypeOK
  <2>2. policy' = policy
    BY DEF Next, LoadPolicy, CheckSpace, WalkUp, Receive, Climb, Answer, policyVars
  <2>3. /\ Len(policy.spaces) \in Nat
        /\ \A s \in Spaces(policy) : s.id # Nowhere
    BY <2>1, DocumentsAssumption DEF Spaces, SpaceType
  <2>4. index \in Nat
    BY <2>1, <2>3, SMT
  <2>5. QED
    BY <2>2, <2>3, <2>4
<1>1. CASE CheckSpace
  <2>1. index' = index /\ (phase' = "walking" => /\ seen' = {} /\ index \in 1 .. Len(policy.spaces)
                                                /\ cursor' = policy.spaces[index].id)
    BY <1>0, <1>1, SMT DEF CheckSpace, PolicyInv, PolicyTypeOK
  <2>2. phase' = "walking" => /\ cursor' \in Lineage(policy, policy.spaces[index].id)
                              /\ cursor' # Nowhere
    BY <1>0, <2>1, LineageClosed DEF SpaceIds, Spaces
  <2>3. QED
    BY <1>0, <2>1, <2>2 DEF Rooted, Parentless
<1>2. CASE WalkUp
  <2> DEFINE above == Lineage(policy, policy.spaces[index].id)
  <2>1. phase = "walking" /\ index \in 1 .. Len(policy.spaces)
    BY <1>0, <1>2, SMT DEF WalkUp, PolicyInv, Checked, PolicyTypeOK
  <2>2. CASE cursor = Nowhere
    <3>1. phase' = "checking" /\ index' = index + 1
      BY <1>2, <2>2 DEF WalkUp
    <3>2. \E t \in above : Parentless(t)
      BY <2>1, <2>2 DEF Rooted
    <3>3. \A i \in 1 .. Len(policy.spaces) : i < index' => i < index \/ i = index
      BY <1>0, <3>1, SMT
    <3>4. QED
      BY <1>0, <3>1, <3>2, <3>3 DEF Rooted, Parentless
  <2>3. CASE cursor # Nowhere /\ (Cycle(cursor) \/ cursor \notin SpaceIds(policy))
    <3>1. phase' = "failed" /\ index' = index
      BY <1>2, <2>3 DEF WalkUp
    <3>2. QED
      BY <1>0, <3>1 DEF Rooted, Parentless
  <2>4. CASE cursor # Nowhere /\ ~(Cycle(cursor) \/ cursor \notin SpaceIds(policy))
    <3>1. /\ seen' = seen \cup {cursor} /\ phase' = phase /\ index' = index
          /\ cursor \in SpaceIds(policy) /\ cursor' = SpaceOf(policy, cursor).parent
      BY <1>2, <2>4 DEF WalkUp, Visited
    <3>2. seen \subseteq above /\ cursor \in above
      BY <2>1, <3>1 DEF Rooted
    <3>3. policy.spaces[index].id \in SpaceIds(policy)
      BY <2>1 DEF SpaceIds, Spaces
    <3>4. cursor' \in SpaceIds(policy) => cursor' \in above
      <4>1. \A x \in SpaceIds(policy) : x # Nowhere
        BY <1>0 DEF SpaceIds
      <4>2. QED
        BY <3>1, <3>2, <3>3, <4>1, LineageClosed
    <3>5. cursor' = Nowhere => Parentless(cursor)
      BY <3>1 DEF Parentless
    <3> HIDE DEF above
    <3>6. seen' \subseteq above /\ (cursor' = Nowhere => \E t \in seen' : Parentless(t))
      BY <3>1, <3>2, <3>5
    <3> USE DEF above
    <3>7. QED
      BY <1>0, <3>1, <3>4, <3>6 DEF Rooted, Parentless
  <2>5. QED
    BY <2>2, <2>3, <2>4
<1>3. CASE LoadPolicy
  BY <1>0, <1>3 DEF LoadPolicy, Rooted, Parentless
<1>4. ASSUME NEW r \in Requests, Receive(r)
      PROVE  Rooted'
  BY <1>0, <1>4 DEF Receive, Rooted, Parentless
<1>5. CASE Climb
  BY <1>0, <1>5 DEF Climb, Rooted, Parentless
<1>6. CASE Answer
  BY <1>0, <1>6 DEF Answer, Rooted, Parentless
<1>7. CASE UNCHANGED policyVars
  BY <1>0, <1>7 DEF policyVars, Rooted, Parentless
<1>8. QED
  BY <1>1, <1>2, <1>3, <1>4, <1>5, <1>6, <1>7 DEF Next

\* A server that runs has checked every space, and the only one allowed to have
\* no parent is the root.
LEMMA RootAbove ==
    ASSUME PolicyInv, Rooted
    PROVE  ServesTree
<1> SUFFICES ASSUME phase \in {"ready", "climbing"}, NEW s \in SpaceIds(policy)
             PROVE  policy.root \in Lineage(policy, s)
  BY DEF ServesTree
<1>1. Len(policy.spaces) \in Nat /\ index = Len(policy.spaces) + 1
  BY DocumentsAssumption DEF PolicyInv, PolicyTypeOK, Checked
<1>2. PICK i \in 1 .. Len(policy.spaces) : policy.spaces[i].id = s
  BY DEF SpaceIds, Spaces
<1>3. PICK t \in Lineage(policy, s) : Parentless(t)
  BY <1>1, <1>2, SMT DEF Rooted
<1>4. SpaceOf(policy, t) \in Spaces(policy) /\ SpaceOf(policy, t).id = t
  BY SpaceFound DEF Lineage
<1>5. PICK j \in 1 .. Len(policy.spaces) : policy.spaces[j] = SpaceOf(policy, t)
  BY <1>4 DEF Spaces
<1>6. ParentOK(policy, SpaceOf(policy, t))
  BY <1>1, <1>5, SMT DEF PolicyInv, Checked
<1>7. Nowhere \notin SpaceIds(policy)
  BY DocumentsAssumption DEF PolicyInv, PolicyTypeOK, SpaceIds, Spaces, SpaceType
<1>8. t = policy.root
  BY <1>3, <1>4, <1>6, <1>7 DEF ParentOK, Parentless
<1>9. QED
  BY <1>3, <1>8

\* ServesTree: whatever hierarchy the file described, one that is served is a
\* tree under the declared root.
THEOREM ServedPolicyIsTree == PolicySpec => []ServesTree
<1>1. Start => Rooted
  BY DocumentsAssumption, SMT DEF Start, Rooted
<1>2. PolicyInv /\ Rooted => ServesTree
  BY RootAbove
<1>3. QED
  BY <1>1, <1>2, PolicyInvariant, RootedStep, PTL DEF PolicySpec

-----------------------------------------------------------------------------
(* The algorithm of the specification. *)

\* The chain is the path from the requested space to the cursor.
Climbed ==
    phase = "climbing" =>
        /\ IF Len(chain) = 0 THEN cursor = request.space
           ELSE chain[1].id = request.space /\ chain[Len(chain)].parent = cursor
        /\ \A k \in 1 .. Len(chain) :
              /\ chain[k] = SpaceOf(policy, chain[k].id)
              /\ k < Len(chain) => chain[k].parent = chain[k + 1].id
              /\ \A j \in 1 .. Len(chain) :
                    k <= j => chain[j].id \in Lineage(policy, chain[k].id)

\* Before the first request nothing has been answered.
Silent == phase \in {"loading", "failed", "checking", "walking"} => answer = NoAnswer

\* The inductive invariant: the path, and what every answer took from it.
FollowsInv == Climbed /\ Silent /\ FollowsAlgorithm

\* A climb that takes one more space keeps the path.
LEMMA ClimbedOn ==
    ASSUME PolicyInv, Climbed, Climb
    PROVE  Climbed'
<1> DEFINE n == Len(chain)
           top == SpaceOf(policy, cursor)
<1>1. /\ phase = "climbing" /\ cursor \in SpaceIds(policy)
      /\ chain' = Append(chain, top) /\ cursor' = top.parent
      /\ UNCHANGED <<policy, phase, request>>
  BY DEF Climb, PolicyInv, OnChain
<1>2. top \in Spaces(policy) /\ top.id = cursor
  BY <1>1, SpaceFound
<1>3. chain \in Seq(Spaces(policy)) /\ n \in Nat
  BY LenProperties DEF PolicyInv, PolicyTypeOK
<1>4. /\ Len(chain') = n + 1 /\ chain'[n + 1] = top
      /\ \A k \in 1 .. n : chain'[k] = chain[k]
  BY <1>1, <1>2, <1>3, AppendProperties
<1>5. \A k \in 1 .. n : chain[k].id \in SpaceIds(policy)
  BY <1>3, ElementOfSeq DEF SpaceIds
<1>6. \A id \in SpaceIds(policy) : id # Nowhere
  BY DocumentsAssumption DEF PolicyInv, PolicyTypeOK, SpaceIds, Spaces, SpaceType
<1>7. \A k \in 1 .. n : cursor \in Lineage(policy, chain[k].id)
  <2> SUFFICES ASSUME NEW k \in 1 .. n PROVE cursor \in Lineage(policy, chain[k].id)
    OBVIOUS
  <2>1. n \in 1 .. n /\ k <= n /\ n # 0
    BY <1>3, SMT
  <2>2. chain[n].id \in Lineage(policy, chain[k].id)
    BY <1>1, <2>1 DEF Climbed
  <2>3. chain[n] = SpaceOf(policy, chain[n].id) /\ chain[n].parent = cursor
    BY <1>1, <2>1 DEF Climbed
  <2> QED
    BY <1>1, <1>5, <1>6, <2>2, <2>3, LineageClosed
<1>8. cursor \in Lineage(policy, cursor)
  BY <1>1, LineageClosed
<1>9. chain'[1].id = request.space
  <2>1. CASE n = 0
    BY <1>1, <1>2, <1>4, <2>1 DEF Climbed
  <2>2. CASE n # 0
    <3>1. 1 \in 1 .. n
      BY <1>3, <2>2, SMT
    <3> QED
      BY <1>1, <1>4, <2>2, <3>1 DEF Climbed
  <2> QED
    BY <2>1, <2>2
<1>10. ASSUME NEW k \in 1 .. n + 1
       PROVE  /\ chain'[k] = SpaceOf(policy, chain'[k].id)
              /\ k < n + 1 => chain'[k].parent = chain'[k + 1].id
              /\ \A j \in 1 .. n + 1 : k <= j => chain'[j].id \in Lineage(policy, chain'[k].id)
  <2>1. CASE k = n + 1
    <3>1. \A j \in 1 .. n + 1 : k <= j => j = n + 1
      BY <1>3, <2>1, SMT
    <3>2. ~(k < n + 1)
      BY <1>3, <2>1, SMT
    <3> QED
      BY <1>2, <1>4, <1>8, <2>1, <3>1, <3>2
  <2>2. CASE k # n + 1
    <3>1. k \in 1 .. n /\ n # 0
      BY <1>3, <2>2, SMT
    <3>2. chain[k] = SpaceOf(policy, chain[k].id)
      BY <1>1, <3>1 DEF Climbed
    <3>3. chain'[k].parent = chain'[k + 1].id
      <4>1. CASE k = n
        BY <1>1, <1>2, <1>4, <3>1, <4>1 DEF Climbed
      <4>2. CASE k # n
        <5>1. k < n /\ k + 1 \in 1 .. n
          BY <1>3, <3>1, <4>2, SMT
        <5> QED
          BY <1>1, <1>4, <3>1, <5>1 DEF Climbed
      <4> QED
        BY <4>1, <4>2
    <3>4. ASSUME NEW j \in 1 .. n + 1, k <= j
          PROVE  chain'[j].id \in Lineage(policy, chain'[k].id)
      <4>1. j = n + 1 \/ j \in 1 .. n
        BY <1>3, SMT
      <4> QED
        BY <1>1, <1>2, <1>4, <1>7, <3>1, <3>4, <4>1 DEF Climbed
    <3> QED
      BY <1>4, <3>1, <3>2, <3>3, <3>4
  <2> QED
    BY <2>1, <2>2
<1>11. n + 1 # 0
  BY <1>3, SMT
<1> HIDE DEF n, top
<1> QED
  BY <1>1, <1>4, <1>9, <1>10, <1>11 DEF Climbed

\* At its end the path is the lineage of the requested space.
LEMMA PathIsLineage ==
    ASSUME PolicyInv, Climbed, phase = "climbing", cursor = Nowhere
    PROVE  Lineage(policy, request.space) = {chain[k].id : k \in 1 .. Len(chain)}
<1> DEFINE ids == {chain[k].id : k \in 1 .. Len(chain)}
<1>1. chain \in Seq(Spaces(policy)) /\ Len(chain) \in Nat /\ request.space # Nowhere
  BY LenProperties, RequestsAssumption DEF PolicyInv, PolicyTypeOK
<1>2. Len(chain) # 0 /\ chain[1].id = request.space /\ chain[Len(chain)].parent = Nowhere
  BY <1>1 DEF Climbed
<1>3. 1 \in 1 .. Len(chain)
  BY <1>1, <1>2, SMT
<1>4. ids \subseteq Lineage(policy, request.space)
  <2>1. \A k \in 1 .. Len(chain) : 1 <= k
    BY <1>1, SMT
  <2> QED
    BY <1>2, <1>3, <2>1 DEF Climbed
<1>5. ids \subseteq SpaceIds(policy)
  BY <1>1, ElementOfSeq DEF SpaceIds
<1>6. request.space \in ids
  BY <1>2, <1>3
<1>7. ASSUME NEW x \in ids
      PROVE  SpaceOf(policy, x).parent \in ids \cup {Nowhere}
  <2>1. PICK k \in 1 .. Len(chain) : x = chain[k].id
    OBVIOUS
  <2>2. chain[k] = SpaceOf(policy, x)
    BY <2>1 DEF Climbed
  <2>3. k = Len(chain) \/ (k < Len(chain) /\ k + 1 \in 1 .. Len(chain))
    BY <1>1, SMT
  <2>4. k < Len(chain) => chain[k].parent = chain[k + 1].id
    BY DEF Climbed
  <2> QED
    BY <1>2, <2>2, <2>3, <2>4
<1> HIDE DEF ids
<1>8. Lineage(policy, request.space) \subseteq ids
  BY <1>5, <1>6, <1>7, Zenon DEF Lineage
<1> QED
  BY <1>4, <1>8 DEF ids

\* What FollowsAlgorithm says of an answer.
Follows(core) ==
    LET found == Matching(policy, request)
    IN  IF found = {} THEN core = Default
        ELSE LET s    == core.space
                 rule == SpaceOf(policy, s).rules[core.rule]
                 lacks == rule.requires \ request.authorizations
             IN  /\ <<s, core.rule>> \in found
                 /\ \A d \in found : Prefers(policy, request, <<s, core.rule>>, d)
                 /\ core.decision = "conditional"
                        <=> (rule.decision = "conditional" /\ lacks # {})
                 /\ core.decision = "deny" <=> rule.decision = "deny"
                 /\ core.requires = IF core.decision = "conditional" THEN lacks ELSE {}

\* The matching rules of the specification are those of the spaces on the path.
LEMMA MatchingOnPath ==
    ASSUME NoLookalikes, PolicyInv, Climbed, phase = "climbing", cursor = Nowhere
    PROVE  /\ \A k \in 1 .. Len(chain) : SpaceType(chain[k])
           /\ \A d : d \in Matching(policy, request) <=>
                 \E k \in 1 .. Len(chain) : \E i \in 1 .. Len(chain[k].rules) :
                     Matches(chain[k].rules[i], request) /\ d = <<chain[k].id, i>>
<1> DEFINE G(s) == {j \in 1 .. Len(SpaceOf(policy, s).rules) :
                       MatchesInRego(SpaceOf(policy, s).rules[j], request)}
<1>1. \A k \in 1 .. Len(chain) : SpaceType(chain[k])
  BY DocumentsAssumption, LenProperties, ElementOfSeq DEF PolicyInv, PolicyTypeOK, Spaces
<1>2. \A k \in 1 .. Len(chain) :
          G(chain[k].id) = {i \in 1 .. Len(chain[k].rules) : Matches(chain[k].rules[i], request)}
  <2> SUFFICES ASSUME NEW k \in 1 .. Len(chain)
               PROVE  G(chain[k].id)
                        = {i \in 1 .. Len(chain[k].rules) : Matches(chain[k].rules[i], request)}
    OBVIOUS
  <2>1. SpaceOf(policy, chain[k].id) = chain[k]
    BY DEF Climbed
  <2>2. \A i \in 1 .. Len(chain[k].rules) :
            MatchesInRego(chain[k].rules[i], request) <=> Matches(chain[k].rules[i], request)
    <3>1. chain[k] \in Spaces(policy) /\ request \in Requests /\ policy \in Documents
      BY LenProperties, ElementOfSeq DEF PolicyInv, PolicyTypeOK
    <3>2. \A i \in 1 .. Len(chain[k].rules) : ToldApart(chain[k].rules[i], request)
      BY <3>1 DEF NoLookalikes
    <3> QED
      BY <1>1, <3>1, <3>2, MatchAlike DEF SpaceType
  <2> QED
    BY <2>1, <2>2
<1>3. Matching(policy, request)
        = UNION {{<<s, i>> : i \in G(s)} : s \in Lineage(policy, request.space)}
  BY DEF Matching
<1>4. Lineage(policy, request.space) = {chain[k].id : k \in 1 .. Len(chain)}
  BY PathIsLineage
<1> HIDE DEF G
<1>5. \A d : d \in Matching(policy, request) <=>
          \E s \in Lineage(policy, request.space) : \E i \in G(s) : d = <<s, i>>
  BY <1>3, SMT
<1>6. \A d : d \in Matching(policy, request) <=>
          \E k \in 1 .. Len(chain) : \E i \in G(chain[k].id) : d = <<chain[k].id, i>>
  BY <1>4, <1>5
<1> QED
  BY <1>1, <1>2, <1>6

\* What evaluate picks on the path is what the specification prefers.
LEMMA PickFollows ==
    ASSUME NoLookalikes, PolicyInv, Climbed, phase = "climbing", cursor = Nowhere
    PROVE  Follows(Evaluate(chain, request))
<1> DEFINE found == Matching(policy, request)
           near  == Applicable(chain, request)
           m     == Least(near)
           f     == FirstOf(chain[m], request)
<1>0. request \in Requests /\ Len(chain) \in Nat
  BY LenProperties DEF PolicyInv, PolicyTypeOK
<1>1. \A k \in 1 .. Len(chain) : SpaceType(chain[k])
  BY MatchingOnPath
<1>2. \A d : d \in found <=>
          \E k \in 1 .. Len(chain) : \E i \in 1 .. Len(chain[k].rules) :
              Matches(chain[k].rules[i], request) /\ d = <<chain[k].id, i>>
  BY MatchingOnPath
<1>3. near = {k \in 1 .. Len(chain) : \E i \in 1 .. Len(chain[k].rules) :
                                         Matches(chain[k].rules[i], request)}
  BY DEF Applicable, Named, Matches, Selects
<1>4. CASE near = {}
  <2>1. found = {}
    BY <1>2, <1>3, <1>4
  <2> QED
    BY <1>4, <2>1 DEF Evaluate, Follows
<1>5. CASE near # {}
  <2>1. m \in 1 .. Len(chain) /\ m \in near /\ \A k \in near : m <= k
    <3>1. near \in SUBSET Nat
      BY <1>3, SMT
    <3> QED
      BY <1>3, <1>5, <3>1, LeastPosition
  <2>2. /\ f \in 1 .. Len(chain[m].rules) /\ Matches(chain[m].rules[f], request)
        /\ \A i \in 1 .. Len(chain[m].rules) :
              Matches(chain[m].rules[i], request) =>
                 \/ Priority(chain[m].rules[f], request) < Priority(chain[m].rules[i], request)
                 \/ /\ Priority(chain[m].rules[f], request) = Priority(chain[m].rules[i], request)
                    /\ f <= i
    <3>1. SpaceType(chain[m])
      BY <1>1, <2>1
    <3>2. Named(chain[m], request, request.name) \cup Named(chain[m], request, "*") # {}
      BY <2>1 DEF Applicable
    <3> QED
      BY <1>0, <3>1, <3>2, FirstOfIsFirst
  <2> DEFINE core  == Evaluate(chain, request)
             rule  == chain[m].rules[f]
             lacks == rule.requires \ request.authorizations
  <2>3. core = Core(chain[m], f, request)
    BY <1>5 DEF Evaluate
  <2>4. rule.decision \in {"permit", "deny", "conditional"}
    BY <1>1, <2>1, <2>2 DEF SpaceType, RuleType
  <2>5. /\ core.space = chain[m].id /\ core.rule = f
        /\ core.decision = "conditional" <=> (rule.decision = "conditional" /\ lacks # {})
        /\ core.decision = "deny" <=> rule.decision = "deny"
        /\ core.requires = IF core.decision = "conditional" THEN lacks ELSE {}
    BY <2>3, <2>4 DEF Core
  <2>6. SpaceOf(policy, chain[m].id) = chain[m]
    BY <2>1 DEF Climbed
  <2>7. <<chain[m].id, f>> \in found
    BY <1>2, <2>1, <2>2
  <2>8. ASSUME NEW d \in found
        PROVE  Prefers(policy, request, <<chain[m].id, f>>, d)
    <3>1. PICK k \in 1 .. Len(chain) : \E i \in 1 .. Len(chain[k].rules) :
              Matches(chain[k].rules[i], request) /\ d = <<chain[k].id, i>>
      BY <1>2, <2>8
    <3>2. PICK i \in 1 .. Len(chain[k].rules) :
              Matches(chain[k].rules[i], request) /\ d = <<chain[k].id, i>>
      BY <3>1
    <3>3. k \in near /\ m <= k
      BY <1>3, <2>1, <3>2
    <3>4. CASE chain[k].id # chain[m].id
      <4>1. chain[k].id \in Lineage(policy, chain[m].id)
        BY <2>1, <3>2, <3>3 DEF Climbed
      <4> QED
        BY <3>2, <3>4, <4>1 DEF Prefers
    <3>5. CASE chain[k].id = chain[m].id
      <4>1. chain[k] = chain[m]
        BY <2>6, <3>2, <3>5 DEF Climbed
      <4>2. \/ Priority(rule, request) < Priority(chain[m].rules[i], request)
            \/ /\ Priority(rule, request) = Priority(chain[m].rules[i], request)
               /\ f <= i
        BY <2>2, <3>2, <4>1
      <4>3. IF (rule.name = request.name) # (chain[m].rules[i].name = request.name)
            THEN rule.name = request.name ELSE f <= i
        BY <4>2, SMT DEF Priority
      <4> QED
        BY <2>6, <3>2, <3>5, <4>3 DEF Prefers
    <3> QED
      BY <3>4, <3>5
  <2> HIDE DEF f, m, near
  <2> QED
    BY <2>5, <2>6, <2>7, <2>8 DEF Follows
<1> QED
  BY <1>4, <1>5

\* Both engines answer with what PickFollows is about, or with no decision.
LEMMA AnswerIsPick ==
    ASSUME NoLookalikes, PolicyInv, Answer
    PROVE  \/ answer' = Evaluate(chain, request)
           \/ answer'.decision \notin {"permit", "conditional", "deny"}
<1>1. phase = "climbing"
  BY DEF Answer
<1>2. Evaluate(chain, request) = OPACore(chain, request)
  BY <1>1, AgreeOnChains DEF EnginesAgree, PolicyInv
<1>3. answer' = Finalize(Evaluate(chain, request)) \/ answer' = BadGateway
  BY <1>2 DEF Answer, AnswerLocally, AnswerByOPA
<1>4. Unprocessable.decision = "422" /\ BadGateway.decision = "502"
  BY DEF Unprocessable, BadGateway
<1>5. answer' \in {Evaluate(chain, request), Unprocessable, BadGateway}
  BY <1>3 DEF Finalize
<1> QED
  BY <1>4, <1>5

\* Every step keeps the path, and every answer follows from it.
LEMMA FollowsStep ==
    ASSUME NoLookalikes, PolicyInv, FollowsInv, [Next]_policyVars
    PROVE  FollowsInv'
<1>1. Climbed /\ Silent /\ FollowsAlgorithm
  BY DEF FollowsInv
<1>2. NoAnswer.decision = "none" /\ Unprocessable.decision = "422"
  BY DEF NoAnswer, Unprocessable
<1>3. CASE LoadPolicy
  BY <1>1, <1>3 DEF LoadPolicy, FollowsInv, Climbed, Silent, FollowsAlgorithm
<1>4. CASE CheckSpace
  <2>1. /\ phase = "checking" /\ phase' \in {"ready", "walking", "failed"}
        /\ UNCHANGED answer
    BY <1>4 DEF CheckSpace
  <2>2. answer' = NoAnswer
    BY <1>1, <2>1 DEF Silent
  <2> QED
    BY <1>2, <2>1, <2>2 DEF FollowsInv, Climbed, Silent, FollowsAlgorithm
<1>5. CASE WalkUp
  <2>1. /\ phase = "walking" /\ phase' \in {"checking", "walking", "failed"}
        /\ UNCHANGED answer
    BY <1>5 DEF WalkUp
  <2> QED
    BY <1>1, <2>1 DEF FollowsInv, Climbed, Silent, FollowsAlgorithm
<1>6. ASSUME NEW r \in Requests, Receive(r)
      PROVE  FollowsInv'
  <2>1. /\ phase' \in {"ready", "climbing"} /\ request' = r /\ chain' = <<>>
        /\ phase' = "climbing" => cursor' = r.space
        /\ answer' \in {NoAnswer, Unprocessable}
    BY <1>6 DEF Receive
  <2>2. Len(chain') = 0 /\ \A k \in 1 .. Len(chain') : FALSE
    BY <2>1, SMT
  <2>3. Climbed'
    BY <2>1, <2>2 DEF Climbed
  <2> QED
    BY <1>2, <2>1, <2>3 DEF FollowsInv, Silent, FollowsAlgorithm
<1>7. CASE Climb
  <2>1. phase = "climbing" /\ phase' = phase
    BY <1>7 DEF Climb
  <2>2. Climbed'
    BY <1>1, <1>7, ClimbedOn
  <2> QED
    BY <2>1, <2>2 DEF FollowsInv, Silent, FollowsAlgorithm
<1>8. CASE Answer
  <2>1. /\ phase = "climbing" /\ cursor = Nowhere /\ phase' = "ready"
        /\ UNCHANGED <<policy, request>>
    BY <1>8 DEF Answer
  <2>2. Follows(Evaluate(chain, request))
    BY <1>1, <2>1, PickFollows
  <2>3. ASSUME NEW core, Follows(core), answer' = core
        PROVE  FollowsAlgorithm'
    BY <2>1, <2>3 DEF Follows, FollowsAlgorithm
  <2>4. FollowsAlgorithm'
    <3>1. CASE answer' = Evaluate(chain, request)
      BY <2>2, <2>3, <3>1
    <3>2. CASE answer'.decision \notin {"permit", "conditional", "deny"}
      BY <3>2 DEF FollowsAlgorithm
    <3> QED
      BY <1>8, <3>1, <3>2, AnswerIsPick
  <2> QED
    BY <2>1, <2>4 DEF FollowsInv, Climbed, Silent
<1>9. CASE UNCHANGED policyVars
  BY <1>1, <1>9 DEF policyVars, FollowsInv, Climbed, Silent, FollowsAlgorithm
<1> QED
  BY <1>3, <1>4, <1>5, <1>6, <1>7, <1>8, <1>9 DEF Next

\* FollowsAlgorithm for any policy and any request, again without values that
\* only Python confuses: a loop that stops at the first space with a match, and a
\* sort of every candidate, both find what section 4 of the specification wants.
THEOREM AlgorithmIsFollowed ==
    ASSUME NoLookalikes
    PROVE  PolicySpec => []FollowsAlgorithm
<1>1. Start => FollowsInv
  BY DEF Start, FollowsInv, Climbed, Silent, FollowsAlgorithm
<1>2. PolicyInv /\ FollowsInv /\ [Next]_policyVars => FollowsInv'
  BY FollowsStep
<1>3. FollowsInv => FollowsAlgorithm
  BY DEF FollowsInv
<1> QED
  BY <1>1, <1>2, <1>3, PolicyInvariant, PTL DEF PolicySpec

-----------------------------------------------------------------------------
(* The loops end. *)

\* A policy declares no more ids than spaces, and a walk sees no more than that.
LEMMA FewIds ==
    ASSUME PolicyTypeOK
    PROVE  LET n == Len(policy.spaces)
           IN  /\ n \in Nat
               /\ IsFiniteSet(SpaceIds(policy)) /\ Cardinality(SpaceIds(policy)) <= n
               /\ Cardinality(SpaceIds(policy)) \in Nat
               /\ \A S \in SUBSET SpaceIds(policy) :
                     IsFiniteSet(S) /\ Cardinality(S) \in Nat /\ Cardinality(S) <= n
<1> DEFINE n == Len(policy.spaces)
           f == [i \in 1 .. n |-> policy.spaces[i].id]
<1>1. n \in Nat
  BY DocumentsAssumption DEF PolicyTypeOK
<1>2. f \in Surjection(1 .. n, SpaceIds(policy))
  BY DEF Surjection, SpaceIds, Spaces
<1>3. IsFiniteSet(1 .. n) /\ Cardinality(1 .. n) = n
  BY <1>1, FS_Interval
<1> HIDE DEF f
<1>4. IsFiniteSet(SpaceIds(policy)) /\ Cardinality(SpaceIds(policy)) <= n
  BY <1>2, <1>3, FS_Surjection
<1>5. Cardinality(SpaceIds(policy)) \in Nat
  BY <1>4, FS_CardinalityType
<1>6. ASSUME NEW S \in SUBSET SpaceIds(policy)
      PROVE  IsFiniteSet(S) /\ Cardinality(S) \in Nat /\ Cardinality(S) <= n
  <2>1. IsFiniteSet(S) /\ Cardinality(S) <= Cardinality(SpaceIds(policy))
    BY <1>4, <1>6, FS_Subset
  <2>2. Cardinality(S) \in Nat
    BY <2>1, FS_CardinalityType
  <2> QED
    BY <1>1, <1>4, <1>5, <2>1, <2>2
<1> QED
  BY <1>1, <1>4, <1>5, <1>6

\* A climb never meets a space twice: between two visits the path would be closed
\* under parents and hold no space without one, which Rooted rules out.
LEMMA PathIsSimple ==
    ASSUME PolicyInv, Rooted, Climbed, phase = "climbing",
           NEW i \in 1 .. Len(chain), NEW j \in 1 .. Len(chain), i < j
    PROVE  chain[i].id # chain[j].id
<1> SUFFICES ASSUME chain[i].id = chain[j].id PROVE FALSE
  OBVIOUS
<1> DEFINE X == {chain[k].id : k \in i .. j - 1}
<1>1. chain \in Seq(Spaces(policy)) /\ Len(chain) \in Nat
  BY LenProperties DEF PolicyInv, PolicyTypeOK
<1>2. \A k \in 1 .. Len(chain) : chain[k].id \in SpaceIds(policy)
  BY <1>1, ElementOfSeq DEF SpaceIds
<1>3. ASSUME NEW k \in i .. j - 1
      PROVE  /\ SpaceOf(policy, chain[k].id).parent \in X
             /\ chain[k].id \in SpaceIds(policy)
  <2>1. k \in 1 .. Len(chain) /\ k < Len(chain) /\ k + 1 \in 1 .. Len(chain)
    BY <1>1, <1>3, SMT
  <2>2. SpaceOf(policy, chain[k].id).parent = chain[k + 1].id
    BY <2>1 DEF Climbed
  <2>3. CASE k + 1 = j
    <3>1. i \in i .. j - 1
      BY <1>1, SMT
    <3> QED
      BY <1>2, <2>1, <2>2, <2>3, <3>1
  <2>4. CASE k + 1 # j
    <3>1. k + 1 \in i .. j - 1
      BY <1>1, <1>3, <2>4, SMT
    <3> QED
      BY <1>2, <2>1, <2>2, <3>1
  <2> QED
    BY <2>3, <2>4
<1>4. X \subseteq SpaceIds(policy)
  BY <1>3
<1>5. chain[i].id \in X
  <2>1. i \in i .. j - 1
    BY <1>1, SMT
  <2> QED
    BY <2>1
<1>6. \A x \in X : SpaceOf(policy, x).parent \in X
  BY <1>3
<1>7. PICK t \in Lineage(policy, chain[i].id) : Parentless(t)
  <2>1. PICK m \in 1 .. Len(policy.spaces) : policy.spaces[m].id = chain[i].id
    BY <1>2 DEF SpaceIds, Spaces
  <2>2. m < index
    BY FewIds, SMT DEF PolicyInv, Checked
  <2> QED
    BY <2>1, <2>2 DEF Rooted
<1> HIDE DEF X
<1>8. t \in X
  <2>1. \A x \in X : SpaceOf(policy, x).parent \in X \cup {Nowhere}
    BY <1>6
  <2> QED
    BY <1>4, <1>5, <1>7, <2>1, Zenon DEF Lineage
<1>9. Nowhere \in SpaceIds(policy)
  BY <1>4, <1>6, <1>7, <1>8 DEF Parentless
<1> QED
  BY <1>9, DocumentsAssumption DEF PolicyInv, PolicyTypeOK, SpaceIds, Spaces, SpaceType

\* So it is at most as long as the policy.
LEMMA PathIsShort ==
    ASSUME PolicyInv, Rooted, Climbed, phase = "climbing"
    PROVE  Len(chain) \in Nat /\ Len(chain) <= Len(policy.spaces)
<1> DEFINE n == Len(chain)
           f == [k \in 1 .. n |-> chain[k].id]
<1>1. chain \in Seq(Spaces(policy)) /\ n \in Nat
  BY LenProperties DEF PolicyInv, PolicyTypeOK
<1>2. f \in [1 .. n -> SpaceIds(policy)]
  BY <1>1, ElementOfSeq DEF SpaceIds
<1>3. ASSUME NEW i \in 1 .. n, NEW j \in 1 .. n, f[i] = f[j]
      PROVE  i = j
  <2>1. i = j \/ i < j \/ j < i
    BY <1>1, SMT
  <2> QED
    BY <1>3, <2>1, PathIsSimple
<1>4. f \in Injection(1 .. n, SpaceIds(policy))
  BY <1>2, <1>3 DEF Injection, IsInjective
<1>5. PolicyTypeOK
  BY DEF PolicyInv
<1> HIDE DEF f
<1>6. Cardinality(1 .. n) <= Cardinality(SpaceIds(policy))
  BY <1>4, <1>5, FewIds, FS_Injection
<1>7. Cardinality(1 .. n) = n
  BY <1>1, FS_Interval
<1> QED
  BY <1>1, <1>5, <1>6, <1>7, FewIds

\* Each step of the server leaves less to do.
LEMMA StepsLeave ==
    ASSUME PolicyInv, Rooted, (PolicyInv /\ Rooted /\ Climbed)', ServerStep
    PROVE  Below(Left', Left)
<1> DEFINE n == Len(policy.spaces)
<1>0. /\ PolicyTypeOK /\ n \in Nat /\ index \in 1 .. n + 1
      /\ policy' = policy
  BY FewIds DEF PolicyInv, PolicyTypeOK, ServerStep, LoadPolicy, CheckSpace, WalkUp, Climb, Answer
<1>1. CASE LoadPolicy
  <2>1. /\ Left = <<2, 0, 0>>
        /\ Left' = <<1, n + 1 - index, n + 1>> \/ Left' = <<0, 0, 0>>
    BY <1>0, <1>1 DEF LoadPolicy, Left
  <2> QED
    BY <1>0, <2>1 DEF Below
<1>2. CASE CheckSpace
  <2>1. Left = <<1, n + 1 - index, n + 1>>
    BY <1>2 DEF CheckSpace, Left
  <2>2. CASE phase' = "walking"
    <3>1. seen' = {} /\ index' = index
      BY <1>2, <2>2 DEF CheckSpace
    <3>2. Left' = <<1, n + 1 - index, n - Cardinality({})>>
      BY <1>0, <2>2, <3>1 DEF Left
    <3>3. n - Cardinality({}) = n
      BY <1>0, FS_EmptySet
    <3> QED
      BY <1>0, <2>1, <3>2, <3>3 DEF Below
  <2>3. CASE phase' \in {"ready", "failed"}
    <3>1. Left' = <<0, 0, 0>>
      BY <2>3 DEF Left
    <3> QED
      BY <2>1, <3>1 DEF Below
  <2> QED
    BY <1>2, <2>2, <2>3 DEF CheckSpace
<1>3. CASE WalkUp
  <2>1. /\ Left = <<1, n + 1 - index, n - Cardinality(seen)>>
        /\ seen \subseteq SpaceIds(policy) /\ index <= n
    BY <1>0, <1>3 DEF WalkUp, Left, PolicyTypeOK, PolicyInv, Checked
  <2>2. CASE phase' = "checking"
    <3>1. index' = index + 1
      BY <1>3, <2>2 DEF WalkUp
    <3>2. Left' = <<1, n + 1 - (index + 1), n + 1>>
      BY <1>0, <2>2, <3>1 DEF Left
    <3>3. /\ n + 1 - (index + 1) \in Nat /\ n + 1 \in Nat
          /\ n + 1 - (index + 1) < n + 1 - index
      <4>1. n \in Nat /\ index \in 1 .. n + 1 /\ index <= n
        BY <1>0, <2>1
      <4> HIDE DEF n
      <4> QED
        BY <4>1, SMT
    <3> QED
      BY <2>1, <3>2, <3>3 DEF Below
  <2>3. CASE phase' = "failed"
    <3>1. Left' = <<0, 0, 0>>
      BY <2>3 DEF Left
    <3> QED
      BY <2>1, <3>1 DEF Below
  <2>4. CASE phase' = "walking"
    <3>1. /\ seen' = seen \cup {cursor} /\ cursor \notin seen /\ cursor \in SpaceIds(policy)
          /\ index' = index
      BY <1>3, <2>4 DEF WalkUp, Visited, Cycle
    <3>2. /\ IsFiniteSet(seen) /\ Cardinality(seen) \in Nat
          /\ Cardinality(seen') \in Nat /\ Cardinality(seen') <= n
      BY <1>0, <2>1, <3>1, FewIds
    <3>3. Cardinality(seen') = Cardinality(seen) + 1
      BY <3>1, <3>2, FS_AddElement
    <3>4. Left' = <<1, n + 1 - index, n - Cardinality(seen')>>
      BY <1>0, <2>4, <3>1 DEF Left
    <3> QED
      BY <1>0, <2>1, <3>2, <3>3, <3>4 DEF Below
  <2> QED
    BY <1>3, <2>2, <2>3, <2>4 DEF WalkUp
<1>4. CASE Climb
  <2>1. /\ phase = "climbing" /\ phase' = phase
        /\ chain' = Append(chain, SpaceOf(policy, cursor))
        /\ cursor \in SpaceIds(policy) /\ chain \in Seq(Spaces(policy))
    BY <1>4 DEF Climb, PolicyInv, OnChain, PolicyTypeOK
  <2>2. Len(chain') = Len(chain) + 1 /\ Len(chain) \in Nat
    BY <2>1, SpaceFound, AppendProperties, LenProperties
  <2>3. Len(chain') <= n
    <3>1. (phase = "climbing")'
      BY <2>1
    <3>2. (Len(chain) <= Len(policy.spaces))'
      BY <3>1, PathIsShort, PTL
    <3> QED
      BY <1>0, <3>2
  <2>4. Left = <<1, 0, n - Len(chain)>> /\ Left' = <<1, 0, n - Len(chain')>>
    BY <1>0, <2>1 DEF Left
  <2> QED
    BY <1>0, <2>2, <2>3, <2>4 DEF Below
<1>5. CASE Answer
  <2>1. Left = <<1, 0, n - Len(chain)>> /\ Left' = <<0, 0, 0>>
    BY <1>5 DEF Answer, Left
  <2> QED
    BY <2>1 DEF Below
<1> QED
  BY <1>1, <1>2, <1>3, <1>4, <1>5 DEF ServerStep

\* The path is kept whatever the engines make of the requests.
LEMMA ClimbedStep == PolicyInv /\ Climbed /\ [Next]_policyVars => Climbed'
<1> SUFFICES ASSUME PolicyInv, Climbed, [Next]_policyVars PROVE Climbed'
  OBVIOUS
<1>1. ASSUME NEW r \in Requests, Receive(r)
      PROVE  Climbed'
  <2>1. /\ request' = r /\ chain' = <<>>
        /\ phase' = "climbing" => cursor' = r.space
    BY <1>1 DEF Receive
  <2>2. Len(chain') = 0 /\ \A k \in 1 .. Len(chain') : FALSE
    BY <2>1, SMT
  <2> QED
    BY <2>1, <2>2 DEF Climbed
<1> QED
  BY <1>1, ClimbedOn DEF Next, LoadPolicy, CheckSpace, WalkUp, Answer, policyVars, Climbed

\* StepsRunOut for any file, cycles and gaps included: both loops of the
\* evaluator end, so that a server that keeps running starts or refuses its
\* policy and answers every request.
THEOREM LoopsEnd == PolicySpec => StepsRunOut
<1>1. PolicyInv /\ Rooted /\ (PolicyInv /\ Rooted /\ Climbed)' /\ [Next]_policyVars
        => [ServerStep => Below(Left', Left)]_policyVars
  BY StepsLeave
<1>2. Start => Rooted /\ Climbed
  BY DocumentsAssumption, SMT DEF Start, Rooted, Climbed
<1>3. PolicySpec => [](PolicyInv /\ Rooted /\ Climbed)
  BY <1>2, PolicyInvariant, RootedStep, ClimbedStep, PTL DEF PolicySpec
<1> QED
  BY <1>1, <1>3, PTL DEF PolicySpec, StepsRunOut
===============================================================================
