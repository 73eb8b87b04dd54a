------------------------- MODULE PlacePackages_proofs -------------------------
(***************************************************************************)
(* Proofs about RequirementRegistries and PlacePackages, for any number of *)
(* sites, definitions, providers and packages.                             *)
(***************************************************************************)
EXTENDS PlacePackages, FiniteSetTheorems, TLAPS

-----------------------------------------------------------------------------
(* Definitions keep their meaning while a vocabulary grows. *)

\* A vocabulary: one definition per key.
Vocabulary(vocab) ==
    /\ vocab \subseteq Definition
    /\ \A c, d \in vocab : <<c.id, c.version>> = <<d.id, d.version>> => c = d

\* Undefined and NoProvider are none of the things they stand in for.
LEMMA NothingIsNothing ==
    Undefined \notin Definition /\ NoProvider \notin Provider
<1>1. ASSUME NEW d \in Definition
      PROVE  d # Undefined
  <2>1. DOMAIN d = {"id", "version", "type", "unit", "comparison"}
    BY DEF Definition
  <2>2. DOMAIN Undefined = {"id"}
    BY DEF Undefined
  <2>3. QED
    BY <2>1, <2>2
<1>2. ASSUME NEW p \in Provider
      PROVE  p # NoProvider
  <2>1. DOMAIN p = {"rank", "priority", "supports", "embodiments", "levels"}
    BY DEF Provider
  <2>2. DOMAIN NoProvider = {"rank"}
    BY DEF NoProvider
  <2>3. QED
    BY <2>1, <2>2
<1>3. QED
  BY <1>1, <1>2

\* What resolves is the only definition with the name.
LEMMA Resolved ==
    ASSUME NEW vocab, Vocabulary(vocab), NEW r, Resolve(vocab, r) # Undefined
    PROVE  LET d == Resolve(vocab, r) IN
           /\ d \in vocab /\ d \in Definition /\ d.id = r.id
           /\ r.version # NoVersion => d.version = r.version
           /\ Named(vocab, r.id, r.version) = {d}
<1>1. PICK d : Named(vocab, r.id, r.version) = {d} /\ Resolve(vocab, r) = d
  BY DEF Resolve
<1>2. QED
  BY <1>1 DEF Named, Vocabulary

\* One candidate is all it takes.
LEMMA ResolvesTo ==
    ASSUME NEW vocab, NEW r, NEW d, Named(vocab, r.id, r.version) = {d}
    PROVE  Resolve(vocab, r) = d
  BY DEF Resolve

\* Growth keeps what a requirement with a version resolves to; one without may
\* become ambiguous, but never comes to mean something else.
LEMMA ResolveStable ==
    ASSUME NEW vocab, Vocabulary(vocab), NEW larger, Vocabulary(larger),
           vocab \subseteq larger, NEW r, Resolve(vocab, r) # Undefined
    PROVE  /\ Resolve(larger, r) \in {Resolve(vocab, r), Undefined}
           /\ r.version # NoVersion => Resolve(larger, r) = Resolve(vocab, r)
<1> DEFINE d == Resolve(vocab, r)
<1>1. d \in vocab /\ d.id = r.id /\ (r.version # NoVersion => d.version = r.version)
  BY Resolved
<1>2. d \in Named(larger, r.id, r.version)
  BY <1>1 DEF Named
<1>3. CASE Named(larger, r.id, r.version) = {d}
  BY <1>3, ResolvesTo
<1>4. CASE Named(larger, r.id, r.version) # {d}
  <2>1. Resolve(larger, r) = Undefined
    BY <1>2, <1>4 DEF Resolve
  <2>2. r.version = NoVersion
    BY <1>1, <1>2, <1>4 DEF Named, Vocabulary
  <2>3. QED
    BY <2>1, <2>2
<1>5. QED
  BY <1>3, <1>4

\* A definition a requirement once resolved to is what it validates as, if it
\* validates.
LEMMA MeantOrLost ==
    ASSUME NEW vocab, Vocabulary(vocab), NEW r, NEW d \in vocab, d.id = r.id,
           r.version # NoVersion => d.version = r.version,
           Validate(vocab, r) # Undefined
    PROVE  Validate(vocab, r) = d
<1>1. Validate(vocab, r) = Resolve(vocab, r) /\ Resolve(vocab, r) # Undefined
  BY DEF Validate
<1>2. Named(vocab, r.id, r.version) = {Resolve(vocab, r)}
  BY <1>1, Resolved
<1>3. d \in Named(vocab, r.id, r.version)
  BY DEF Named
<1>4. QED
  BY <1>1, <1>2, <1>3

\* Growth keeps what a requirement validates as in the same way.
LEMMA ValidateStable ==
    ASSUME NEW vocab, Vocabulary(vocab), NEW larger, Vocabulary(larger),
           vocab \subseteq larger, NEW r, Validate(vocab, r) # Undefined
    PROVE  /\ Validate(larger, r) \in {Validate(vocab, r), Undefined}
           /\ r.version # NoVersion => Validate(larger, r) = Validate(vocab, r)
<1>1. /\ Validate(vocab, r) = Resolve(vocab, r) /\ Resolve(vocab, r) # Undefined
      /\ r.version # NoVersion => Fits(r, Resolve(vocab, r))
  BY DEF Validate
<1>2. /\ Resolve(larger, r) \in {Resolve(vocab, r), Undefined}
      /\ r.version # NoVersion => Resolve(larger, r) = Resolve(vocab, r)
  BY <1>1, ResolveStable
<1>3. QED
  BY <1>1, <1>2 DEF Validate

\* A validated requirement resolves, and fits if it names its version.
LEMMA Validated ==
    ASSUME NEW vocab, Vocabulary(vocab), NEW r, Validate(vocab, r) # Undefined
    PROVE  /\ Validate(vocab, r) = Resolve(vocab, r) /\ Validate(vocab, r) \in Definition
           /\ Validate(vocab, r).id = r.id
           /\ r.version # NoVersion =>
                 Validate(vocab, r).version = r.version /\ Fits(r, Validate(vocab, r))
<1>1. /\ Validate(vocab, r) = Resolve(vocab, r) /\ Resolve(vocab, r) # Undefined
      /\ r.version # NoVersion => Fits(r, Resolve(vocab, r))
  BY DEF Validate
<1>2. QED
  BY <1>1, Resolved

\* What can be read stays readable, if it names its versions.
LEMMA ReadableStable ==
    ASSUME NEW vocab, Vocabulary(vocab), NEW larger, Vocabulary(larger),
           vocab \subseteq larger, NEW reqs, \A r \in reqs : r.version # NoVersion,
           Readable(vocab, reqs)
    PROVE  Readable(larger, reqs)
<1>1. \A r \in reqs : Validate(vocab, r) # Undefined /\ Resolve(vocab, r) # Undefined
  BY Validated DEF Readable, Validate
<1>2. \A r \in reqs : /\ Validate(larger, r) = Validate(vocab, r)
                      /\ Resolve(larger, r) = Resolve(vocab, r)
  BY <1>1, ValidateStable, ResolveStable
<1>3. QED
  BY <1>1, <1>2 DEF Readable, Conflicting

-----------------------------------------------------------------------------
(* Selection. *)

LEMMA PreferredOrders ==
    ASSUME NEW p \in Provider, NEW q \in Provider, NEW r \in Provider
    PROVE  /\ Preferred(p, p)
           /\ Preferred(p, q) \/ Preferred(q, p)
           /\ Preferred(p, q) /\ Preferred(q, r) => Preferred(p, r)
<1>1. \A x \in {p, q, r} : x.priority \in Int /\ x.rank \in Int
  BY DEF Provider
<1>2. QED
  BY <1>1 DEF Preferred

\* A finite choice has a best: the provider with the fewest that are preferred
\* to it, for strict inclusion of finite sets is well founded.
LEMMA BestOfIsBest ==
    ASSUME NEW S, S \subseteq Provider, IsFiniteSet(S), S # {}
    PROVE  BestOf(S) \in S /\ \A q \in S : Preferred(BestOf(S), q)
<1> DEFINE Above(p) == {q \in S : Preferred(q, p)}
           T == {Above(p) : p \in S}
<1>1. T \subseteq FiniteSubsetsOf(S) /\ T # {}
  <2>1. \A p \in S : Above(p) \subseteq S /\ IsFiniteSet(Above(p))
    BY FS_Subset, Zenon
  <2>2. \A X \in T : X \subseteq S /\ IsFiniteSet(X)
    BY <2>1, Zenon
  <2>3. T # {}
    BY Zenon
  <2> HIDE DEF T
  <2>4. QED
    BY <2>2, <2>3, Zenon DEF FiniteSubsetsOf
<1>2. PICK x \in T : \A y \in T : <<y, x>> \notin StrictSubsetOrdering(S)
  <2> HIDE DEF T
  <2> QED
    BY <1>1, FS_StrictSubsetOrderingWellFounded, WFMin
<1>3. PICK p \in S : x = Above(p)
  BY <1>2
<1>4. ASSUME NEW q \in S
      PROVE  Preferred(p, q)
  <2>1. SUFFICES ASSUME ~Preferred(p, q)
                 PROVE  FALSE
    OBVIOUS
  <2>2. Preferred(q, p)
    BY <2>1, PreferredOrders
  <2>3. Above(q) \subseteq Above(p)
    BY <2>2, PreferredOrders
  <2>4. p \in Above(p) /\ p \notin Above(q)
    BY <2>1, PreferredOrders
  <2>5. <<Above(q), Above(p)>> \in StrictSubsetOrdering(S)
    BY <2>3, <2>4 DEF StrictSubsetOrdering
  <2>6. Above(q) \in T
    OBVIOUS
  <2>7. QED
    BY <1>2, <1>3, <2>5, <2>6
<1>5. QED
  BY <1>4, S # {} DEF BestOf

\* What is selected is a candidate, and no candidate is preferred to it.
LEMMA Selected ==
    ASSUME NEW registry, registry \subseteq Provider, IsFiniteSet(registry),
           NEW vocab, NEW r, NEW e, NEW minimum
    PROVE  LET S == Candidates(registry, vocab, r, e, minimum)
               p == Select(registry, vocab, r, e, minimum)
           IN  /\ p # NoProvider <=> S # {}
               /\ S # {} => p \in S /\ \A q \in S : Preferred(p, q)
<1> DEFINE S == Candidates(registry, vocab, r, e, minimum)
<1>1. S \subseteq registry /\ S \subseteq Provider
  BY DEF Candidates
<1>2. IsFiniteSet(S)
  BY <1>1, FS_Subset
<1>3. CASE S = {}
  BY <1>3 DEF Select, BestOf
<1>4. CASE S # {}
  <2>1. BestOf(S) \in S /\ \A q \in S : Preferred(BestOf(S), q)
    <3> HIDE DEF S
    <3> QED
      BY <1>1, <1>2, <1>4, BestOfIsBest
  <2>2. BestOf(S) # NoProvider
    BY <1>1, <2>1, NothingIsNothing
  <2>3. QED
    BY <1>4, <2>1, <2>2 DEF Select
<1>5. QED
  BY <1>3, <1>4

\* Growth of a registry and of the vocabulary moves a selection to one that is
\* preferred; it is lost only where the requirement became ambiguous.
LEMMA SelectionGrows ==
    ASSUME NEW old, NEW new, old \subseteq new, new \subseteq Provider, IsFiniteSet(new),
           NEW vocab, Vocabulary(vocab), NEW larger, Vocabulary(larger),
           vocab \subseteq larger, NEW r, NEW e, NEW minimum,
           Select(old, vocab, r, e, minimum) # NoProvider
    PROVE  IF Select(new, larger, r, e, minimum) = NoProvider THEN r.version = NoVersion
           ELSE Preferred(Select(new, larger, r, e, minimum), Select(old, vocab, r, e, minimum))
<1> DEFINE S == Candidates(old, vocab, r, e, minimum)
           T == Candidates(new, larger, r, e, minimum)
           p == Select(old, vocab, r, e, minimum)
<1>1. p \in S
  <2>1. old \subseteq Provider /\ IsFiniteSet(old)
    BY FS_Subset
  <2>2. QED
    BY <2>1, Selected
<1>2. Validate(vocab, r) # Undefined
  BY <1>1 DEF Candidates
<1>3. CASE Validate(larger, r) = Validate(vocab, r)
  <2>1. p \in T
    BY <1>1, <1>3 DEF Candidates
  <2>2. QED
    BY <2>1, Selected
<1>4. CASE Validate(larger, r) # Validate(vocab, r)
  <2>1. r.version = NoVersion /\ Validate(larger, r) = Undefined
    BY <1>2, <1>4, ValidateStable
  <2>2. T = {}
    BY <2>1 DEF Candidates
  <2>3. QED
    BY <2>1, <2>2, Selected
<1>5. QED
  BY <1>3, <1>4

-----------------------------------------------------------------------------
(* What carriers can do. *)

\* The package its authority sealed.
Genuine(p) ==
    /\ p = Seal(p.mirror, p.scope, p.authority, p.requirements, KeyOf[p.authority])
    /\ p.authority \in AuthorityIds

SignedPackages == {w.package : w \in packages}

\* The digest of a genuine package is that of its content, and its signature is
\* over that digest.
LEMMA GenuineParts ==
    ASSUME NEW p, Genuine(p)
    PROVE  /\ p = [mirror |-> p.mirror, scope |-> p.scope, authority |-> p.authority,
                   requirements |-> p.requirements, digest |-> p.digest, signature |-> p.signature]
           /\ p.digest = <<p.mirror, p.scope, p.authority, p.requirements>>
           /\ p.signature = <<KeyOf[p.authority], p.authority, p.digest>>
<1> DEFINE m == p.mirror  c == p.scope  u == p.authority  q == p.requirements
           digest == <<m, c, u, q>>
<1>1. p = [mirror |-> m, scope |-> c, authority |-> u, requirements |-> q,
           digest |-> digest, signature |-> <<KeyOf[u], u, digest>>]
  BY DEF Genuine, Seal
<1> HIDE DEF m, c, u, q
<1>2. p.digest = digest /\ p.signature = <<KeyOf[u], u, digest>>
  BY <1>1
<1>3. QED
  BY <1>1, <1>2 DEF m, c, u, q

\* Whatever carriers made of genuine packages, what verifies is one of them.
LEMMA GenuineOnly ==
    ASSUME PackagesAssumption, \A p \in SignedPackages : Genuine(p),
           NEW s \in Sites, NEW p \in Carried, Verifies(s, p)
    PROVE  /\ p \in SignedPackages /\ Genuine(p)
           /\ Anchors[s][p.authority].key = KeyOf[p.authority]
<1> DEFINE anchor == Anchors[s][p.authority]
<1>1. /\ p.digest = <<p.mirror, p.scope, p.authority, p.requirements>>
      /\ p.signature = <<anchor.key, p.authority, p.digest>>
  BY DEF Verifies, Content
<1>2. p \in SignedPackages
  <2>1. CASE p \in SignedPackages
    BY <2>1
  <2>2. CASE p \in UNION {Doctored(w.package) : w \in packages}
    <3>1. PICK g \in SignedPackages : p \in Doctored(g)
      BY <2>2 DEF SignedPackages
    <3>2. Genuine(g)
      BY <3>1
    <3>3. /\ g = [mirror |-> g.mirror, scope |-> g.scope, authority |-> g.authority,
                  requirements |-> g.requirements, digest |-> g.digest, signature |-> g.signature]
          /\ g.digest = <<g.mirror, g.scope, g.authority, g.requirements>>
          /\ g.signature = <<KeyOf[g.authority], g.authority, g.digest>>
      BY <3>2, GenuineParts, Zenon
    <3>4. CASE \E scope \in SUBSET Spaces : p = [g EXCEPT !.scope = scope]
      <4>1. PICK scope \in SUBSET Spaces : p = [g EXCEPT !.scope = scope]
        BY <3>4
      <4>2. p.digest = g.digest /\ p.scope = scope
        BY <3>3, <4>1
      <4>3. scope = g.scope
        BY <1>1, <3>3, <4>2
      <4>4. p = g
        BY <3>3, <4>1, <4>3
      <4>5. QED
        BY <4>4
    <3>5. CASE \E u \in AuthorityIds : p = [g EXCEPT !.authority = u]
      <4>1. PICK u \in AuthorityIds : p = [g EXCEPT !.authority = u]
        BY <3>5
      <4>2. p.digest = g.digest /\ p.authority = u
        BY <3>3, <4>1
      <4>3. u = g.authority
        BY <1>1, <3>3, <4>2
      <4>4. p = g
        BY <3>3, <4>1, <4>3
      <4>5. QED
        BY <4>4
    <3>6. CASE \E q \in SignedPackages :
                  p = [g EXCEPT !.requirements = q.requirements, !.mirror = q.mirror]
      <4>1. PICK q \in SignedPackages :
                  p = [g EXCEPT !.requirements = q.requirements, !.mirror = q.mirror]
        BY <3>6
      <4>2. p.digest = g.digest /\ p.requirements = q.requirements /\ p.mirror = q.mirror
        BY <3>3, <4>1
      <4>3. q.requirements = g.requirements /\ q.mirror = g.mirror
        BY <1>1, <3>3, <4>2
      <4>4. p = g
        BY <3>3, <4>1, <4>3
      <4>5. QED
        BY <4>4
    <3>7. CASE \E q \in SignedPackages : p = [q EXCEPT !.signature = g.signature]
      <4>1. PICK q \in SignedPackages : p = [q EXCEPT !.signature = g.signature]
        BY <3>7
      <4>2. /\ q = [mirror |-> q.mirror, scope |-> q.scope, authority |-> q.authority,
                    requirements |-> q.requirements, digest |-> q.digest, signature |-> q.signature]
            /\ q.signature = <<KeyOf[q.authority], q.authority, q.digest>>
        BY <4>1, GenuineParts, Zenon
      <4>3. p.signature = g.signature /\ p.authority = q.authority /\ p.digest = q.digest
        BY <4>1, <4>2
      <4>4. g.authority = q.authority /\ g.digest = q.digest
        BY <1>1, <3>3, <4>3
      <4>5. q.signature = g.signature
        BY <3>3, <4>2, <4>4
      <4>6. p = q
        BY <4>1, <4>2, <4>5
      <4>7. QED
        BY <4>6
    <3>8. CASE \E q \in SignedPackages :
                  p = Seal(q.mirror, q.scope, g.authority, q.requirements, ForeignKey)
      <4>1. PICK q \in SignedPackages :
                  p = Seal(q.mirror, q.scope, g.authority, q.requirements, ForeignKey)
        BY <3>8
      <4>2. p.signature[1] = ForeignKey /\ p.authority = g.authority
        BY <4>1 DEF Seal
      <4>3. anchor.key \in Keys
        BY <3>2, <4>2, PackagesAssumption DEF PackagesAssumption, Genuine
      <4>4. QED
        BY <1>1, <4>2, <4>3 DEF PackagesAssumption
    <3>9. QED
      BY <3>1, <3>4, <3>5, <3>6, <3>7, <3>8, Zenon DEF Doctored, SignedPackages
  <2>3. QED
    BY <2>1, <2>2 DEF Carried, SignedPackages
<1>3. p.signature = <<KeyOf[p.authority], p.authority, p.digest>>
  BY <1>2, GenuineParts
<1>4. QED
  BY <1>1, <1>2, <1>3

-----------------------------------------------------------------------------
(* The inductive invariant. *)

Versioned(reqs) == \A r \in reqs : r.version # NoVersion

\* The registries are small enough to search, in any vocabulary.
Finite == IsFiniteSet(providers) /\ IsFiniteSet(mechanisms)

\* Every signed package is as its authority sealed it; as create writes it, it
\* names every version, writes every unit there is, and its author can read it.
PackagesKept ==
    \A w \in packages :
        LET p == w.package  vocab == vocabulary[Home[p.authority]] IN
        /\ Genuine(p) /\ p.requirements.reqs \subseteq Requirement
        /\ ~w.legacy =>
              /\ Versioned(p.requirements.reqs) /\ Readable(vocab, p.requirements.reqs)
              /\ \A r \in p.requirements.reqs : r.unit = NoUnit => Resolve(vocab, r).unit = NoUnit

\* Every accepted package is a signed one the site trusts, and what names its
\* versions can still be read there.
AcceptedKept ==
    \A a \in accepted :
        LET p == a.package  anchor == Anchors[a.site][p.authority] IN
        /\ a.site \in Sites /\ p \in SignedPackages /\ Genuine(p)
        /\ anchor.key = KeyOf[p.authority]
        /\ p.requirements.place \in anchor.places /\ p.scope \subseteq anchor.scopes
        /\ Versioned(p.requirements.reqs) =>
              Readable(vocabulary[a.site], p.requirements.reqs)

\* An evaluation is about what its requirement meant when it began, which the
\* vocabulary may lose but never changes.
JobKept(s, vocab) ==
    /\ s.meant \in vocab /\ s.meant.id = s.requirement.id
    /\ s.requirement.version # NoVersion =>
          s.meant.version = s.requirement.version /\ Fits(s.requirement, s.meant)
    /\ <<s.requirement.id, s.meant.version>> \in s.provider.supports
    /\ s.stage = "accepted" =>
          LET x == s.result IN
          /\ <<x.id, x.version, x.unit>> = <<s.meant.id, s.meant.version, s.meant.unit>>
          /\ x.level \in s.provider.levels /\ x.level >= s.minimum

JobsKept == \A j \in Jobs : job[j] \in Job => JobKept(job[j], vocabulary[Operator])

PackagesInv == RegistriesTypeOK /\ Finite /\ PackagesKept /\ AcceptedKept /\ JobsKept

LEMMA VocabulariesAre ==
    ASSUME RegistriesTypeOK, NEW s \in Sites
    PROVE  Vocabulary(vocabulary[s])
  BY DEF RegistriesTypeOK, Vocabulary

LEMMA Initially ==
    ASSUME RegistriesAssumption, PackagesInit
    PROVE  PackagesInv
<1> USE DEF PackagesInit, RegistriesInit
<1>1. RegistriesTypeOK
  BY DEF RegistriesTypeOK, RegistriesAssumption
<1>2. Finite
  BY FS_EmptySet DEF Finite
<1>3. PackagesKept /\ AcceptedKept
  BY DEF PackagesKept, AcceptedKept
<1>4. JobsKept
  BY DEF JobsKept, Job, Idle
<1>5. QED
  BY <1>1, <1>2, <1>3, <1>4 DEF PackagesInv

-----------------------------------------------------------------------------
(* Growth. *)

\* Larger vocabularies, as long as each still has one definition per key, keep
\* everything that was said about packages and evaluations.
LEMMA GrowthKeeps ==
    ASSUME RegistriesAssumption, PackagesAssumption, PackagesInv, RegistriesTypeOK',
           \A s \in Sites : vocabulary[s] \subseteq vocabulary'[s],
           UNCHANGED <<packages, accepted, job>>
    PROVE  (PackagesKept /\ AcceptedKept /\ JobsKept)'
<1>1. \A s \in Sites : Vocabulary(vocabulary[s]) /\ Vocabulary(vocabulary'[s])
  BY VocabulariesAre DEF PackagesInv, RegistriesTypeOK, Vocabulary
<1>2. PackagesKept'
  <2> SUFFICES ASSUME NEW w \in packages
               PROVE  LET p == w.package  vocab == vocabulary'[Home[p.authority]] IN
                      /\ Genuine(p) /\ p.requirements.reqs \subseteq Requirement
                      /\ ~w.legacy =>
                            /\ Versioned(p.requirements.reqs) /\ Readable(vocab, p.requirements.reqs)
                            /\ \A r \in p.requirements.reqs :
                                  r.unit = NoUnit => Resolve(vocab, r).unit = NoUnit
    BY DEF PackagesKept
  <2> DEFINE p == w.package  reqs == p.requirements.reqs
             vocab == vocabulary[Home[p.authority]]  larger == vocabulary'[Home[p.authority]]
  <2>1. Genuine(p) /\ reqs \subseteq Requirement
    BY DEF PackagesInv, PackagesKept
  <2>2. Home[p.authority] \in Sites
    BY <2>1 DEF Genuine, PackagesAssumption
  <2>3. Vocabulary(vocab) /\ Vocabulary(larger) /\ vocab \subseteq larger
    BY <1>1, <2>2
  <2>4. ASSUME ~w.legacy
        PROVE  /\ Versioned(reqs) /\ Readable(larger, reqs)
               /\ \A r \in reqs : r.unit = NoUnit => Resolve(larger, r).unit = NoUnit
    <3>1. /\ Versioned(reqs) /\ Readable(vocab, reqs)
          /\ \A r \in reqs : r.unit = NoUnit => Resolve(vocab, r).unit = NoUnit
      BY <2>4 DEF PackagesInv, PackagesKept
    <3>2. Readable(larger, reqs)
      BY <2>3, <3>1, ReadableStable DEF Versioned
    <3>3. \A r \in reqs : Resolve(vocab, r) # Undefined
      BY <3>1 DEF Readable, Validate
    <3>4. \A r \in reqs : Resolve(larger, r) = Resolve(vocab, r)
      BY <2>3, <3>1, <3>3, ResolveStable DEF Versioned
    <3>5. QED
      BY <3>1, <3>2, <3>4
  <2>5. QED
    BY <2>1, <2>4
<1>3. AcceptedKept'
  <2> SUFFICES ASSUME NEW a \in accepted
               PROVE  LET p == a.package  anchor == Anchors[a.site][p.authority] IN
                      /\ a.site \in Sites /\ p \in SignedPackages /\ Genuine(p)
                      /\ anchor.key = KeyOf[p.authority]
                      /\ p.requirements.place \in anchor.places /\ p.scope \subseteq anchor.scopes
                      /\ Versioned(p.requirements.reqs) =>
                            Readable(vocabulary'[a.site], p.requirements.reqs)
    BY DEF AcceptedKept, SignedPackages
  <2>1. a.site \in Sites
    BY DEF PackagesInv, AcceptedKept
  <2>2. /\ Vocabulary(vocabulary[a.site]) /\ Vocabulary(vocabulary'[a.site])
        /\ vocabulary[a.site] \subseteq vocabulary'[a.site]
    BY <1>1, <2>1
  <2>3. Versioned(a.package.requirements.reqs) =>
            Readable(vocabulary'[a.site], a.package.requirements.reqs)
    BY <2>2, ReadableStable DEF PackagesInv, AcceptedKept, Versioned
  <2>4. QED
    BY <2>3 DEF PackagesInv, AcceptedKept
<1>4. JobsKept'
  <2> SUFFICES ASSUME NEW j \in Jobs, job[j] \in Job
               PROVE  JobKept(job[j], vocabulary'[Operator])
    BY DEF JobsKept
  <2> DEFINE vocab == vocabulary[Operator]  larger == vocabulary'[Operator]
  <2>1. JobKept(job[j], vocab)
    BY DEF PackagesInv, JobsKept
  <2>2. vocab \subseteq larger
    BY DEF RegistriesAssumption
  <2>3. QED
    BY <2>1, <2>2 DEF JobKept
<1>5. QED
  BY <1>2, <1>3, <1>4

LEMMA DefineKeeps ==
    ASSUME RegistriesAssumption, PackagesAssumption, PackagesInv,
           NEW s \in Sites, NEW d \in Definitions, Define(s, d), UNCHANGED <<packages, accepted>>
    PROVE  PackagesInv'
<1>1. vocabulary'[s] = vocabulary[s] \cup {d} /\ d \in Definition
  BY DEF Define, PackagesInv, RegistriesTypeOK, RegistriesAssumption
<1>2. \A t \in Sites : t # s => vocabulary'[t] = vocabulary[t]
  BY DEF Define, PackagesInv, RegistriesTypeOK
<1>3. \A c \in vocabulary[s] : <<c.id, c.version>> # <<d.id, d.version>>
  BY DEF Define
<1>4. RegistriesTypeOK'
  <2>1. vocabulary' \in [Sites -> SUBSET Definition]
    BY <1>1 DEF Define, PackagesInv, RegistriesTypeOK
  <2>2. \A t \in Sites : \A b, c \in vocabulary'[t] :
            <<b.id, b.version>> = <<c.id, c.version>> => b = c
    BY <1>1, <1>2, <1>3 DEF PackagesInv, RegistriesTypeOK
  <2>3. QED
    BY <2>1, <2>2 DEF Define, PackagesInv, RegistriesTypeOK
<1>5. (PackagesKept /\ AcceptedKept /\ JobsKept)'
  <2>1. \A t \in Sites : vocabulary[t] \subseteq vocabulary'[t]
    BY <1>1, <1>2
  <2>2. QED
    BY <1>4, <2>1, GrowthKeeps DEF Define
<1>6. Finite'
  BY DEF Define, PackagesInv, Finite
<1>7. QED
  BY <1>4, <1>5, <1>6 DEF PackagesInv

LEMMA RegisterKeeps ==
    ASSUME RegistriesAssumption, PackagesAssumption, PackagesInv,
           \/ \E p \in Providers : RegisterProvider(p)
           \/ \E m \in Mechanisms : RegisterMechanism(m),
           UNCHANGED <<packages, accepted>>
    PROVE  PackagesInv'
<1>1. UNCHANGED <<vocabulary, job>>
  BY DEF RegisterProvider, RegisterMechanism
<1>2. RegistriesTypeOK'
  BY <1>1 DEF RegisterProvider, RegisterMechanism, PackagesInv, RegistriesTypeOK
<1>3. Finite'
  BY FS_AddElement DEF RegisterProvider, RegisterMechanism, PackagesInv, Finite
<1>4. (PackagesKept /\ AcceptedKept /\ JobsKept)'
  BY <1>1, <1>2, GrowthKeeps
<1>5. QED
  BY <1>2, <1>3, <1>4 DEF PackagesInv

-----------------------------------------------------------------------------
(* Evaluations. *)

\* Steps of evaluations disturb nothing else.
LEMMA EvaluationKeeps ==
    ASSUME PackagesInv, UNCHANGED <<vocabulary, providers, mechanisms, packages, accepted>>
    PROVE  (Finite /\ PackagesKept /\ AcceptedKept)'
  BY DEF PackagesInv, Finite, PackagesKept, AcceptedKept, SignedPackages

LEMMA AskedAreRequirements ==
    ASSUME PackagesInv
    PROVE  Asked \subseteq Requirement
  BY DEF Asked, PackagesInv, AcceptedKept, PackagesKept, SignedPackages

LEMMA BeginKeeps ==
    ASSUME RegistriesAssumption, PackagesInv, NEW j \in Jobs, NEW r \in Asked,
           NEW e \in Embodiments, NEW minimum \in Minima, Begin(j, r, e, minimum),
           UNCHANGED <<packages, accepted>>
    PROVE  PackagesInv'
<1> DEFINE vocab == vocabulary[Operator]
           p == Select(providers, vocab, r, e, minimum)
           d == Validate(vocab, r)
           s == [stage |-> "running", requirement |-> r, embodiment |-> e,
                 minimum |-> minimum, provider |-> p, meant |-> d, result |-> NoResult]
<1>1. providers \subseteq Provider /\ IsFiniteSet(providers) /\ Vocabulary(vocab)
  BY VocabulariesAre DEF PackagesInv, RegistriesTypeOK, Finite, RegistriesAssumption
<1>2. p # NoProvider /\ job' = [job EXCEPT ![j] = s]
  BY DEF Begin
<1>3. p \in Candidates(providers, vocab, r, e, minimum)
  BY <1>1, <1>2, Selected
<1>4. /\ p \in providers /\ d # Undefined /\ <<r.id, d.version>> \in p.supports
  BY <1>3 DEF Candidates
<1>5. /\ d \in vocab /\ d \in Definition /\ d.id = r.id
      /\ r.version # NoVersion => d.version = r.version /\ Fits(r, d)
  BY <1>1, <1>4, Validated, Resolved
<1>6. s \in Job
  <2>1. r \in Requirement /\ minimum \in Levels
    BY AskedAreRequirements DEF Minima, Levels
  <2>2. p \in Providers
    BY <1>4 DEF PackagesInv, RegistriesTypeOK
  <2>3. QED
    BY <1>5, <2>1, <2>2 DEF Job
<1>7. JobKept(s, vocab)
  BY <1>4, <1>5 DEF JobKept
<1>8. RegistriesTypeOK'
  <2>1. job' \in [Jobs -> Job \cup {Idle, Failed}]
    BY <1>2, <1>6 DEF PackagesInv, RegistriesTypeOK
  <2>2. QED
    BY <2>1 DEF Begin, PackagesInv, RegistriesTypeOK
<1>9. JobsKept'
  <2>1. job'[j] = s /\ \A i \in Jobs : i # j => job'[i] = job[i]
    BY <1>2 DEF PackagesInv, RegistriesTypeOK
  <2>2. QED
    BY <1>7, <2>1 DEF Begin, PackagesInv, JobsKept
<1>10. QED
  BY <1>8, <1>9, EvaluationKeeps DEF Begin, PackagesInv

LEMMA ReturnKeeps ==
    ASSUME RegistriesAssumption, PackagesInv, NEW j \in Jobs, NEW x \in Results, Return(j, x),
           UNCHANGED <<packages, accepted>>
    PROVE  PackagesInv'
<1> DEFINE vocab == vocabulary[Operator]
           s == job[j]
           d == Validate(vocab, s.requirement)
           t == IF ResultFits(x, s, d) THEN [s EXCEPT !.stage = "accepted", !.result = x] ELSE Failed
<1>1. s.stage = "running" /\ job' = [job EXCEPT ![j] = t]
  BY DEF Return
<1>2. s \in Job
  BY <1>1 DEF PackagesInv, RegistriesTypeOK, Idle, Failed
<1>3. x \in Result
  BY DEF RegistriesAssumption
<1>4. t \in Job \cup {Failed}
  BY <1>2, <1>3 DEF Job
<1>5. t \in Job => JobKept(t, vocab)
  <2>1. SUFFICES ASSUME ResultFits(x, s, d)
                 PROVE  JobKept([s EXCEPT !.stage = "accepted", !.result = x], vocab)
    BY DEF Failed, Job
  <2>2. JobKept(s, vocab)
    BY <1>2 DEF PackagesInv, JobsKept
  <2>3. Vocabulary(vocab)
    BY VocabulariesAre DEF PackagesInv, RegistriesAssumption
  <2>4. d = s.meant
    BY <2>1, <2>2, <2>3, MeantOrLost DEF JobKept, ResultFits
  <2>5. /\ x.id = s.meant.id /\ x.version = s.meant.version /\ x.unit = s.meant.unit
        /\ x.level \in s.provider.levels /\ x.level >= s.minimum
    BY <2>1, <2>4 DEF ResultFits
  <2> DEFINE a == [s EXCEPT !.stage = "accepted", !.result = x]
  <2>6. /\ a.stage = "accepted" /\ a.result = x /\ a.meant = s.meant /\ a.minimum = s.minimum
        /\ a.requirement = s.requirement /\ a.provider = s.provider
    BY <1>2 DEF Job
  <2> HIDE DEF a
  <2>7. QED
    BY <2>2, <2>5, <2>6 DEF JobKept
<1>6. RegistriesTypeOK'
  <2>1. job' \in [Jobs -> Job \cup {Idle, Failed}]
    BY <1>1, <1>4 DEF PackagesInv, RegistriesTypeOK
  <2>2. QED
    BY <2>1 DEF Return, PackagesInv, RegistriesTypeOK
<1>7. JobsKept'
  <2>1. job'[j] = t /\ \A i \in Jobs : i # j => job'[i] = job[i]
    BY <1>1 DEF PackagesInv, RegistriesTypeOK
  <2>2. QED
    BY <1>5, <2>1 DEF Return, PackagesInv, JobsKept
<1>8. QED
  BY <1>6, <1>7, EvaluationKeeps DEF Return, PackagesInv

-----------------------------------------------------------------------------
(* Packages. *)

\* What Seal makes is genuine.
LEMMA SealedIsGenuine ==
    ASSUME NEW mirror, NEW scope, NEW u \in AuthorityIds, NEW set
    PROVE  LET p == Seal(mirror, scope, u, set, KeyOf[u]) IN
           Genuine(p) /\ p.authority = u /\ p.requirements = set
  BY DEF Seal, Genuine

\* The item create writes for a requirement names its version, has a unit if the
\* definition has one, and resolves to the definition.
LEMMA CanonicalItem ==
    ASSUME RegistriesAssumption, NEW vocab, Vocabulary(vocab),
           NEW r \in Requirement, Resolve(vocab, r) # Undefined
    PROVE  LET d == Resolve(vocab, r)  item == Canonical(r, d) IN
           /\ item \in Requirement /\ item.version # NoVersion
           /\ Resolve(vocab, item) = d
           /\ item.unit = NoUnit => d.unit = NoUnit
<1> DEFINE d == Resolve(vocab, r)
           item == [r EXCEPT !.version = d.version,
                             !.unit = IF r.unit = NoUnit THEN d.unit ELSE @]
<1>1. d \in vocab /\ d \in Definition /\ d.id = r.id
  BY Resolved
<1>2. d.version \in Versions /\ d.unit \in Units \cup {NoUnit}
  BY <1>1 DEF Definition
<1>3. item \in Requirement
  BY <1>2 DEF Requirement
<1>4. /\ item.id = r.id /\ item.version = d.version
      /\ item.unit = IF r.unit = NoUnit THEN d.unit ELSE r.unit
  BY DEF Requirement
<1>5. item.version # NoVersion
  BY <1>2, <1>4 DEF RegistriesAssumption
<1>6. Named(vocab, item.id, item.version) = {d}
  <2>1. item.id = d.id /\ item.version = d.version /\ item.version # NoVersion
    BY <1>1, <1>4, <1>5
  <2> HIDE DEF item, d
  <2>2. QED
    BY <1>1, <2>1 DEF Named, Vocabulary
<1>7. Resolve(vocab, item) = d
  BY <1>6, ResolvesTo
<1>8. QED
  BY <1>3, <1>4, <1>5, <1>7 DEF Canonical

\* One more signed package that satisfies what is said of packages.
LEMMA SigningKeeps ==
    ASSUME PackagesInv, NEW w, packages' = packages \cup {w},
           UNCHANGED <<registryVars, accepted>>,
           LET p == w.package  vocab == vocabulary[Home[p.authority]] IN
           /\ Genuine(p) /\ p.requirements.reqs \subseteq Requirement
           /\ ~w.legacy =>
                 /\ Versioned(p.requirements.reqs) /\ Readable(vocab, p.requirements.reqs)
                 /\ \A r \in p.requirements.reqs : r.unit = NoUnit => Resolve(vocab, r).unit = NoUnit
    PROVE  PackagesInv'
<1>1. (RegistriesTypeOK /\ Finite /\ JobsKept)'
  BY DEF PackagesInv, RegistriesTypeOK, Finite, JobsKept, registryVars
<1>2. PackagesKept'
  BY DEF PackagesInv, PackagesKept, registryVars
<1>3. AcceptedKept'
  <2>1. SignedPackages \subseteq SignedPackages'
    BY DEF SignedPackages
  <2>2. QED
    BY <2>1 DEF PackagesInv, AcceptedKept, registryVars
<1>4. QED
  BY <1>1, <1>2, <1>3 DEF PackagesInv

LEMMA CreateKeeps ==
    ASSUME RegistriesAssumption, PackagesAssumption, PackagesInv,
           NEW u \in AuthorityIds, NEW set \in RequirementSets, NEW policy, NEW scope,
           Create(u, set, policy, scope)
    PROVE  PackagesInv'
<1> DEFINE vocab == vocabulary[Home[u]]
           items == [set EXCEPT !.reqs = CanonicalItems(vocab, @)]
           w == [package |-> Seal(<<set.space, policy>>, scope, u, items, KeyOf[u]),
                 legacy |-> FALSE]
<1>1. set \in RequirementSet
  BY DEF PackagesAssumption
<1>2. Vocabulary(vocab)
  BY VocabulariesAre DEF PackagesInv, PackagesAssumption
<1>3. items.reqs = CanonicalItems(vocab, set.reqs) /\ set.reqs \subseteq Requirement
  BY <1>1 DEF RequirementSet
<1>4. /\ \A r \in set.reqs : Resolve(vocab, r) # Undefined
      /\ Readable(vocab, items.reqs)
  BY <1>3 DEF Create, Creatable, Readable
<1>5. ASSUME NEW i \in items.reqs
      PROVE  /\ i \in Requirement /\ i.version # NoVersion
             /\ i.unit = NoUnit => Resolve(vocab, i).unit = NoUnit
  <2>1. PICK r \in set.reqs : i = Canonical(r, Resolve(vocab, r))
    BY <1>3 DEF CanonicalItems
  <2>2. QED
    BY <1>2, <1>3, <1>4, <2>1, CanonicalItem
<1>6. /\ Genuine(w.package) /\ w.package.authority = u /\ w.package.requirements = items
  BY SealedIsGenuine
<1>7. packages' = packages \cup {w} /\ UNCHANGED <<registryVars, accepted>>
  BY DEF Create
<1> HIDE DEF items, w
<1>8. QED
  BY <1>4, <1>5, <1>6, <1>7, SigningKeeps DEF Versioned

LEMMA CreateLegacyKeeps ==
    ASSUME PackagesAssumption, PackagesInv,
           NEW u \in AuthorityIds, NEW set \in LegacySets, CreateLegacy(u, set)
    PROVE  PackagesInv'
<1> DEFINE w == [package |-> Seal(MirrorOf(set), {set.space}, u, set, KeyOf[u]), legacy |-> TRUE]
<1>1. set.reqs \subseteq Requirement
  BY DEF PackagesAssumption, RequirementSet
<1>2. /\ Genuine(w.package) /\ w.package.requirements = set /\ w.legacy
  BY SealedIsGenuine
<1>3. packages' = packages \cup {w} /\ UNCHANGED <<registryVars, accepted>>
  BY DEF CreateLegacy
<1> HIDE DEF w
<1>4. QED
  BY <1>1, <1>2, <1>3, SigningKeeps

LEMMA AcceptKeeps ==
    ASSUME PackagesAssumption, PackagesInv, NEW s \in Sites, NEW p \in Carried, Accept(s, p)
    PROVE  PackagesInv'
<1>1. Verifies(s, p) /\ accepted' = accepted \cup {[site |-> s, package |-> p]}
  BY DEF Accept
<1>2. UNCHANGED <<vocabulary, providers, mechanisms, job, packages>>
  BY DEF Accept, registryVars
<1>3. /\ p \in SignedPackages /\ Genuine(p)
      /\ Anchors[s][p.authority].key = KeyOf[p.authority]
  BY <1>1, GenuineOnly DEF PackagesInv, PackagesKept, SignedPackages
<1>4. AcceptedKept'
  BY <1>1, <1>2, <1>3 DEF PackagesInv, AcceptedKept, Verifies, SignedPackages
<1>5. (RegistriesTypeOK /\ Finite /\ PackagesKept /\ JobsKept)'
  BY <1>2 DEF PackagesInv, RegistriesTypeOK, Finite, PackagesKept, JobsKept
<1>6. QED
  BY <1>4, <1>5 DEF PackagesInv

-----------------------------------------------------------------------------
(* The specification. *)

LEMMA PackagesStep ==
    ASSUME RegistriesAssumption, PackagesAssumption, PackagesInv, [PackagesNext]_packageVars
    PROVE  PackagesInv'
<1>1. CASE Grow /\ UNCHANGED <<packages, accepted>>
  BY <1>1, DefineKeeps, RegisterKeeps DEF Grow
<1>2. CASE Evaluate(Asked) /\ UNCHANGED <<packages, accepted>>
  BY <1>2, BeginKeeps, ReturnKeeps DEF Evaluate
<1>3. CASE \E u \in AuthorityIds :
              \/ \E set \in RequirementSets : \E policy \in PolicyIds, scope \in (SUBSET Spaces) \ {{}} :
                    Create(u, set, policy, scope)
              \/ \E set \in LegacySets : CreateLegacy(u, set)
  BY <1>3, CreateKeeps, CreateLegacyKeeps
<1>4. CASE \E s \in Sites, p \in Carried : Accept(s, p)
  BY <1>4, AcceptKeeps
<1>5. CASE UNCHANGED packageVars
  <2>1. UNCHANGED <<vocabulary, providers, mechanisms, job, packages, accepted>>
    BY <1>5 DEF packageVars, registryVars
  <2>2. QED
    BY <2>1 DEF PackagesInv, RegistriesTypeOK, Finite, PackagesKept, AcceptedKept, JobsKept,
                SignedPackages
<1>6. QED
  BY <1>1, <1>2, <1>3, <1>4, <1>5 DEF PackagesNext

LEMMA PackagesInductive ==
    ASSUME RegistriesAssumption, PackagesAssumption
    PROVE  PackagesSpec => []PackagesInv
<1>1. PackagesInit => PackagesInv
  BY Initially
<1>2. PackagesInv /\ [PackagesNext]_packageVars => PackagesInv'
  BY PackagesStep
<1>3. QED
  BY <1>1, <1>2, PTL DEF PackagesSpec

\* Type correctness, for any vocabularies, providers and packages; that a key
\* has one definition at a site is what everything else rests on
\* (vocabulary.py:52-63).
THEOREM RegistriesTypeCorrect ==
    ASSUME RegistriesAssumption, PackagesAssumption
    PROVE  PackagesSpec => []RegistriesTypeOK
<1>1. PackagesInv => RegistriesTypeOK
  BY DEF PackagesInv
<1>2. QED
  BY <1>1, PackagesInductive, PTL

\* Nothing a carrier altered is accepted, and nothing an authority signed beyond
\* what the site trusts it for (place_package.py:186-212).
THEOREM AcceptedPackagesAreSigned ==
    ASSUME RegistriesAssumption, PackagesAssumption
    PROVE  PackagesSpec => []AcceptedAsSigned
<1>1. PackagesInv => AcceptedAsSigned
  <2> SUFFICES ASSUME PackagesInv, NEW a \in accepted
               PROVE  LET p == a.package  anchor == Anchors[a.site][p.authority] IN
                      /\ p \in {w.package : w \in packages}
                      /\ p.signature[1] = KeyOf[p.authority] /\ anchor.key = KeyOf[p.authority]
                      /\ p.requirements.place \in anchor.places /\ p.scope \subseteq anchor.scopes
    BY DEF AcceptedAsSigned
  <2>1. a.package.signature = <<KeyOf[a.package.authority], a.package.authority, a.package.digest>>
    BY GenuineParts DEF PackagesInv, AcceptedKept
  <2>2. QED
    BY <2>1 DEF PackagesInv, AcceptedKept, SignedPackages
<1>2. QED
  BY <1>1, PackagesInductive, PTL

\* The version create writes into every item keeps a package readable, however
\* the vocabularies grow (place_package.py:73-124, vocabulary.py:52-76).
THEOREM SignedPackagesStayReadable ==
    ASSUME RegistriesAssumption, PackagesAssumption
    PROVE  PackagesSpec => []PackagesStayReadable
<1>1. PackagesInv => PackagesStayReadable
  BY DEF PackagesInv, PackagesKept, AcceptedKept, PackagesStayReadable
<1>2. QED
  BY <1>1, PackagesInductive, PTL

\* Two vocabularies that nobody compares give an accepted package one meaning:
\* its operators and units tie them together (place_package.py:84-101,
\* vocabulary.py:78-100).
THEOREM MeaningIsShared ==
    ASSUME RegistriesAssumption, PackagesAssumption
    PROVE  PackagesSpec => []MeaningTravels
<1>1. ASSUME PackagesInv, NEW a \in accepted, NEW w \in packages, a.package = w.package,
             ~w.legacy, NEW r \in a.package.requirements.reqs
      PROVE  LET d == Resolve(vocabulary[Home[a.package.authority]], r)
                 e == Resolve(vocabulary[a.site], r)
             IN  /\ d.comparison = e.comparison
                 /\ NoUnit \in {d.unit, e.unit} \/ d.unit = e.unit
                 /\ TypeMatches(r, d) /\ TypeMatches(r, e)
  <2> DEFINE here  == vocabulary[Home[a.package.authority]]
             there == vocabulary[a.site]
             d == Resolve(here, r)
             e == Resolve(there, r)
  <2>1. /\ Genuine(a.package) /\ Versioned(a.package.requirements.reqs)
        /\ Readable(here, a.package.requirements.reqs)
        /\ r.unit = NoUnit => d.unit = NoUnit
    BY <1>1 DEF PackagesInv, PackagesKept
  <2>2. a.site \in Sites /\ Readable(there, a.package.requirements.reqs)
    BY <1>1, <2>1 DEF PackagesInv, AcceptedKept
  <2>3. Vocabulary(here) /\ Vocabulary(there)
    BY <1>1, <2>1, <2>2, VocabulariesAre DEF PackagesInv, Genuine, PackagesAssumption
  <2>4. Validate(here, r) # Undefined /\ Validate(there, r) # Undefined /\ r.version # NoVersion
    BY <1>1, <2>1, <2>2 DEF Readable, Versioned
  <2>5. d \in Definition /\ e \in Definition /\ Fits(r, d) /\ Fits(r, e)
    <3>1. Validate(here, r) = d /\ d \in Definition /\ Fits(r, d)
      BY <2>3, <2>4, Validated
    <3>2. Validate(there, r) = e /\ e \in Definition /\ Fits(r, e)
      BY <2>3, <2>4, Validated
    <3>3. QED
      BY <3>1, <3>2
  <2> HIDE DEF d, e
  <2>6. d.comparison = e.comparison
    BY <2>5 DEF Fits, OperatorOf, Definition, Comparisons
  <2>7. NoUnit \in {d.unit, e.unit} \/ d.unit = e.unit
    BY <2>1, <2>5 DEF Fits
  <2>8. QED
    BY <2>5, <2>6, <2>7 DEF Fits, d, e
<1>2. PackagesInv => MeaningTravels
  BY <1>1 DEF MeaningTravels
<1>3. QED
  BY <1>2, PackagesInductive, PTL

\* Evidence is about the definition its provider was selected for, although the
\* registries may grow while the provider runs (providers.py:160-212).
THEOREM AcceptedResultsFit ==
    ASSUME RegistriesAssumption, PackagesAssumption
    PROVE  PackagesSpec => []AcceptedResultFits
<1>1. ASSUME PackagesInv, NEW j \in Jobs, job[j].stage = "accepted"
      PROVE  LET s == job[j]  x == s.result IN
             /\ <<x.id, x.version, x.unit>> = <<s.meant.id, s.meant.version, s.meant.unit>>
             /\ <<x.id, x.version>> \in s.provider.supports
             /\ x.level \in s.provider.levels /\ x.level >= s.minimum
  <2>1. job[j] \in Job
    BY <1>1 DEF PackagesInv, RegistriesTypeOK, Idle, Failed
  <2>2. QED
    BY <1>1, <2>1 DEF PackagesInv, JobsKept, JobKept
<1>2. PackagesInv => AcceptedResultFits
  BY <1>1 DEF AcceptedResultFits
<1>3. QED
  BY <1>2, PackagesInductive, PTL

\* From the signed package to the measurement: one version, one unit
\* (place_package.py:86-88, vocabulary.py:96-99, providers.py:185-207).
THEOREM MeasurementsAreAsWritten ==
    ASSUME RegistriesAssumption, PackagesAssumption
    PROVE  PackagesSpec => []MeasuredAsWritten
<1>1. ASSUME PackagesInv, NEW j \in Jobs, job[j].stage = "accepted",
             job[j].requirement.version # NoVersion
      PROVE  LET s == job[j]  r == s.requirement IN
             /\ <<s.result.id, s.result.version>> = <<r.id, r.version>>
             /\ NoUnit \in {r.unit, s.result.unit} \/ s.result.unit = r.unit
  <2>1. job[j] \in Job
    BY <1>1 DEF PackagesInv, RegistriesTypeOK, Idle, Failed
  <2>2. QED
    BY <1>1, <2>1 DEF PackagesInv, JobsKept, JobKept, Fits
<1>2. PackagesInv => MeasuredAsWritten
  BY <1>1 DEF MeasuredAsWritten
<1>3. QED
  BY <1>2, PackagesInductive, PTL

-----------------------------------------------------------------------------
(* Selection over time. *)

\* Every step leaves the registries as they are or adds to one of them.
LEMMA RegistriesGrow ==
    ASSUME RegistriesAssumption, PackagesInv, [PackagesNext]_packageVars
    PROVE  /\ providers \subseteq providers' /\ mechanisms \subseteq mechanisms'
           /\ \A s \in Sites : vocabulary[s] \subseteq vocabulary'[s]
<1>1. ASSUME NEW s \in Sites, NEW d \in Definitions, Define(s, d), NEW t \in Sites
      PROVE  vocabulary[t] \subseteq vocabulary'[t]
  BY <1>1 DEF Define, PackagesInv, RegistriesTypeOK
<1>2. CASE Grow
  BY <1>1, <1>2 DEF Grow, Define, RegisterProvider, RegisterMechanism
<1>3. CASE UNCHANGED <<vocabulary, providers, mechanisms>>
  BY <1>3
<1>4. QED
  BY <1>2, <1>3 DEF PackagesNext, packageVars, registryVars, Evaluate, Begin, Return, Create,
                    CreateLegacy, Accept

\* A selection only ever moves to a preferred provider or mechanism, and is only
\* lost where a second version makes a requirement ambiguous
\* (providers.py:104-151, mapping.py:80-109).
THEOREM SelectionOnlyImproves ==
    ASSUME RegistriesAssumption, PackagesAssumption
    PROVE  PackagesSpec => SelectionImproves
<1> DEFINE Better(r, e, minimum) ==
             LET now == <<Select(providers, vocabulary[Operator], r, e, minimum),
                          Select(mechanisms, vocabulary[Operator], r, e, minimum)>>
                 then == <<Select(providers', vocabulary'[Operator], r, e, minimum),
                           Select(mechanisms', vocabulary'[Operator], r, e, minimum)>>
             IN  \A i \in {1, 2} : now[i] # NoProvider =>
                    IF then[i] = NoProvider THEN r.version = NoVersion
                    ELSE Preferred(then[i], now[i])
<1>1. ASSUME PackagesInv, PackagesInv', [PackagesNext]_packageVars,
             NEW r \in Requirements, NEW e \in Embodiments, NEW minimum \in Minima
      PROVE  Better(r, e, minimum)
  <2>1. /\ providers \subseteq providers' /\ mechanisms \subseteq mechanisms'
        /\ vocabulary[Operator] \subseteq vocabulary'[Operator]
    BY <1>1, RegistriesGrow DEF RegistriesAssumption
  <2>2. /\ Vocabulary(vocabulary[Operator]) /\ Vocabulary(vocabulary'[Operator])
    BY <1>1, VocabulariesAre DEF PackagesInv, RegistriesTypeOK, RegistriesAssumption, Vocabulary
  <2>3. /\ providers' \subseteq Provider /\ IsFiniteSet(providers')
        /\ mechanisms' \subseteq Provider /\ IsFiniteSet(mechanisms')
    BY <1>1 DEF PackagesInv, RegistriesTypeOK, Finite, RegistriesAssumption
  <2> DEFINE Grows(old, new) ==
               Select(old, vocabulary[Operator], r, e, minimum) # NoProvider =>
                 IF Select(new, vocabulary'[Operator], r, e, minimum) = NoProvider
                 THEN r.version = NoVersion
                 ELSE Preferred(Select(new, vocabulary'[Operator], r, e, minimum),
                                Select(old, vocabulary[Operator], r, e, minimum))
  <2>4. Grows(providers, providers')
    BY <2>1, <2>2, <2>3, SelectionGrows
  <2>5. Grows(mechanisms, mechanisms')
    BY <2>1, <2>2, <2>3, SelectionGrows
  <2>6. QED
    BY <2>4, <2>5
<1> HIDE DEF Better
<1>2. PackagesInv /\ PackagesInv' /\ [PackagesNext]_packageVars =>
        [<<vocabulary, providers, mechanisms>>' # <<vocabulary, providers, mechanisms>> =>
           \A r \in Requirements, e \in Embodiments, minimum \in Minima :
              Better(r, e, minimum)]_registryVars
  BY <1>1
<1>3. QED
  BY <1>2, PackagesInductive, PTL DEF PackagesSpec, SelectionImproves, Better

================================================================================
