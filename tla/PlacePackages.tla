----------------------------- MODULE PlacePackages -----------------------------
(***************************************************************************)
(* Portable, signed place packages (place_package.py): an author turns a   *)
(* requirement set into one file with the definitions of its vocabulary,   *)
(* an operator accepts the file with the definitions of its own.  Nothing  *)
(* else passes between them, the file may be altered on its way, and both  *)
(* vocabularies grow before and after.                                     *)
(***************************************************************************)
EXTENDS RequirementRegistries, FiniteSets

CONSTANTS
    Places, Spaces,
    PolicyIds,                 \* requirement_set_id, and policy_id where one is given
    RequirementSets,           \* what authors start from
    LegacySets,                \* requirement sets of packages made by earlier tools
    AuthorityIds, Keys, ForeignKey, KeyOf,
    Home,                      \* the site of each authority
    Anchors,                   \* the TrustedPolicyAuthorities of each site, an
                               \* unregistered one as a disabled one
    MaxPackages, MaxAccepted   \* bounds on the packages signed and accepted

RequirementSet == [place : Places, space : Spaces, policy : PolicyIds, reqs : SUBSET Requirement]

ASSUME PackagesAssumption ==
    /\ RequirementSets \cup LegacySets \subseteq RequirementSet
    \* Python's == does not tell 1, 1.0 and TRUE apart: no set has two items that
    \* differ in that alone.
    /\ \A set \in RequirementSets \cup LegacySets : \A q, r \in set.reqs :
          q = [r EXCEPT !.kind = q.kind] => q = r
    /\ KeyOf \in [AuthorityIds -> Keys] /\ ForeignKey \notin Keys
    /\ Home \in [AuthorityIds -> Sites]
    /\ \A s \in Sites, u \in AuthorityIds :
          Anchors[s][u] \in [key : Keys, places : SUBSET Places, scopes : SUBSET Spaces,
                             enabled : BOOLEAN]

VARIABLES
    packages,   \* the packages authorities signed, and how
    accepted    \* the packages sites verified

packageVars == <<registryVars, packages, accepted>>

-----------------------------------------------------------------------------
(* _canonical_requirement_set. *)

\* Mutant: the canonical unit is left out.
CanonicalUnitless(r, d) == [r EXCEPT !.version = d.version]

\* The item written for r: its version, and its unit if r leaves it to the definition.
Canonical(r, d) ==
    [r EXCEPT !.version = d.version,
              !.unit = IF r.unit = NoUnit THEN d.unit ELSE @]

\* No two different items for one id and version.
Conflicting(vocab, reqs) ==
    \E q, r \in reqs : q # r /\ Resolve(vocab, q) = Resolve(vocab, r)

CanonicalItems(vocab, reqs) == {Canonical(r, Resolve(vocab, r)) : r \in reqs}

Creatable(vocab, reqs) ==
    /\ \A r \in reqs : Resolve(vocab, r) # Undefined
    /\ LET items == CanonicalItems(vocab, reqs) IN
       (\A i \in items : Validate(vocab, i) # Undefined) /\ ~Conflicting(vocab, items)

-----------------------------------------------------------------------------
(* Packages.  A digest stands for the content it is taken of. *)

Content(p) == <<p.mirror, p.scope, p.authority, p.requirements>>

MirrorOf(set) == <<set.space, set.policy>>     \* place_id, policy_id

\* The digest over all else and the signature over that.
Seal(mirror, scope, u, set, key) ==
    LET digest == <<mirror, scope, u, set>> IN
    [mirror |-> mirror, scope |-> scope, authority |-> u, requirements |-> set,
     digest |-> digest, signature |-> <<key, u, digest>>]

\* _validate_requirement_set.
Readable(vocab, reqs) ==
    (\A r \in reqs : Validate(vocab, r) # Undefined) /\ ~Conflicting(vocab, reqs)

\* Mutant: the authority is authorized for the space and not for all it claims.
VerifiesOneScope(s, p) ==
    LET anchor == Anchors[s][p.authority] IN
    /\ p.mirror = MirrorOf(p.requirements) /\ p.requirements.space \in p.scope
    /\ Readable(vocabulary[s], p.requirements.reqs)
    /\ anchor.enabled /\ p.requirements.place \in anchor.places
    /\ p.requirements.space \in anchor.scopes
    /\ p.digest = Content(p) /\ p.signature = <<anchor.key, p.authority, p.digest>>

\* verify_place_package.
Verifies(s, p) ==
    LET anchor == Anchors[s][p.authority] IN
    /\ p.mirror = MirrorOf(p.requirements) /\ p.requirements.space \in p.scope
    /\ Readable(vocabulary[s], p.requirements.reqs)
    /\ anchor.enabled /\ p.requirements.place \in anchor.places /\ p.scope \subseteq anchor.scopes
    /\ p.digest = Content(p) /\ p.signature = <<anchor.key, p.authority, p.digest>>

\* What a carrier can make of a package without its authority's key.
Doctored(p) ==
    {[p EXCEPT !.scope = scope] : scope \in SUBSET Spaces}
    \cup {[p EXCEPT !.authority = u] : u \in AuthorityIds}
    \cup UNION {{[p EXCEPT !.requirements = q.requirements, !.mirror = q.mirror],
                 [q EXCEPT !.signature = p.signature],
                 Seal(q.mirror, q.scope, p.authority, q.requirements, ForeignKey)} :
                   q \in {w.package : w \in packages}}

Carried == {w.package : w \in packages} \cup UNION {Doctored(w.package) : w \in packages}

-----------------------------------------------------------------------------
PackagesInit == RegistriesInit /\ packages = {} /\ accepted = {}

\* create_place_package by authority u; policy and scope are its optional arguments.
Create(u, set, policy, scope) ==
    LET vocab == vocabulary[Home[u]]
        items == [set EXCEPT !.reqs = CanonicalItems(vocab, @)]
    IN  /\ Cardinality(packages) < MaxPackages
        /\ Creatable(vocab, set.reqs)
        /\ packages' = packages \cup
             {[package |-> Seal(<<set.space, policy>>, scope, u, items, KeyOf[u]),
               legacy |-> FALSE]}
        /\ UNCHANGED <<registryVars, accepted>>

\* A package of an earlier tool, which wrote no versions.
CreateLegacy(u, set) ==
    /\ Cardinality(packages) < MaxPackages
    /\ packages' = packages \cup
         {[package |-> Seal(MirrorOf(set), {set.space}, u, set, KeyOf[u]), legacy |-> TRUE]}
    /\ UNCHANGED <<registryVars, accepted>>

\* A consumer verifies what reached it; a refusal leaves no trace.
Accept(s, p) ==
    /\ Cardinality(accepted) < MaxAccepted
    /\ Verifies(s, p)
    /\ accepted' = accepted \cup {[site |-> s, package |-> p]}
    /\ UNCHANGED <<registryVars, packages>>

\* The operator evaluates what the packages it accepted require.
Asked == UNION {a.package.requirements.reqs : a \in {b \in accepted : b.site = Operator}}

PackagesNext ==
    \/ (Grow \/ Evaluate(Asked)) /\ UNCHANGED <<packages, accepted>>
    \/ \E u \in AuthorityIds :
          \/ \E set \in RequirementSets :
                \E policy \in PolicyIds, scope \in (SUBSET Spaces) \ {{}} : Create(u, set, policy, scope)
          \/ \E set \in LegacySets : CreateLegacy(u, set)
    \/ \E s \in Sites, p \in Carried : Accept(s, p)

PackagesSpec == PackagesInit /\ [][PackagesNext]_packageVars

-----------------------------------------------------------------------------
(* Properties. *)

\* What a site accepts is a package as an authority signed it, which the site
\* trusts for the place and for every space the package claims: nothing a
\* carrier altered is accepted (place_package.py:186-212).
AcceptedAsSigned ==
    \A a \in accepted :
        LET p == a.package  anchor == Anchors[a.site][p.authority] IN
        /\ p \in {w.package : w \in packages}
        /\ p.signature[1] = KeyOf[p.authority] /\ anchor.key = KeyOf[p.authority]
        /\ p.requirements.place \in anchor.places /\ p.scope \subseteq anchor.scopes

\* A package as create_place_package writes it stays readable: to its author,
\* and to every site that has accepted it, however their vocabularies grow
\* (place_package.py:73-124, vocabulary.py:52-76).
PackagesStayReadable ==
    \A w \in packages : ~w.legacy =>
        LET p == w.package IN
        /\ Readable(vocabulary[Home[p.authority]], p.requirements.reqs)
        /\ \A a \in accepted : a.package = p => Readable(vocabulary[a.site], p.requirements.reqs)

\* Author and operator agree on what an accepted package asks: the two
\* vocabularies, which nobody compares, give each of its requirements one
\* comparison, one unit unless one of them has none, and values of a type
\* (place_package.py:84-101, 105-124; vocabulary.py:78-100).
MeaningTravels ==
    \A a \in accepted, w \in packages : a.package = w.package /\ ~w.legacy =>
        \A r \in a.package.requirements.reqs :
            LET d == Resolve(vocabulary[Home[a.package.authority]], r)
                e == Resolve(vocabulary[a.site], r)
            IN  /\ d.comparison = e.comparison
                /\ NoUnit \in {d.unit, e.unit} \/ d.unit = e.unit
                /\ TypeMatches(r, d) /\ TypeMatches(r, e)

\* Nothing is measured in another unit than the signed package writes, and what
\* is measured is the version it writes, although package, definitions and
\* providers come from parties that never compare them (place_package.py:86-88,
\* vocabulary.py:96-99, providers.py:185-207).
MeasuredAsWritten ==
    \A j \in Jobs, a \in accepted :
        LET s == job[j]  r == s.requirement IN
        s.stage = "accepted" /\ r \in a.package.requirements.reqs /\ r.version # NoVersion =>
            /\ <<s.result.id, s.result.version>> = <<r.id, r.version>>
            /\ NoUnit \in {r.unit, s.result.unit} \/ s.result.unit = r.unit
================================================================================
