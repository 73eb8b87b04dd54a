------------------------- MODULE RequirementRegistries -------------------------
(***************************************************************************)
(* What a requirement means and who may test it: the requirement           *)
(* vocabulary (vocabulary.py), the registry of external conformance        *)
(* providers (providers.py) and the registry of local test mechanisms      *)
(* (mapping.py).  All are explicit and local, and grow while the process   *)
(* runs.  Each site, an author of place policies or the operator of a      *)
(* robot, has a vocabulary of its own; no one distributes definitions.     *)
(*                                                                         *)
(* The registries of providers and mechanisms are the operator's, and so   *)
(* is the vocabulary both of them read.                                    *)
(***************************************************************************)
EXTENDS Integers

CONSTANTS
    Sites, Operator,
    Ids, Versions, NoVersion,   \* requirement_version absent
    Units, NoUnit,              \* unit absent; of a definition: None
    Embodiments,
    BuiltIns,                   \* BUILTIN_REQUIREMENTS
    Definitions,                \* the definitions a site may register
    Providers,                  \* the descriptors providers may come with
    Mechanisms,                 \* the ConformanceProviders of mapping.py
    Requirements,               \* requirements the registries are asked about
    Jobs,                       \* evaluations by external providers
    Results                     \* what a provider, well-behaved or not, may return

Kinds       == {"integer", "float", "boolean"}    \* JSON type of a value
ValueTypes  == {"number", "integer", "boolean"}
Comparisons == {"MAX", "MIN", "EXACT", "PROHIBITED"}
Levels      == 0 .. 4
Minima      == {2, 3}     \* the minimum_assurance_level of callers

Definition == [id : Ids, version : Versions, type : ValueTypes,
               unit : Units \cup {NoUnit}, comparison : Comparisons]

Requirement == [id : Ids, version : Versions \cup {NoVersion}, op : {"<=", ">=", "=", "prohibited"},
                kind : Kinds, value : Int, unit : Units \cup {NoUnit}]

\* rank stands for provider_id, ordered as strings are.
Provider == [rank : Nat, priority : Int, supports : SUBSET (Ids \X Versions),
             embodiments : SUBSET Embodiments, levels : SUBSET Levels]

Result == [provider : Nat, id : Ids, version : Versions, level : Levels,
           unit : Units \cup {NoUnit}]

ASSUME RegistriesAssumption ==
    /\ Operator \in Sites /\ NoVersion \notin Versions /\ NoUnit \notin Units
    /\ BuiltIns \cup Definitions \subseteq Definition
    /\ \A c, d \in BuiltIns : <<c.id, c.version>> = <<d.id, d.version>> => c = d
    /\ Providers \cup Mechanisms \subseteq Provider
    /\ Requirements \subseteq Requirement /\ Results \subseteq Result

VARIABLES
    vocabulary,   \* RequirementVocabularyRegistry._definitions of each site
    providers,    \* ConformanceProviderRegistry._providers
    mechanisms,   \* RequirementMappingRegistry._providers
    job           \* evaluations under way and their results

registryVars == <<vocabulary, providers, mechanisms, job>>

-----------------------------------------------------------------------------
(* Vocabulary. *)

Undefined == [id |-> "undefined"]     \* unresolved, or the ValueError of a mismatch

Named(vocab, id, version) ==
    {d \in vocab : d.id = id /\ (version = NoVersion \/ d.version = version)}

\* Mutant: no version means the newest there is.
ResolveNewest(vocab, r) ==
    LET named == Named(vocab, r.id, r.version) IN
    IF named = {} THEN Undefined
    ELSE CHOOSE d \in named : d.version = "2.0" \/ \A c \in named : c.version # "2.0"

\* resolve: the exact version, or the only one if none is given.
Resolve(vocab, r) ==
    LET named == Named(vocab, r.id, r.version) IN
    IF \E d \in named : named = {d} THEN CHOOSE d \in named : TRUE ELSE Undefined

TypeMatches(r, d) ==
    \/ d.type = "number" /\ r.kind \in {"integer", "float"}
    \/ d.type = r.kind

OperatorOf == [MAX |-> "<=", MIN |-> ">=", EXACT |-> "=", PROHIBITED |-> "prohibited"]

\* Mutant: the unit is not compared.
FitsAnyUnit(r, d) == TypeMatches(r, d) /\ r.op = OperatorOf[d.comparison]

\* The strict part of validate, of requirements that name their version.
Fits(r, d) ==
    /\ TypeMatches(r, d) /\ r.op = OperatorOf[d.comparison]
    /\ d.unit # NoUnit => r.unit \in {NoUnit, d.unit}

Validate(vocab, r) ==
    LET d == Resolve(vocab, r) IN
    IF d # Undefined /\ (r.version # NoVersion => Fits(r, d)) THEN d ELSE Undefined

-----------------------------------------------------------------------------
(* Selection. *)

NoProvider == [rank |-> "none"]

Preferred(p, q) ==
    p.priority > q.priority \/ (p.priority = q.priority /\ p.rank <= q.rank)

\* Mutant: the lowest priority wins.
LeastOf(candidates) ==
    IF candidates = {} THEN NoProvider
    ELSE CHOOSE p \in candidates : \A q \in candidates : p.priority <= q.priority

BestOf(candidates) ==
    IF candidates = {} THEN NoProvider
    ELSE CHOOSE p \in candidates : \A q \in candidates : Preferred(p, q)

\* The steps of ConformanceProviderRegistry.select, which tell only its reasons
\* apart, and those of RequirementMappingRegistry.select over mechanisms.
Candidates(registry, vocab, r, embodiment, minimum) ==
    LET d == Validate(vocab, r) IN
    {p \in registry : /\ d # Undefined /\ <<r.id, d.version>> \in p.supports
                      /\ embodiment \in p.embodiments
                      /\ \E level \in p.levels : level >= minimum}

Select(registry, vocab, r, embodiment, minimum) ==
    BestOf(Candidates(registry, vocab, r, embodiment, minimum))

-----------------------------------------------------------------------------
NoResult == [provider |-> "none"]
Idle     == [stage |-> "idle"]
Failed   == [stage |-> "failed"]     \* evaluate raised

RegistriesInit ==
    /\ vocabulary = [s \in Sites |-> BuiltIns]
    /\ providers = {} /\ mechanisms = {}
    /\ job = [j \in Jobs |-> Idle]

\* Mutant: a later definition takes the place of the one it has the key of.
Redefine(s, d) ==
    /\ vocabulary' = [vocabulary EXCEPT ![s] =
         {c \in @ : <<c.id, c.version>> # <<d.id, d.version>>} \cup {d}]
    /\ UNCHANGED <<providers, mechanisms, job>>

\* Mutant: a key may be registered again.
DefineAgain(s, d) ==
    /\ vocabulary' = [vocabulary EXCEPT ![s] = @ \cup {d}]
    /\ UNCHANGED <<providers, mechanisms, job>>

\* RequirementVocabularyRegistry.register: a key is never registered again.
Define(s, d) ==
    /\ \A c \in vocabulary[s] : <<c.id, c.version>> # <<d.id, d.version>>
    /\ vocabulary' = [vocabulary EXCEPT ![s] = @ \cup {d}]
    /\ UNCHANGED <<providers, mechanisms, job>>

\* ConformanceProviderRegistry.register.
RegisterProvider(p) ==
    /\ p.supports # {} /\ p.embodiments # {} /\ p.levels # {}
    /\ \A q \in providers : q.rank # p.rank
    /\ providers' = providers \cup {p}
    /\ UNCHANGED <<vocabulary, mechanisms, job>>

\* RequirementMappingRegistry.register.
RegisterMechanism(m) ==
    /\ \A q \in mechanisms : q.rank # m.rank
    /\ mechanisms' = mechanisms \cup {m}
    /\ UNCHANGED <<vocabulary, providers, job>>

\* evaluate, up to the call of the provider.
Begin(j, r, embodiment, minimum) ==
    LET p == Select(providers, vocabulary[Operator], r, embodiment, minimum) IN
    /\ job[j] = Idle /\ p # NoProvider
    /\ job' = [job EXCEPT ![j] =
         [stage |-> "running", requirement |-> r, embodiment |-> embodiment,
          minimum |-> minimum, provider |-> p,
          meant |-> Validate(vocabulary[Operator], r), result |-> NoResult]]
    /\ UNCHANGED <<vocabulary, providers, mechanisms>>

\* Mutant: the level is compared with what is asked, not with the descriptor.
FitsAnyLevel(x, s, d) ==
    /\ d # Undefined /\ x.provider = s.provider.rank
    /\ x.id = d.id /\ x.version = d.version /\ x.unit = d.unit
    /\ s.embodiment \in s.provider.embodiments
    /\ x.level >= s.minimum

\* validate_result against the definition d of this moment; provider stands for
\* the id, version and evidence type of its descriptor.
ResultFits(x, s, d) ==
    /\ d # Undefined /\ x.provider = s.provider.rank
    /\ x.id = d.id /\ x.version = d.version /\ x.unit = d.unit
    /\ s.embodiment \in s.provider.embodiments
    /\ x.level \in s.provider.levels /\ x.level >= s.minimum

\* The provider returns: its result is validated, against registries that may
\* have grown since it was selected, and becomes a test result or an error.
Return(j, x) ==
    LET s == job[j] IN
    /\ s.stage = "running"
    /\ job' = [job EXCEPT ![j] =
         IF ResultFits(x, s, Validate(vocabulary[Operator], s.requirement))
         THEN [s EXCEPT !.stage = "accepted", !.result = x] ELSE Failed]
    /\ UNCHANGED <<vocabulary, providers, mechanisms>>

\* Nothing is ever taken out of a registry.
Grow ==
    \/ \E s \in Sites, d \in Definitions : Define(s, d)
    \/ \E p \in Providers : RegisterProvider(p)
    \/ \E m \in Mechanisms : RegisterMechanism(m)

\* Evaluations of what the operator is asked.
Evaluate(asked) ==
    \E j \in Jobs :
       \/ \E r \in asked, e \in Embodiments, minimum \in Minima : Begin(j, r, e, minimum)
       \/ \E x \in Results : Return(j, x)

-----------------------------------------------------------------------------
(* Properties. *)

Job == [stage : {"running", "accepted"}, requirement : Requirement,
        embodiment : Embodiments, minimum : Levels, provider : Providers,
        meant : Definition, result : Result \cup {NoResult}]

RegistriesTypeOK ==
    /\ vocabulary \in [Sites -> SUBSET Definition]
    /\ \A s \in Sites : \A c, d \in vocabulary[s] :
          <<c.id, c.version>> = <<d.id, d.version>> => c = d
    /\ providers \subseteq Providers /\ mechanisms \subseteq Mechanisms
    /\ job \in [Jobs -> Job \cup {Idle, Failed}]

\* A result that becomes evidence is about the definition its provider was
\* selected for, which the provider declared to support, in its unit and at a
\* level the provider declared and the caller asked for, although definitions
\* were registered while the provider ran (providers.py:160-212).
AcceptedResultFits ==
    \A j \in Jobs : job[j].stage = "accepted" =>
        LET s == job[j]  x == s.result IN
        /\ <<x.id, x.version, x.unit>> = <<s.meant.id, s.meant.version, s.meant.unit>>
        /\ <<x.id, x.version>> \in s.provider.supports
        /\ x.level \in s.provider.levels /\ x.level >= s.minimum

\* Growth of the registries never hands a requirement to a worse provider or
\* mechanism: a selection only ever moves to one that is preferred, and is only
\* lost by a requirement that names no version, when its id gets a second one
\* (providers.py:104-151, mapping.py:80-109, vocabulary.py:65-76).
SelectionImproves ==
    [][<<vocabulary, providers, mechanisms>>' # <<vocabulary, providers, mechanisms>> =>
       \A r \in Requirements, e \in Embodiments, minimum \in Minima :
          LET now == <<Select(providers, vocabulary[Operator], r, e, minimum),
                       Select(mechanisms, vocabulary[Operator], r, e, minimum)>>
              then == <<Select(providers', vocabulary'[Operator], r, e, minimum),
                        Select(mechanisms', vocabulary'[Operator], r, e, minimum)>>
          IN  \A i \in {1, 2} : now[i] # NoProvider =>
                 IF then[i] = NoProvider THEN r.version = NoVersion
                 ELSE Preferred(then[i], now[i])]_registryVars
================================================================================
