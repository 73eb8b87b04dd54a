\* An author and an operator whose vocabularies grow apart, two authorities of
\* different scope, packages altered on their way, and evaluations of what the
\* operator accepts by providers registered before or after.
CONSTANTS
    Sites = {"author", "operator"}
    Operator = "operator"
    Ids = {"speed", "aisle"}
    Versions = {"1.0", "2.0"}
    NoVersion = "any"
    Units = {"m/s", "m", "ft"}
    NoUnit = "none"
    Embodiments = {"base", "humanoid"}
    BuiltIns <- MCBuiltIns
    Definitions <- MCDefinitions
    Providers <- MCProviders
    Mechanisms <- MCMechanisms
    Requirements <- MCRequirements
    Jobs = {j1}
    Results <- MCResults
    Places = {"clinic"}
    Spaces = {"lobby", "ward"}
    PolicyIds = {"p1", "p2"}
    RequirementSets <- MCRequirementSets
    LegacySets <- MCLegacySets
    AuthorityIds = {"clinic", "desk"}
    Keys = {"k1", "k2"}
    ForeignKey = "k9"
    KeyOf <- MCKeyOf
    Home <- MCHome
    Anchors <- MCAnchors
    MaxPackages = 2
    MaxAccepted = 1
SPECIFICATION PackagesSpec
INVARIANTS RegistriesTypeOK AcceptedAsSigned PackagesStayReadable MeaningTravels AcceptedResultFits MeasuredAsWritten
PROPERTIES SelectionImproves
CHECK_DEADLOCK FALSE
