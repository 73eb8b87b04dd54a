\* Two validators and two authorities with different scopes, anchors that change,
\* and carriers that doctor one wrapper or notice of each delivery.
CONSTANTS
    Ids <- MCIds
    HumanSeparation = "separation"
    Versions = {"1.0"}
    Scopes <- MCScopes
    Restrictions = {"capture_off"}
    NoRestriction = "none"
    Capabilities <- MCIds
    Places = {"clinic"}
    Spaces = {"lobby", "ward"}
    Environments = {"site1", "site2"}
    Builds = {"b1", "b2"}
    Controllers = {"c1", "c2"}
    Embodiments = {"base"}
    Policies <- SignedPolicies
    RobotStates <- RecordsVideo
    Mapping <- MCMapping
    Actors = {"r1"}
    Challenges = {n1}
    Calls = {k1}
    RunnerLevels = {2}
    Validity = 1
    ExternalPlans <- NoPlans
    LegacyCallers = FALSE
    MaxTime = 0
    MaxPlans = 2
    MaxRecords = 2
    MaxRestarts = 0
    Doors <- NoDoors
    AcceptedAtDoors = {}
    Tasks <- NoTasks
    AcceptedByFleet = {}
    IssuerIds = {"lab", "wardlab"}
    AuthorityIds = {"clinic", "frontdesk"}
    Keys = {"lab", "wardlab", "newkey", "clinic", "frontdesk"}
    ForeignKey = "foreign"
    KeyOf <- MCKeyOf
    IssuerAnchors <- MCIssuerAnchors
    AuthorityAnchors <- MCAuthorityAnchors
    InitialIssuers <- MCInitialIssuers
    InitialAuthorities <- MCInitialAuthorities
    Endorses <- MCEndorses
SPECIFICATION VerifiedSpec
INVARIANTS VerifiedTypeOK VouchedFor PolicyAuthorized ValidIsTrusted HonestIsGranted
CHECK_DEADLOCK FALSE
