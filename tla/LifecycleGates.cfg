\* Two robots, DEGRADED profiles, a door and a fleet that accept one restriction
\* each, revocation and a restart.
CONSTANTS
    Ids <- MCIds
    HumanSeparation = "separation"
    Versions = {"1.0"}
    Scopes <- MCScopes
    Restrictions = {"capture_off", "escort"}
    NoRestriction = "none"
    Capabilities <- MCIds
    Places = {"clinic"}
    Spaces = {"lobby", "ward"}
    Environments = {"site1", "site2"}
    Builds = {"b1", "b2"}
    Controllers = {"c1", "c2"}
    Embodiments = {"base"}
    Policies <- GatePolicies
    RobotStates <- GateRobots
    Mapping <- MCMapping
    Actors = {"r1", "r2"}
    Challenges = {n1}
    Calls = {k1}
    RunnerLevels = {2}
    Validity = 1
    ExternalPlans <- NoPlans
    LegacyCallers = FALSE
    MaxTime = 1
    MaxPlans = 2
    MaxRecords = 2
    MaxRestarts = 1
    Doors <- AllDoors
    AcceptedAtDoors = {"capture_off"}
    Tasks <- GateTasks
    AcceptedByFleet = {"escort"}
SPECIFICATION LifecycleSpec
INVARIANTS LifecycleTypeOK GuaranteesProven CoveredAtGates
PROPERTIES AssessedEntryProven
CHECK_DEADLOCK FALSE
