\* Policies and the robot move on between planning, testing and admission, and under
\* an issued profile.
CONSTANTS
    Ids <- MCIds
    HumanSeparation = "separation"
    Versions = {"1.0"}
    Scopes <- MCScopes
    Restrictions = {"capture_off"}
    NoRestriction = "none"
    Capabilities <- MCIds
    Places = {"clinic"}
    Spaces = {"lobby", "ward"}
    Environments = {"site1", "site2"}
    Builds = {"b1", "b2"}
    Controllers = {"c1", "c2"}
    Embodiments = {"base"}
    Policies <- LifecyclePolicies
    RobotStates <- LifecycleRobots
    Mapping <- MCMapping
    Actors = {"r1"}
    Challenges = {n1}
    Calls = {k1}
    RunnerLevels = {2}
    Validity = 2
    ExternalPlans <- NoPlans
    LegacyCallers = FALSE
    MaxTime = 2
    MaxPlans = 2
    MaxRecords = 2
    MaxRestarts = 0
    Doors <- NoDoors
    AcceptedAtDoors = {}
    Tasks <- NoTasks
    AcceptedByFleet = {}
SPECIFICATION LifecycleSpec
INVARIANTS TypeOK GuaranteesHold GuaranteesProven ValidIsProven
CHECK_DEADLOCK FALSE
