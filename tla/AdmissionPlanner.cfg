\* Planners that claim any coverage of the requirements.
CONSTANTS
    Ids <- GradedIds
    HumanSeparation = "separation"
    Versions = {"1.0"}
    Scopes <- MCScopes
    Restrictions = {"capture_off", "escort"}
    NoRestriction = "none"
    Capabilities <- GradedIds
    Places = {"clinic"}
    Spaces = {"lobby", "ward"}
    Environments = {"site1", "site2"}
    Builds = {"b1", "b2"}
    Controllers = {"c1", "c2"}
    Embodiments = {"base"}
    Policies <- GradedPolicies
    RobotStates <- GradedRobots
    Mapping <- GradedMapping
    Actors = {"r1"}
    Challenges = {n1}
    Calls = {k1}
    RunnerLevels = {2, 3}
    Validity = 1
    ExternalPlans <- AnyCoverage
    LegacyCallers = FALSE
    MaxTime = 0
    MaxPlans = 2
    MaxRecords = 2
    MaxRestarts = 0
SPECIFICATION Spec
INVARIANTS NothingOmitted GuaranteesProven
CHECK_DEADLOCK FALSE
