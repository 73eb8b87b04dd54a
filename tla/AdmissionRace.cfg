\* Two calls, both entry points, one registry that may be restarted, a robot that
\* changes in between.
CONSTANTS
    Ids <- MCIds
    HumanSeparation = "separation"
    Versions = {"1.0"}
    Scopes <- MCScopes
    Restrictions = {"capture_off"}
    NoRestriction = "none"
    Capabilities <- MCIds
    Places = {"clinic"}
    Spaces = {"lobby", "ward"}
    Environments = {"site1", "site2"}
    Builds = {"b1", "b2"}
    Controllers = {"c1", "c2"}
    Embodiments = {"base"}
    Policies <- LobbyOnly
    RobotStates <- ReplayRobots
    Mapping <- MCMapping
    Actors = {"r1"}
    Challenges = {n1, n2}
    Calls = {k1, k2}
    RunnerLevels = {2}
    Validity = 1
    ExternalPlans <- NoPlans
    LegacyCallers = TRUE
    MaxTime = 1
    MaxPlans = 2
    MaxRecords = 2
    MaxRestarts = 1
SPECIFICATION Spec
INVARIANTS SingleUse NonceKept ShownIsGranted
PROPERTIES LosersHaveWinner RaceHasWinner ImplementsContract
CHECK_DEADLOCK FALSE
