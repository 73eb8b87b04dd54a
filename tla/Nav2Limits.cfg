\* Ten profiles in any order, a queue shorter than what is sent, a controller
\* that comes and goes.
CONSTANTS
    Profiles <- MCProfiles
    Depth = 3
SPECIFICATION Nav2Spec
INVARIANTS Nav2TypeOK SettledWithinBounds
PROPERTIES NeverLifted LimitApproaches LimitsSettle
