\* A rule for actors whose attribute is true, and an actor that has it as 1.
CONSTANTS
    Documents <- Certified
    Requests <- AsOne
    Engines = {"local", "opa"}
    Nowhere = "none"
    Alike <- TrueIsOne
SPECIFICATION PolicySpec
INVARIANTS FollowsAlgorithm
CHECK_DEADLOCK FALSE
