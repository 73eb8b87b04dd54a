\* Every hierarchy of three spaces, sound or not, with rule lists that exercise
\* every step of the algorithm, under either engine.
CONSTANTS
    Documents <- MCDocuments
    Requests <- MCRequests
    Engines = {"local", "opa"}
    Nowhere = "none"
    Alike <- TrueIsOne
SPECIFICATION PolicySpec
INVARIANTS PolicyTypeOK ServesTree FollowsAlgorithm EnginesAgree
PROPERTIES StepsRunOut AlwaysAnswers
CHECK_DEADLOCK FALSE
