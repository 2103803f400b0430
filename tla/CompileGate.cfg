SPECIFICATION Spec
CONSTANTS
    Captures <- GateCaptures
    Answers <- GateCaptures
    Harvesters <- AllHarvesters
    Distributions = {"consumer-safari"}
    Counts = {3}
INVARIANTS
    RepresentedMeansKept
CHECK_DEADLOCK FALSE
