SPECIFICATION Spec
CONSTANTS
    Captures <- AllCaptures
    Answers <- AllAnswers
    Harvesters <- AllHarvesters
    Distributions = {"consumer-chrome", "chrome-for-testing"}
    Counts = {2, 3}
INVARIANTS
    TypeOK
    VariantsAreBrowsers
    OrderPolicy
    CandidatesAreSupported
    MatchMeansSame
PROPERTIES
    EveryReplayEnds
CHECK_DEADLOCK FALSE
