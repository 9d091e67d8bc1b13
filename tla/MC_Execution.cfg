SPECIFICATION Spec
CONSTANTS
    TestCount = 3
    RawResults <- MCRawResults
    Sizes <- MCSizes
    Wants <- MCWants
    OutputLimit = 2
    Headroom = 1
    ProblemLimits = {0, 3, 3000}
    DefaultTime = 2000
    CompilerOutput <- MCCompilerOutput
    Texts <- MCTexts
    MaxErrorBytes = 5
    OfficialBatch = 2
    RunBatch = 4
    Budget = 3
    MaxFaults = 1
    MaxRestarts = 1
CHECK_DEADLOCK FALSE
INVARIANTS
    ResultRight
    AnswerRight
    RequestBounded
    
