SPECIFICATION Spec
CONSTANTS
    s1 = s1
    s2 = s2
    a1 = a1
    a2 = a2
    a3 = a3
    x1 = x1
    x2 = x2
    w1 = w1
    w2 = w2
    NoAttempt = NoAttempt
    NoSubmission = NoSubmission
    Submissions = {s1}
    Attempts = {a1, a2, a3}
    Verdicts = {"ACCEPTED", "WRONG_ANSWER"}
    Admins = {x1, x2}
    Workers = {w1}
    MaxPublishRetries = 2
    MaxRetries = 2
    BatchLimit = 2
    MaxFaults = 1
    DLTReliable = FALSE
SYMMETRY Symmetry
CHECK_DEADLOCK FALSE
INVARIANTS
    TablesAgree
    VerdictPublished
PROPERTIES
    VerdictStable
    ImplementsLedger
