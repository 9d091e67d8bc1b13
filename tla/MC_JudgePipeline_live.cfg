SPECIFICATION FairSpec
CONSTANTS
    s1 = s1
    s2 = s2
    a1 = a1
    a2 = a2
    x1 = x1
    x2 = x2
    w1 = w1
    w2 = w2
    NoAttempt = NoAttempt
    NoSubmission = NoSubmission
    Submissions = {s1, s2}
    Attempts = {a1, a2}
    Verdicts = {"ACCEPTED"}
    Admins = {}
    Workers = {w1}
    MaxPublishRetries = 2
    MaxRetries = 2
    BatchLimit = 2
    MaxFaults = 2
    DLTReliable = TRUE
CHECK_DEADLOCK FALSE
INVARIANTS
    NoAttemptLost
PROPERTIES
    EventuallyJudged
