SPECIFICATION ControllerSpec
CONSTANTS
    p1 = p1
    p2 = p2
    r1 = r1
    d1 = d1
    NoPlan = NoPlan
    NoCandidate = NoCandidate
    Plans <- MCPlans
    RequestIds <- MCRequestIds
    Candidates <- MCCandidates
    MaxGeneration = 1
    MaxRevision = 20
    MaxAttempts = 1
    MaxAttemptsPerRun = 1
    LaunchReplies <- NeverExited
    MaxFaults = 0
    MaxPolls = 0
INVARIANT
    CandidateRunNotFailed
CHECK_DEADLOCK FALSE
