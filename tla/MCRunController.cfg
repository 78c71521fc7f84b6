SPECIFICATION FairControllerSpec
CONSTANTS
    p1 = p1
    p2 = p2
    r1 = r1
    d1 = d1
    NoPlan = NoPlan
    NoCandidate = NoCandidate
    Plans <- MCPlans
    RequestIds <- MCRequestIds
    Candidates <- MCCandidates
    MaxGeneration = 1
    MaxRevision = 20
    MaxAttempts = 3
    MaxAttemptsPerRun = 2
    LaunchReplies <- AllReplies
    MaxFaults = 2
    MaxPolls = 2
INVARIANTS
    LiveExecutionIsCurrent
PROPERTIES
    CommittedFactsStand
    
    
CHECK_DEADLOCK FALSE
