CONSTANTS
    c1 = c1
    c2 = c2
    k1 = k1
    h1 = h1
    h2 = h2
    Clients <- MCClients
    CommandIds <- MCCommandIds
    Hashes <- MCHashes
    MaxGeneration = 2
    MaxEvents = 3
SPECIFICATION Spec
SYMMETRY MCSymmetry
CHECK_DEADLOCK FALSE
INVARIANTS
    ExactlyOnce
    AcknowledgedIsRecorded
