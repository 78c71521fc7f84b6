SPECIFICATION Spec
CONSTANTS
    Candidates <- MCCandidates
    Task <- MCTask
    Ports <- MCPorts
    Safety <- MCSafety
    FactSheets <- MCFactSheets
    MaxActivations = 2
    MaxMoves = 1
INVARIANTS
    ChosenIsBest
PROPERTY
    RoutedUnderPublished
