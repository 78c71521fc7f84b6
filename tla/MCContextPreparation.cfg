SPECIFICATION FairSpec
CONSTANTS
  d1 = d1 d2 = d2 Main = Main s1 = s1 s2 = s2 s3 = s3 k1 = k1
  r1 = r1 a1 = a1 g1 = g1 g2 = g2 i1 = i1
  Invalid = Invalid Nothing = Nothing Free = Free NoOwner = NoOwner
  NoGuidance = NoGuidance
  Processes <- MCProcesses
  Threads <- MCThreads
  Sources <- MCSources
  Meaning <- MCMeaning
  Requests = {k1}
  Builds = {1, 2}
  Known <- MCKnown
  MaxFaults <- MCMaxFaults
  Runs = {r1}
  Agents = {a1}
  Inputs <- MCInputs
INVARIANTS SchemaWhole BarrierHolds SnapshotPaired OutcomesAgree PlanFromFrozen
PROPERTIES RestartAdoptsNothing ServesAgain PreparedEventually
