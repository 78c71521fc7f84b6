SPECIFICATION FairSpec
CONSTANTS
  g1 = g1  g2 = g2  c1 = c1  c2 = c2
  NoGoal = NoGoal
  Goals <- MCGoals
  Callers <- MCCallers
  Unresolvable <- LastUnresolvable
  MaxConfig = 3
  MaxFaults = 1
INVARIANT SpentOnce
 
PROPERTY RequestCompletes
