SPECIFICATION FairSpec
CONSTANTS
  s1 = s1  s2 = s2
  NoGoal <- MCNoGoal
  Goals <- MCGoals
  Schedulers <- MCSchedulers
  Daemon = s1
  Unroutable <- MCUnroutable
  MaxPauses = 1
  MaxConfig = 2
  MaxBackoffs <- MCMaxBackoffs
INVARIANT OneNonterminalRun
 
