SPECIFICATION Spec
CONSTANTS
  p1 = p1  p2 = p2  r1 = r1
  Provisioners <- MCProvisioners
  Recoverers <- MCRecoverers
  MaxFaults <- MCMaxFaults
  MaxRevision = 6
INVARIANT ReadyIsolated
PROPERTY ImplementsEffectProtocol
