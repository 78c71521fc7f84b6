SPECIFICATION FairSpec
CONSTANTS
  c1 = c1  c2 = c2
  b1 = b1  b2 = b2  NoBase = NoBase
  requestA = requestA  requestB = requestB  NoIdentity = NoIdentity
  Callers <- MCCallers
  Bases <- MCBases
  Identities <- MCIdentities
  MaxRevision <- MCMaxRevision
  MaxFaults <- MCMaxFaults
INVARIANT ReadyMatchesBinding
PROPERTY ImplementsEffectProtocol
PROPERTY EventuallyReady
