SPECIFICATION CaptureSpec
CONSTANTS
  w = w  p1 = p1  b1 = b1  b2 = b2  b3 = b3
  NoObject = NoObject
  Publishers <- MCPublishers
  Objects <- MCObjects
  MaxLosses = 1
  MaxFaults = 1
  Walker = w
  Shared <- MCShared
  Nodes <- MCNodes
  Root = "root"
  Type <- MCType
  Nowhere = "nowhere"
  Order <- MCOrder
  GitName = ".git"
  Layouts <- MCLayouts
  Written <- MCWritten
  Size <- MCSize
  Base <- MCBase
  Scopes <- MCScopes
  Spare <- MCSpare
  MaxObject = 1
  MaxEntries = 2
  MaxTotal = 3
  MaxDepth = 1
  MaxChanges = 1
CONSTRAINT Disturbed
INVARIANT ObjectsWhole
INVARIANT FlushedClaimsSurvive
INVARIANT CaptureFaithful
INVARIANT ChangesetExact
INVARIANT MembersStored
