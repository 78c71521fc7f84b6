SPECIFICATION Spec
CONSTANTS
  k1 = k1  k2 = k2  r1 = r1  r2 = r2
  t1 = t1  t2 = t2  stray = stray
  NoContent = NoContent  NoRequest = NoRequest
  Calls <- MCCalls
  RequestIds <- MCRequestIds
  Contents <- MCContents
  OutOfScope <- MCOutOfScope
  MaxFaults = 1
SYMMETRY Symmetry
 
INVARIANT SuccessNamesArtifact
PROPERTY OutcomesAreFinal
CHECK_DEADLOCK FALSE
