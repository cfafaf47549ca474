CONSTANTS
  j1 = j1
  j2 = j2
  j3 = j3
  base = base
  other = other
  Jobs = {j1, j2, j3}
  Paths <- MCPaths
  MaxRequests = 3
  Count <- MCCount
  Conc <- MCConc
  Burst <- MCBurst
  BasePath <- MCBasePath
  PathOf <- MCPathOf
  Malformed <- MCMalformed
SPECIFICATION MCFairSpec
INVARIANTS IInv
PROPERTIES SendsAreAllowed ControlsHold ImplementsWork JobsEnd
