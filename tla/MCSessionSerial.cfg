CONSTANTS
  a = a
  b = b
  p1 = p1
  p2 = p2
  x1 = x1
  x2 = x2
  e1 = e1
  s1 = s1
  j1 = j1
  None = None
  Calls <- One
  Stores <- Projects
  Proxies <- Servers
  Exchanges <- Proxying
  Sends <- Sending
  Jobs <- Varying
  MaxBuilds = 3
SPECIFICATION Spec
SYMMETRY Symmetric
INVARIANTS ProjectOwnsItsEngines OneProjectServed
PROPERTIES StopReachesJobs
CHECK_DEADLOCK FALSE
