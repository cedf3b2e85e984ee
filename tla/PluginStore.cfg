\* The plugin store: processes, failures and deaths.
CONSTANTS
  p = p
  q = q
  v1 = v1
  v2 = v2
  built = built
  rebuilt = rebuilt
  next = next
  Processes = {p, q}
  Versions = {v1, v2}
  Packages = {built, rebuilt, next}
  VersionOf <- MCVersionOf
  Trusted = {built, next}
  FullTrust = {rebuilt}
  NoPackage = NoPackage
  NoGrant = NoGrant
  Left = Left
  Nobody = Nobody
  MaxOps = 3
  MaxFaults = 2
SPECIFICATION Spec
SYMMETRY Symmetry
CHECK_DEADLOCK FALSE
INVARIANTS
  ActiveResolves
  
  CleanupRecovers
PROPERTIES
  InstalledStays
