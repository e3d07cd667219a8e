CONSTANTS
  s1 = s1
  s2 = s2
  s3 = s3
  o1 = o1
  alice = alice
  bob = bob
  None = None
  Session = {s1, s2}
  Observer = {}
  Owner = {alice, bob}
  OwnerOf <- OwnerRivals
  TTLs = {2}
  RenewalsPrompt = TRUE
  MaxClock = 3
  MaxEpoch = 2
  MaxRenewals = 2
SPECIFICATION Spec
INVARIANTS
  WindowsRespected
  AssertionCovered
