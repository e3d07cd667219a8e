CONSTANTS
  w1 = w1
  w2 = w2
  o1 = o1
  t1 = t1
  st1 = st1
  st2 = st2
  st3 = st3
  alice = alice
  bob = bob
  None = None
  Identity = {alice, bob}
  Worker = {w1, w2}
  Operator = {o1}
  Store = {st1, st2, st3}
  StoreOf <- OwnStores
  OwnersOf <- OneLeases
  Trajectory = {t1}
  TTLs = {1}
  StaleAfter = 1
  MaxClock = 2
  MaxEpoch = 2
SPECIFICATION Spec
PROPERTIES
  EndedDrains
