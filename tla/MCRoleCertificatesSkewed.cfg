SPECIFICATION Spec
CONSTANTS
  alice = alice
  bob = bob
  zoe = zoe
  Users = {alice, bob, zoe}
  Outsiders = {zoe}
  Skew = 1
  MaxTime = 2
  MaxGrants = 4
INVARIANTS
  ClientsAcceptChain
CHECK_DEADLOCK FALSE
