\* Three keys, two of which share a prefix; every write may fail.
SPECIFICATION Spec
CONSTANTS
  alice = alice
  bob = bob
  k1 = k1
  k2 = k2
  k3 = k3
  NoOwner = NoOwner
  Addrs <- MCAddrs
  Keys <- MCKeys
  Prefix <- MCPrefix
  Amounts = {1}
  MaxBalance = 1
  MaxLag = 1
  Outcomes = {TRUE, FALSE}
INVARIANTS BalancesDurable KeyOwnersRegistered
PROPERTIES ImplementsLedger ImplementsKeyRing
