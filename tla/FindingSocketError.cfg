SPECIFICATION Spec
CONSTANTS
  Nonces = {n1, n2}
  fixed = fixed
  group = group
  a1 = a1
  a2 = a2
  Keys <- MCKeys
  Addresses <- MCAddresses
  BindsTo <- MCBindsTo
  MulticastKeys <- MCMulticastKeys
  Stoppers = {s1, s2}
  Shutdown = Shutdown
  MaxStarts = 2
  MaxDatagrams = 1
  MaxSequence = 3
  MaxEntries = 3
  EarlySocketErrors = TRUE
INVARIANT
  RefusedStopFindsNoCapture
CHECK_DEADLOCK FALSE
