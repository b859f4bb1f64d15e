SPECIFICATION Spec
CONSTANTS
  a1 = a1
  a2 = a2
  discovery = discovery
  polling = polling
  eviction = eviction
  client = client
  Addresses <- MCAddresses
  DexOf <- MCDexOf
  Threads <- MCThreads
  Calls <- MCCalls
CHECK_DEADLOCK FALSE
INVARIANT NoSelfDeadlock
