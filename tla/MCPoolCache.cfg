\* Once an eviction has removed a pool its thread is stuck for good and the
\* others follow (see EvictionDeadlock.cfg), so deadlock is not an error here.
SPECIFICATION Spec
CONSTANTS
  a1 = a1
  a2 = a2
  discovery = discovery
  polling = polling
  eviction = eviction
  client = client
  Addresses <- MCAddresses
  DexOf <- MCDexOf
  Threads <- MCThreads
  Calls <- MCCalls
INVARIANT TypeOK
INVARIANT IndexCoversCache
INVARIANT StatsCatchUp
INVARIANT NoDeadlockWithoutEviction
CHECK_DEADLOCK FALSE
