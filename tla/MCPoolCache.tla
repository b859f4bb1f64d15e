---------------------------- MODULE MCPoolCache -----------------------------
(* Two pools of two DEXs; discovery and polling upsert them, the eviction  *)
(* task evicts and a client of the cache reads.                            *)
EXTENDS PoolCache, TLC

CONSTANTS a1, a2, discovery, polling, eviction, client

MCAddresses == {a1, a2}
MCDexOf     == a1 :> "orca" @@ a2 :> "phoenix"
MCThreads   == {discovery, polling, eviction, client}
MCCalls     ==
  discovery :> {"upsert"} @@ polling :> {"upsert", "read_pools"} @@
  eviction :> {"evict_stale"} @@ client :> {"get_by_pair", "stats"}

Symmetry == Permutations(MCAddresses)
=============================================================================
