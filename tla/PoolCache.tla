----------------------------- MODULE PoolCache ------------------------------
(***************************************************************************)
(* PoolCache (solAribot-market-data/src/cache.rs) used by the tasks of the *)
(* subscription engine and by readers of the cache: the body of a method   *)
(* is the sequence of lock operations and effects it performs, each thread *)
(* has its place in one, and they interleave between any two operations.   *)
(*                                                                         *)
(* The locks are parking_lot RwLocks.  A writer first claims the lock,     *)
(* which keeps further readers out, then waits for the readers inside to   *)
(* leave (drain).  No thread may enter a lock twice when one entry is a    *)
(* write.                                                                  *)
(*                                                                         *)
(* A pool address stands for its pool: token pair and DEX never change, so *)
(* the pair index is the set of addresses listed under their own pair.     *)
(***************************************************************************)
EXTENDS Integers, FiniteSets, Sequences

CONSTANTS
  Addresses,   \* pool addresses
  DexOf,       \* the DEX of each pool
  Threads,
  Calls        \* the methods each thread calls

NoThread == "noThread"
Locks    == {"pools", "pair_index", "stats"}
Methods  == {"upsert", "evict_stale", "get_by_pair", "read_pools", "stats"}
Outside  == "outside"    \* in no method

ASSUME CacheConstants ==
  /\ NoThread \notin Threads
  /\ Calls \in [Threads -> SUBSET Methods]
  /\ IsFiniteSet(Addresses) /\ Addresses # {}

Dexes == {DexOf[a] : a \in Addresses}

VARIABLES
  writer,      \* who holds, or has claimed, each lock for writing
  readers,     \* who holds each lock for reading
  method,      \* the method each thread is in
  next,        \* the place in its body of the operation that comes next
  address,     \* the pool an upsert is about
  cached,      \* the pools map, with the age of each entry
  pairIndex,   \* the addresses in the pair index
  cacheStats   \* total_pools and pools_by_dex

locks == <<writer, readers>>
place == <<method, next>>
data == <<cached, pairIndex, cacheStats>>
vars == <<locks, place, address, data>>

-----------------------------------------------------------------------------
(* Methods                                                                 *)

Exclusive(lock) == << <<"claim", lock>>, <<"drain", lock>> >>

Under(lock, effect) == << <<"read", lock>>, <<"effect", effect>>, <<"leave", lock>> >>

RebuildDexStats == Under("pools", "count_by_dex")

UpdateStats ==
  Exclusive("stats") \o Under("pools", "count_all") \o RebuildDexStats
    \o << <<"release", "stats">> >>

IndexPool ==
  Exclusive("pair_index") \o << <<"effect", "index">>, <<"release", "pair_index">> >>

InsertPool ==
  Exclusive("pools") \o << <<"effect", "insert">>, <<"release", "pools">> >>

(* Bug: the guard on pools lives until the statistics are done.            *)
UpsertHoldingPools ==
  IndexPool \o Exclusive("pools") \o << <<"effect", "insert">> >> \o UpdateStats
    \o << <<"release", "pools">> >>

(* Bug: the statistics are taken before the pool is inserted.              *)
UpsertCountingFirst == IndexPool \o UpdateStats \o InsertPool

Upsert == IndexPool \o InsertPool \o UpdateStats

GetByPair ==
  << <<"read", "pair_index">>, <<"read", "pools">>,
     <<"leave", "pools">>, <<"leave", "pair_index">> >>

(* get, get_by_dex, len, is_empty and all_pools                            *)
ReadPools == << <<"read", "pools">>, <<"leave", "pools">> >>

Stats == << <<"read", "stats">>, <<"leave", "stats">> >>

EvictPools == Exclusive("pools") \o Exclusive("pair_index") \o << <<"effect", "evict">> >>

ReleaseBoth == << <<"release", "pair_index">>, <<"release", "pools">> >>

(* evict_stale when no pool is stale.                                      *)
EvictNothing == EvictPools \o ReleaseBoth

(* Bug: the guards are dropped before the statistics, a repair of the      *)
(* deadlock that forgets upserts between their two locks.                  *)
EvictSomeUnlocked == EvictPools \o ReleaseBoth \o UpdateStats

(* evict_stale when it removes pools: the guards on pools and pair_index   *)
(* live to the end of the method, past rebuild_dex_stats.                  *)
EvictSome ==
  EvictPools \o Exclusive("stats") \o << <<"effect", "count_all">> >> \o RebuildDexStats
    \o << <<"release", "stats">> >> \o ReleaseBoth

(* An eviction is taken for one that removes nothing until it knows better.*)
Body(m) ==
  CASE m = "upsert"      -> Upsert
    [] m = "evict_stale" -> EvictNothing
    [] m = "evict_some"  -> EvictSome
    [] m = "get_by_pair" -> GetByPair
    [] m = "read_pools"  -> ReadPools
    [] m = "stats"       -> Stats
    [] m = Outside       -> << >>

-----------------------------------------------------------------------------
TypeOK ==
  /\ writer \in [Locks -> Threads \cup {NoThread}]
  /\ readers \in [Locks -> SUBSET Threads]
  /\ method \in [Threads -> Methods \cup {"evict_some", Outside}]
  /\ next \in [Threads -> Nat]
  /\ \A t \in Threads : IF method[t] = Outside THEN next[t] = 1
                        ELSE next[t] \in DOMAIN Body(method[t])
  /\ address \in [Threads -> Addresses]
  /\ cached \in [Addresses -> {"absent", "fresh", "stale"}]
  /\ pairIndex \subseteq Addresses
  /\ cacheStats \in [total : 0..Cardinality(Addresses),
                     byDex : [Dexes -> 0..Cardinality(Addresses)]]

Cached == {a \in Addresses : cached[a] # "absent"}

(* Bug: pools_by_dex is not cleared before it is rebuilt.                  *)
CountByDexUncleared ==
  [d \in Dexes |-> cacheStats.byDex[d] + Cardinality({a \in Cached : DexOf[a] = d})]

CountByDex == [d \in Dexes |-> Cardinality({a \in Cached : DexOf[a] = d})]

Init ==
  /\ writer = [l \in Locks |-> NoThread]
  /\ readers = [l \in Locks |-> {}]
  /\ method = [t \in Threads |-> Outside]
  /\ next = [t \in Threads |-> 1]
  /\ address = [t \in Threads |-> CHOOSE a \in Addresses : TRUE]
  /\ cached = [a \in Addresses |-> "absent"]
  /\ pairIndex = {}
  /\ cacheStats = [total |-> 0, byDex |-> [d \in Dexes |-> 0]]

-----------------------------------------------------------------------------
Idle(t) == method[t] = Outside
Operation(t) == Body(method[t])[next[t]]
Object(t) == Operation(t)[2]
AtOp(t, op) == ~Idle(t) /\ Operation(t)[1] = op

(* The next operation of the body; after the last the method returns.      *)
Advance(t) ==
  IF next[t] = Len(Body(method[t]))
  THEN /\ method' = [method EXCEPT ![t] = Outside]
       /\ next' = [next EXCEPT ![t] = 1]
  ELSE /\ next' = [next EXCEPT ![t] = @ + 1]
       /\ UNCHANGED method

Call(t) ==
  /\ Idle(t)
  /\ \E m \in Calls[t] :
       /\ method' = [method EXCEPT ![t] = m]
       /\ IF m = "upsert"
          THEN \E a \in Addresses : address' = [address EXCEPT ![t] = a]
          ELSE UNCHANGED address
  /\ UNCHANGED <<next, locks, data>>

Read(t) ==
  /\ AtOp(t, "read")
  /\ writer[Object(t)] = NoThread
  /\ readers' = [readers EXCEPT ![Object(t)] = @ \cup {t}]
  /\ Advance(t)
  /\ UNCHANGED <<writer, address, data>>

Claim(t) ==
  /\ AtOp(t, "claim")
  /\ writer[Object(t)] = NoThread
  /\ writer' = [writer EXCEPT ![Object(t)] = t]
  /\ Advance(t)
  /\ UNCHANGED <<readers, address, data>>

Drain(t) ==
  /\ AtOp(t, "drain")
  /\ readers[Object(t)] = {}
  /\ Advance(t)
  /\ UNCHANGED <<locks, address, data>>

(* The guard of a reader, or of a writer, is dropped.                      *)
Leave(t) ==
  /\ AtOp(t, "leave")
  /\ readers' = [readers EXCEPT ![Object(t)] = @ \ {t}]
  /\ Advance(t)
  /\ UNCHANGED <<writer, address, data>>

Release(t) ==
  /\ AtOp(t, "release")
  /\ writer' = [writer EXCEPT ![Object(t)] = NoThread]
  /\ Advance(t)
  /\ UNCHANGED <<readers, address, data>>

AtEffect(t, effect) == AtOp(t, "effect") /\ Object(t) = effect

Index(t) ==
  /\ AtEffect(t, "index")
  /\ pairIndex' = pairIndex \cup {address[t]}
  /\ Advance(t)
  /\ UNCHANGED <<locks, address, cached, cacheStats>>

Insert(t) ==
  /\ AtEffect(t, "insert")
  /\ cached' = [cached EXCEPT ![address[t]] = "fresh"]
  /\ Advance(t)
  /\ UNCHANGED <<locks, address, pairIndex, cacheStats>>

CountAll(t) ==
  /\ AtEffect(t, "count_all")
  /\ cacheStats' = [cacheStats EXCEPT !.total = Cardinality(Cached)]
  /\ Advance(t)
  /\ UNCHANGED <<locks, address, cached, pairIndex>>

CountDexes(t) ==
  /\ AtEffect(t, "count_by_dex")
  /\ cacheStats' = [cacheStats EXCEPT !.byDex = CountByDex]
  /\ Advance(t)
  /\ UNCHANGED <<locks, address, cached, pairIndex>>

Evict(t) ==
  /\ AtEffect(t, "evict")
  /\ LET stale == {a \in Addresses : cached[a] = "stale"}
     IN  /\ cached' = [a \in Addresses |-> IF a \in stale THEN "absent" ELSE cached[a]]
         /\ pairIndex' = pairIndex \ stale
         /\ IF stale = {}
            THEN Advance(t)
            ELSE /\ method' = [method EXCEPT ![t] = "evict_some"]
                 /\ next' = [next EXCEPT ![t] = @ + 1]
  /\ UNCHANGED <<locks, address, cacheStats>>

(* max_staleness_ms pass without an update of the pool.                    *)
Age(a) ==
  /\ cached[a] = "fresh"
  /\ cached' = [cached EXCEPT ![a] = "stale"]
  /\ UNCHANGED <<locks, place, address, pairIndex, cacheStats>>

Step(t) ==
  \/ Read(t) \/ Claim(t) \/ Drain(t) \/ Leave(t) \/ Release(t)
  \/ Index(t) \/ Insert(t) \/ CountAll(t) \/ CountDexes(t) \/ Evict(t)

Next ==
  \/ \E t \in Threads : Call(t) \/ Step(t)
  \/ \E a \in Addresses : Age(a)

Spec == Init /\ [][Next]_vars

-----------------------------------------------------------------------------
Evicting(t) == method[t] \in {"evict_stale", "evict_some"}

(* Thread t cannot enter the lock it is at.                                *)
Blocked(t) ==
  \/ AtOp(t, "read") /\ writer[Object(t)] # NoThread
  \/ AtOp(t, "claim") /\ writer[Object(t)] # NoThread
  \/ AtOp(t, "drain") /\ readers[Object(t)] # {}

(* Every pool in the cache can be found by its pair, at every moment and   *)
(* not only once the upsert that put it there has returned (upsert indexes *)
(* before it inserts), and also when it was evicted in between.            *)
IndexCoversCache == Cached \subseteq pairIndex

(* Once no upsert is under way the statistics are those of the cache,      *)
(* however upserts interleaved: the last to write them has read the pools  *)
(* after the last insertion.                                               *)
StatsCatchUp ==
  (\A t \in Threads : Idle(t)) =>
    cacheStats = [total |-> Cardinality(Cached), byDex |-> CountByDex]

(* Upserts and reads alone never wait for each other in a circle: while no *)
(* thread evicts, one of the threads in the cache can move.                *)
NoDeadlockWithoutEviction ==
  (\E t \in Threads : ~Idle(t)) /\ (\A t \in Threads : ~Evicting(t))
    => \E t \in Threads : ~Idle(t) /\ ~Blocked(t)

(* "Thread-safe, concurrent", and a test that sees evict_stale return 1:   *)
(* no thread waits for a lock it is itself in.                             *)
NoSelfDeadlock ==
  \A t \in Threads :
    Blocked(t) => /\ t \notin readers[Object(t)]
                  /\ ~AtOp(t, "drain") => writer[Object(t)] # t
=============================================================================
