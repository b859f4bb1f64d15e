-------------------------- MODULE MarketDataProofs --------------------------
(***************************************************************************)
(* Both ends of the market data: the cache that the subscription engine    *)
(* fills, and the scanner that looks for routes in the prices it is sent.  *)
(*                                                                         *)
(* PoolCache, for every set of pools and threads and every choice of the   *)
(* methods they call: the tables say where in each body a lock is held and *)
(* what is still to come; who holds a lock follows from where the threads  *)
(* are.                                                                    *)
(*                                                                         *)
(* Scanner, for every set of pool states, fees, slippage and amount: the   *)
(* price map holds the last state received of its pools, so that a quote   *)
(* is a matter of fractions, and the detectors read a pool through its     *)
(* rates alone, so that it does not matter which way round it is listed.   *)
(***************************************************************************)
EXTENDS PoolCache, Scanner, FiniteSetTheorems, TLAPS

Bodies == Methods \cup {"evict_some", Outside}

(* Where a thread has claimed a lock for writing.                          *)
ClaimedAt(m, l) ==
  CASE m = "upsert" /\ l = "pair_index"                     -> 2..4
    [] m = "upsert" /\ l = "pools"                          -> 6..8
    [] m = "upsert" /\ l = "stats"                          -> 10..17
    [] m \in {"evict_stale", "evict_some"} /\ l = "pools"   -> 2..14
    [] m = "evict_stale" /\ l = "pair_index"                -> 4..6
    [] m = "evict_some" /\ l = "pair_index"                 -> 4..13
    [] m = "evict_some" /\ l = "stats"                      -> 7..12
    [] OTHER                                                -> {}

(* Where a thread is in a lock as a reader.                                *)
ReadAt(m, l) ==
  CASE m = "upsert" /\ l = "pools"           -> (12..13) \cup (15..16)
    [] m = "evict_some" /\ l = "pools"       -> 10..11
    [] m = "get_by_pair" /\ l = "pair_index" -> 2..4
    [] m = "get_by_pair" /\ l = "pools"      -> {3}
    [] m = "read_pools" /\ l = "pools"       -> {2}
    [] m = "stats" /\ l = "stats"            -> {2}
    [] OTHER                                 -> {}

(* Who holds a lock follows from where the threads are.                    *)
LocksFollowPlaces ==
  \A t \in Threads, l \in Locks :
    /\ writer[l] = t <=> next[t] \in ClaimedAt(method[t], l)
    /\ t \in readers[l] <=> next[t] \in ReadAt(method[t], l)

Removing(t) == method[t] = "evict_some"

(* An eviction that has removed a pool gets no further than to the second  *)
(* of the locks on the pools, which it waits for itself.                   *)
RemovalIsStuck == \A t \in Threads : Removing(t) => next[t] \in 6..9

(* An upsert that has indexed its pool finds it indexed when it inserts    *)
(* it, unless an eviction has removed pools, which never lets go of them.  *)
IndexedUntilInserted ==
  \/ \E t \in Threads : Removing(t)
  \/ \A t \in Threads : method[t] = "upsert" /\ next[t] \in 4..7 => address[t] \in pairIndex

(* Where a count of the pools, or of those of each DEX, is still to come.  *)
CountAheadAt(m) ==
  CASE m = "upsert" -> 1..12 [] m = "evict_some" -> 1..8 [] OTHER -> {}
DexCountAheadAt(m) ==
  CASE m = "upsert" -> 1..15 [] m = "evict_some" -> 1..10 [] OTHER -> {}

CountAhead(t) == next[t] \in CountAheadAt(method[t])
DexCountAhead(t) == next[t] \in DexCountAheadAt(method[t])

(* A count that is not the cache's will be taken again.                    *)
CountsComeRight ==
  /\ (\E t \in Threads : CountAhead(t)) \/ cacheStats.total = Cardinality(Cached)
  /\ (\E t \in Threads : DexCountAhead(t)) \/ cacheStats.byDex = CountByDex

-----------------------------------------------------------------------------
(* The bodies, operation by operation                                      *)

LEMMA UpsertBody ==
  LET body == Body("upsert")
  IN  /\ Len(body) = 17 /\ DOMAIN body = 1..17
      /\ body[1] = <<"claim", "pair_index">> /\ body[2] = <<"drain", "pair_index">>
      /\ body[3] = <<"effect", "index">> /\ body[4] = <<"release", "pair_index">>
      /\ body[5] = <<"claim", "pools">> /\ body[6] = <<"drain", "pools">>
      /\ body[7] = <<"effect", "insert">> /\ body[8] = <<"release", "pools">>
      /\ body[9] = <<"claim", "stats">> /\ body[10] = <<"drain", "stats">>
      /\ body[11] = <<"read", "pools">> /\ body[12] = <<"effect", "count_all">>
      /\ body[13] = <<"leave", "pools">> /\ body[14] = <<"read", "pools">>
      /\ body[15] = <<"effect", "count_by_dex">> /\ body[16] = <<"leave", "pools">>
      /\ body[17] = <<"release", "stats">>
  BY DEF Body, Outside, Upsert, IndexPool, InsertPool, UpdateStats, RebuildDexStats, Exclusive, Under

LEMMA EvictNothingBody ==
  LET body == Body("evict_stale")
  IN  /\ Len(body) = 7 /\ DOMAIN body = 1..7
      /\ body[1] = <<"claim", "pools">> /\ body[2] = <<"drain", "pools">>
      /\ body[3] = <<"claim", "pair_index">> /\ body[4] = <<"drain", "pair_index">>
      /\ body[5] = <<"effect", "evict">>
      /\ body[6] = <<"release", "pair_index">> /\ body[7] = <<"release", "pools">>
  BY DEF Body, Outside, EvictNothing, EvictPools, ReleaseBoth, Exclusive

LEMMA EvictSomeBody ==
  LET body == Body("evict_some")
  IN  /\ Len(body) = 14 /\ DOMAIN body = 1..14
      /\ body[1] = <<"claim", "pools">> /\ body[2] = <<"drain", "pools">>
      /\ body[3] = <<"claim", "pair_index">> /\ body[4] = <<"drain", "pair_index">>
      /\ body[5] = <<"effect", "evict">>
      /\ body[6] = <<"claim", "stats">> /\ body[7] = <<"drain", "stats">>
      /\ body[8] = <<"effect", "count_all">>
      /\ body[9] = <<"read", "pools">> /\ body[10] = <<"effect", "count_by_dex">>
      /\ body[11] = <<"leave", "pools">> /\ body[12] = <<"release", "stats">>
      /\ body[13] = <<"release", "pair_index">> /\ body[14] = <<"release", "pools">>
  BY DEF Body, Outside, EvictSome, EvictPools, RebuildDexStats, ReleaseBoth, Exclusive, Under

LEMMA ReaderBodies ==
  /\ LET body == Body("get_by_pair")
     IN  /\ Len(body) = 4 /\ DOMAIN body = 1..4
         /\ body[1] = <<"read", "pair_index">> /\ body[2] = <<"read", "pools">>
         /\ body[3] = <<"leave", "pools">> /\ body[4] = <<"leave", "pair_index">>
  /\ LET body == Body("read_pools")
     IN  Len(body) = 2 /\ DOMAIN body = 1..2 /\ body[1] = <<"read", "pools">> /\ body[2] = <<"leave", "pools">>
  /\ LET body == Body("stats")
     IN  Len(body) = 2 /\ DOMAIN body = 1..2 /\ body[1] = <<"read", "stats">> /\ body[2] = <<"leave", "stats">>
  BY DEF Body, Outside, GetByPair, ReadPools, Stats

(* The place that Advance goes to.                                         *)
Follows(m, i, m2, i2) ==
  IF i = Len(Body(m)) THEN m2 = Outside /\ i2 = 1 ELSE m2 = m /\ i2 = i + 1

Operations == {"claim", "drain", "release", "read", "leave", "effect"}

(* What an operation changes of what is held and what is still to come.    *)
Effects(op, object, m, i, m2, i2) ==
  /\ op \in Operations
  /\ op # "effect" => object \in Locks
  /\ op = "release" => i \in ClaimedAt(m, object)
  /\ \A l \in Locks : i2 \in ClaimedAt(m2, l) <=>
       \/ op = "claim" /\ l = object
       \/ i \in ClaimedAt(m, l) /\ ~(op = "release" /\ l = object)
  /\ \A l \in Locks : i2 \in ReadAt(m2, l) <=>
       \/ op = "read" /\ l = object
       \/ i \in ReadAt(m, l) /\ ~(op = "leave" /\ l = object)
  /\ i \in CountAheadAt(m) => i2 \in CountAheadAt(m2) \/ object = "count_all"
  /\ i \in DexCountAheadAt(m) => i2 \in DexCountAheadAt(m2) \/ object = "count_by_dex"

(* The tables, row by row.                                                 *)
LEMMA UpsertTable ==
  /\ ClaimedAt("upsert", "pair_index") = 2..4 /\ ClaimedAt("upsert", "pools") = 6..8
  /\ ClaimedAt("upsert", "stats") = 10..17
  /\ ReadAt("upsert", "pair_index") = {} /\ ReadAt("upsert", "stats") = {}
  /\ ReadAt("upsert", "pools") = (12..13) \cup (15..16)
  /\ CountAheadAt("upsert") = 1..12 /\ DexCountAheadAt("upsert") = 1..15
  BY DEF ClaimedAt, ReadAt, CountAheadAt, DexCountAheadAt

LEMMA EvictNothingTable ==
  /\ ClaimedAt("evict_stale", "pair_index") = 4..6 /\ ClaimedAt("evict_stale", "pools") = 2..14
  /\ ClaimedAt("evict_stale", "stats") = {}
  /\ \A l \in Locks : ReadAt("evict_stale", l) = {}
  /\ CountAheadAt("evict_stale") = {} /\ DexCountAheadAt("evict_stale") = {}
  BY DEF ClaimedAt, ReadAt, CountAheadAt, DexCountAheadAt

LEMMA EvictSomeTable ==
  /\ ClaimedAt("evict_some", "pair_index") = 4..13 /\ ClaimedAt("evict_some", "pools") = 2..14
  /\ ClaimedAt("evict_some", "stats") = 7..12
  /\ ReadAt("evict_some", "pair_index") = {} /\ ReadAt("evict_some", "stats") = {}
  /\ ReadAt("evict_some", "pools") = 10..11
  /\ CountAheadAt("evict_some") = 1..8 /\ DexCountAheadAt("evict_some") = 1..10
  BY DEF ClaimedAt, ReadAt, CountAheadAt, DexCountAheadAt

LEMMA ReaderTable ==
  /\ \A m \in {"get_by_pair", "read_pools", "stats"} :
       /\ \A l \in Locks : ClaimedAt(m, l) = {}
       /\ CountAheadAt(m) = {} /\ DexCountAheadAt(m) = {}
  /\ ReadAt("get_by_pair", "pair_index") = 2..4 /\ ReadAt("get_by_pair", "pools") = {3}
  /\ ReadAt("get_by_pair", "stats") = {}
  /\ ReadAt("read_pools", "pools") = {2} /\ ReadAt("read_pools", "stats") = {}
  /\ ReadAt("read_pools", "pair_index") = {} /\ ReadAt("stats", "pair_index") = {}
  /\ ReadAt("stats", "pools") = {} /\ ReadAt("stats", "stats") = {2}
  BY DEF ClaimedAt, ReadAt, CountAheadAt, DexCountAheadAt

LEMMA OutsideTable ==
  /\ \A l \in Locks : ClaimedAt(Outside, l) = {} /\ ReadAt(Outside, l) = {}
  /\ CountAheadAt(Outside) = {} /\ DexCountAheadAt(Outside) = {}
  BY DEF ClaimedAt, ReadAt, CountAheadAt, DexCountAheadAt, Outside

(* What each method's operations change of it.                             *)
LEMMA UpsertFlow ==
  ASSUME NEW i \in 1..17, NEW m2, NEW i2, Follows("upsert", i, m2, i2)
  PROVE  Effects(Body("upsert")[i][1], Body("upsert")[i][2], "upsert", i, m2, i2)
<1>0. Len(Body("upsert")) = 17
  BY UpsertBody
<1>1. /\ i = 17 \/ i \in 1..16
      /\ i = 17 => m2 = Outside /\ i2 = 1
      /\ i # 17 => m2 = "upsert" /\ i2 = i + 1
  <2>1. i = 17 \/ i \in 1..16
    OBVIOUS
  <2> QED
    BY <1>0, <2>1 DEF Follows
<1> DEFINE op == Body("upsert")[i][1]
           object == Body("upsert")[i][2]
<1>2. /\ op \in Operations
      /\ op # "effect" => object \in Locks
      /\ op = "release" => i \in ClaimedAt("upsert", object)
  BY UpsertBody, UpsertTable DEF Operations, Locks
<1>3. \A l \in Locks : i2 \in ClaimedAt(m2, l) <=>
         \/ op = "claim" /\ l = object
         \/ i \in ClaimedAt("upsert", l) /\ ~(op = "release" /\ l = object)
  <2> DEFINE Moves(l) ==
           i2 \in ClaimedAt(m2, l) <=>
             \/ op = "claim" /\ l = object
             \/ i \in ClaimedAt("upsert", l) /\ ~(op = "release" /\ l = object)
  <2>1. Moves("pools")
    BY <1>1, <1>2, UpsertBody, UpsertTable, OutsideTable, SMTT(30) DEF Locks
  <2>2. Moves("pair_index")
    BY <1>1, <1>2, UpsertBody, UpsertTable, OutsideTable, SMTT(30) DEF Locks
  <2>3. Moves("stats")
    BY <1>1, <1>2, UpsertBody, UpsertTable, OutsideTable, SMTT(30) DEF Locks
  <2> QED
    BY <2>1, <2>2, <2>3 DEF Locks
<1>4. \A l \in Locks : i2 \in ReadAt(m2, l) <=>
         \/ op = "read" /\ l = object
         \/ i \in ReadAt("upsert", l) /\ ~(op = "leave" /\ l = object)
  <2> DEFINE Moves(l) ==
           i2 \in ReadAt(m2, l) <=>
             \/ op = "read" /\ l = object
             \/ i \in ReadAt("upsert", l) /\ ~(op = "leave" /\ l = object)
  <2>1. Moves("pools")
    BY <1>1, <1>2, UpsertBody, UpsertTable, OutsideTable, SMTT(30) DEF Locks
  <2>2. Moves("pair_index")
    BY <1>1, <1>2, UpsertBody, UpsertTable, OutsideTable, SMTT(30) DEF Locks
  <2>3. Moves("stats")
    BY <1>1, <1>2, UpsertBody, UpsertTable, OutsideTable, SMTT(30) DEF Locks
  <2> QED
    BY <2>1, <2>2, <2>3 DEF Locks
<1>5. /\ i \in CountAheadAt("upsert") => i2 \in CountAheadAt(m2) \/ object = "count_all"
      /\ i \in DexCountAheadAt("upsert") => i2 \in DexCountAheadAt(m2) \/ object = "count_by_dex"
  BY <1>1, UpsertBody, UpsertTable, OutsideTable
<1>6. Effects(op, object, "upsert", i, m2, i2)
  <2> HIDE DEF op, object
  <2> QED
    BY <1>2, <1>3, <1>4, <1>5 DEF Effects
<1> QED
  BY <1>6

LEMMA EvictNothingFlow ==
  ASSUME NEW i \in 1..7, NEW m2, NEW i2, Follows("evict_stale", i, m2, i2)
  PROVE  Effects(Body("evict_stale")[i][1], Body("evict_stale")[i][2], "evict_stale", i, m2, i2)
<1>0. Len(Body("evict_stale")) = 7
  BY EvictNothingBody
<1>1. /\ i = 7 \/ i \in 1..6
      /\ i = 7 => m2 = Outside /\ i2 = 1
      /\ i # 7 => m2 = "evict_stale" /\ i2 = i + 1
  <2>1. i = 7 \/ i \in 1..6
    OBVIOUS
  <2> QED
    BY <1>0, <2>1 DEF Follows
<1> DEFINE op == Body("evict_stale")[i][1]
           object == Body("evict_stale")[i][2]
<1>2. /\ op \in Operations
      /\ op # "effect" => object \in Locks
      /\ op = "release" => i \in ClaimedAt("evict_stale", object)
  BY EvictNothingBody, EvictNothingTable DEF Operations, Locks
<1>3. \A l \in Locks : i2 \in ClaimedAt(m2, l) <=>
         \/ op = "claim" /\ l = object
         \/ i \in ClaimedAt("evict_stale", l) /\ ~(op = "release" /\ l = object)
  <2> DEFINE Moves(l) ==
           i2 \in ClaimedAt(m2, l) <=>
             \/ op = "claim" /\ l = object
             \/ i \in ClaimedAt("evict_stale", l) /\ ~(op = "release" /\ l = object)
  <2>1. Moves("pools")
    BY <1>1, <1>2, EvictNothingBody, EvictNothingTable, OutsideTable, SMTT(30) DEF Locks
  <2>2. Moves("pair_index")
    BY <1>1, <1>2, EvictNothingBody, EvictNothingTable, OutsideTable, SMTT(30) DEF Locks
  <2>3. Moves("stats")
    BY <1>1, <1>2, EvictNothingBody, EvictNothingTable, OutsideTable, SMTT(30) DEF Locks
  <2> QED
    BY <2>1, <2>2, <2>3 DEF Locks
<1>4. \A l \in Locks : i2 \in ReadAt(m2, l) <=>
         \/ op = "read" /\ l = object
         \/ i \in ReadAt("evict_stale", l) /\ ~(op = "leave" /\ l = object)
  <2> DEFINE Moves(l) ==
           i2 \in ReadAt(m2, l) <=>
             \/ op = "read" /\ l = object
             \/ i \in ReadAt("evict_stale", l) /\ ~(op = "leave" /\ l = object)
  <2>1. Moves("pools")
    BY <1>1, <1>2, EvictNothingBody, EvictNothingTable, OutsideTable, SMTT(30) DEF Locks
  <2>2. Moves("pair_index")
    BY <1>1, <1>2, EvictNothingBody, EvictNothingTable, OutsideTable, SMTT(30) DEF Locks
  <2>3. Moves("stats")
    BY <1>1, <1>2, EvictNothingBody, EvictNothingTable, OutsideTable, SMTT(30) DEF Locks
  <2> QED
    BY <2>1, <2>2, <2>3 DEF Locks
<1>5. /\ i \in CountAheadAt("evict_stale") => i2 \in CountAheadAt(m2) \/ object = "count_all"
      /\ i \in DexCountAheadAt("evict_stale") => i2 \in DexCountAheadAt(m2) \/ object = "count_by_dex"
  BY <1>1, EvictNothingBody, EvictNothingTable, OutsideTable
<1>6. Effects(op, object, "evict_stale", i, m2, i2)
  <2> HIDE DEF op, object
  <2> QED
    BY <1>2, <1>3, <1>4, <1>5 DEF Effects
<1> QED
  BY <1>6

LEMMA EvictSomeFlow ==
  ASSUME NEW i \in 1..14, NEW m2, NEW i2, Follows("evict_some", i, m2, i2)
  PROVE  Effects(Body("evict_some")[i][1], Body("evict_some")[i][2], "evict_some", i, m2, i2)
<1>0. Len(Body("evict_some")) = 14
  BY EvictSomeBody
<1>1. /\ i = 14 \/ i \in 1..13
      /\ i = 14 => m2 = Outside /\ i2 = 1
      /\ i # 14 => m2 = "evict_some" /\ i2 = i + 1
  <2>1. i = 14 \/ i \in 1..13
    OBVIOUS
  <2> QED
    BY <1>0, <2>1 DEF Follows
<1> DEFINE op == Body("evict_some")[i][1]
           object == Body("evict_some")[i][2]
<1>2. /\ op \in Operations
      /\ op # "effect" => object \in Locks
      /\ op = "release" => i \in ClaimedAt("evict_some", object)
  BY EvictSomeBody, EvictSomeTable DEF Operations, Locks
<1>3. \A l \in Locks : i2 \in ClaimedAt(m2, l) <=>
         \/ op = "claim" /\ l = object
         \/ i \in ClaimedAt("evict_some", l) /\ ~(op = "release" /\ l = object)
  <2> DEFINE Moves(l) ==
           i2 \in ClaimedAt(m2, l) <=>
             \/ op = "claim" /\ l = object
             \/ i \in ClaimedAt("evict_some", l) /\ ~(op = "release" /\ l = object)
  <2>1. Moves("pools")
    BY <1>1, <1>2, EvictSomeBody, EvictSomeTable, OutsideTable, SMTT(30) DEF Locks
  <2>2. Moves("pair_index")
    BY <1>1, <1>2, EvictSomeBody, EvictSomeTable, OutsideTable, SMTT(30) DEF Locks
  <2>3. Moves("stats")
    BY <1>1, <1>2, EvictSomeBody, EvictSomeTable, OutsideTable, SMTT(30) DEF Locks
  <2> QED
    BY <2>1, <2>2, <2>3 DEF Locks
<1>4. \A l \in Locks : i2 \in ReadAt(m2, l) <=>
         \/ op = "read" /\ l = object
         \/ i \in ReadAt("evict_some", l) /\ ~(op = "leave" /\ l = object)
  <2> DEFINE Moves(l) ==
           i2 \in ReadAt(m2, l) <=>
             \/ op = "read" /\ l = object
             \/ i \in ReadAt("evict_some", l) /\ ~(op = "leave" /\ l = object)
  <2>1. Moves("pools")
    BY <1>1, <1>2, EvictSomeBody, EvictSomeTable, OutsideTable, SMTT(30) DEF Locks
  <2>2. Moves("pair_index")
    BY <1>1, <1>2, EvictSomeBody, EvictSomeTable, OutsideTable, SMTT(30) DEF Locks
  <2>3. Moves("stats")
    BY <1>1, <1>2, EvictSomeBody, EvictSomeTable, OutsideTable, SMTT(30) DEF Locks
  <2> QED
    BY <2>1, <2>2, <2>3 DEF Locks
<1>5. /\ i \in CountAheadAt("evict_some") => i2 \in CountAheadAt(m2) \/ object = "count_all"
      /\ i \in DexCountAheadAt("evict_some") => i2 \in DexCountAheadAt(m2) \/ object = "count_by_dex"
  BY <1>1, EvictSomeBody, EvictSomeTable, OutsideTable
<1>6. Effects(op, object, "evict_some", i, m2, i2)
  <2> HIDE DEF op, object
  <2> QED
    BY <1>2, <1>3, <1>4, <1>5 DEF Effects
<1> QED
  BY <1>6

LEMMA GetByPairFlow ==
  ASSUME NEW i \in 1..4, NEW m2, NEW i2, Follows("get_by_pair", i, m2, i2)
  PROVE  Effects(Body("get_by_pair")[i][1], Body("get_by_pair")[i][2], "get_by_pair", i, m2, i2)
<1>0. Len(Body("get_by_pair")) = 4
  BY ReaderBodies
<1>1. /\ i = 4 \/ i \in 1..3
      /\ i = 4 => m2 = Outside /\ i2 = 1
      /\ i # 4 => m2 = "get_by_pair" /\ i2 = i + 1
  <2>1. i = 4 \/ i \in 1..3
    OBVIOUS
  <2> QED
    BY <1>0, <2>1 DEF Follows
<1> DEFINE op == Body("get_by_pair")[i][1]
           object == Body("get_by_pair")[i][2]
<1>2. /\ op \in Operations
      /\ op # "effect" => object \in Locks
      /\ op = "release" => i \in ClaimedAt("get_by_pair", object)
  BY ReaderBodies, ReaderTable DEF Operations, Locks
<1>3. \A l \in Locks : i2 \in ClaimedAt(m2, l) <=>
         \/ op = "claim" /\ l = object
         \/ i \in ClaimedAt("get_by_pair", l) /\ ~(op = "release" /\ l = object)
  BY <1>1, <1>2, ReaderBodies, ReaderTable, OutsideTable DEF Locks
<1>4. \A l \in Locks : i2 \in ReadAt(m2, l) <=>
         \/ op = "read" /\ l = object
         \/ i \in ReadAt("get_by_pair", l) /\ ~(op = "leave" /\ l = object)
  BY <1>1, <1>2, ReaderBodies, ReaderTable, OutsideTable DEF Locks
<1>5. /\ i \in CountAheadAt("get_by_pair") => i2 \in CountAheadAt(m2) \/ object = "count_all"
      /\ i \in DexCountAheadAt("get_by_pair") => i2 \in DexCountAheadAt(m2) \/ object = "count_by_dex"
  BY <1>1, ReaderBodies, ReaderTable, OutsideTable
<1>6. Effects(op, object, "get_by_pair", i, m2, i2)
  <2> HIDE DEF op, object
  <2> QED
    BY <1>2, <1>3, <1>4, <1>5 DEF Effects
<1> QED
  BY <1>6

LEMMA ReadPoolsFlow ==
  ASSUME NEW i \in 1..2, NEW m2, NEW i2, Follows("read_pools", i, m2, i2)
  PROVE  Effects(Body("read_pools")[i][1], Body("read_pools")[i][2], "read_pools", i, m2, i2)
<1>0. Len(Body("read_pools")) = 2
  BY ReaderBodies
<1>1. /\ i = 2 \/ i \in 1..1
      /\ i = 2 => m2 = Outside /\ i2 = 1
      /\ i # 2 => m2 = "read_pools" /\ i2 = i + 1
  <2>1. i = 2 \/ i \in 1..1
    OBVIOUS
  <2> QED
    BY <1>0, <2>1 DEF Follows
<1> DEFINE op == Body("read_pools")[i][1]
           object == Body("read_pools")[i][2]
<1>2. /\ op \in Operations
      /\ op # "effect" => object \in Locks
      /\ op = "release" => i \in ClaimedAt("read_pools", object)
  BY ReaderBodies, ReaderTable DEF Operations, Locks
<1>3. \A l \in Locks : i2 \in ClaimedAt(m2, l) <=>
         \/ op = "claim" /\ l = object
         \/ i \in ClaimedAt("read_pools", l) /\ ~(op = "release" /\ l = object)
  BY <1>1, <1>2, ReaderBodies, ReaderTable, OutsideTable DEF Locks
<1>4. \A l \in Locks : i2 \in ReadAt(m2, l) <=>
         \/ op = "read" /\ l = object
         \/ i \in ReadAt("read_pools", l) /\ ~(op = "leave" /\ l = object)
  BY <1>1, <1>2, ReaderBodies, ReaderTable, OutsideTable DEF Locks
<1>5. /\ i \in CountAheadAt("read_pools") => i2 \in CountAheadAt(m2) \/ object = "count_all"
      /\ i \in DexCountAheadAt("read_pools") => i2 \in DexCountAheadAt(m2) \/ object = "count_by_dex"
  BY <1>1, ReaderBodies, ReaderTable, OutsideTable
<1>6. Effects(op, object, "read_pools", i, m2, i2)
  <2> HIDE DEF op, object
  <2> QED
    BY <1>2, <1>3, <1>4, <1>5 DEF Effects
<1> QED
  BY <1>6

LEMMA StatsFlow ==
  ASSUME NEW i \in 1..2, NEW m2, NEW i2, Follows("stats", i, m2, i2)
  PROVE  Effects(Body("stats")[i][1], Body("stats")[i][2], "stats", i, m2, i2)
<1>0. Len(Body("stats")) = 2
  BY ReaderBodies
<1>1. /\ i = 2 \/ i \in 1..1
      /\ i = 2 => m2 = Outside /\ i2 = 1
      /\ i # 2 => m2 = "stats" /\ i2 = i + 1
  <2>1. i = 2 \/ i \in 1..1
    OBVIOUS
  <2> QED
    BY <1>0, <2>1 DEF Follows
<1> DEFINE op == Body("stats")[i][1]
           object == Body("stats")[i][2]
<1>2. /\ op \in Operations
      /\ op # "effect" => object \in Locks
      /\ op = "release" => i \in ClaimedAt("stats", object)
  BY ReaderBodies, ReaderTable DEF Operations, Locks
<1>3. \A l \in Locks : i2 \in ClaimedAt(m2, l) <=>
         \/ op = "claim" /\ l = object
         \/ i \in ClaimedAt("stats", l) /\ ~(op = "release" /\ l = object)
  BY <1>1, <1>2, ReaderBodies, ReaderTable, OutsideTable DEF Locks
<1>4. \A l \in Locks : i2 \in ReadAt(m2, l) <=>
         \/ op = "read" /\ l = object
         \/ i \in ReadAt("stats", l) /\ ~(op = "leave" /\ l = object)
  BY <1>1, <1>2, ReaderBodies, ReaderTable, OutsideTable DEF Locks
<1>5. /\ i \in CountAheadAt("stats") => i2 \in CountAheadAt(m2) \/ object = "count_all"
      /\ i \in DexCountAheadAt("stats") => i2 \in DexCountAheadAt(m2) \/ object = "count_by_dex"
  BY <1>1, ReaderBodies, ReaderTable, OutsideTable
<1>6. Effects(op, object, "stats", i, m2, i2)
  <2> HIDE DEF op, object
  <2> QED
    BY <1>2, <1>3, <1>4, <1>5 DEF Effects
<1> QED
  BY <1>6

LEMMA Flow ==
  ASSUME NEW m \in Bodies \ {Outside}, NEW i \in DOMAIN Body(m),
         NEW m2, NEW i2, Follows(m, i, m2, i2)
  PROVE  Effects(Body(m)[i][1], Body(m)[i][2], m, i, m2, i2)
<1>1. CASE m = "upsert"
  <2>1. i \in 1..17
    BY <1>1, UpsertBody
  <2> QED
    BY <1>1, <2>1, UpsertFlow
<1>2. CASE m = "evict_stale"
  <2>1. i \in 1..7
    BY <1>2, EvictNothingBody
  <2> QED
    BY <1>2, <2>1, EvictNothingFlow
<1>3. CASE m = "evict_some"
  <2>1. i \in 1..14
    BY <1>3, EvictSomeBody
  <2> QED
    BY <1>3, <2>1, EvictSomeFlow
<1>4. CASE m = "get_by_pair"
  <2>1. i \in 1..4
    BY <1>4, ReaderBodies
  <2> QED
    BY <1>4, <2>1, GetByPairFlow
<1>5. CASE m = "read_pools"
  <2>1. i \in 1..2
    BY <1>5, ReaderBodies
  <2> QED
    BY <1>5, <2>1, ReadPoolsFlow
<1>6. CASE m = "stats"
  <2>1. i \in 1..2
    BY <1>6, ReaderBodies
  <2> QED
    BY <1>6, <2>1, StatsFlow
<1> QED
  BY <1>1, <1>2, <1>3, <1>4, <1>5, <1>6 DEF Bodies, Methods, Outside

-----------------------------------------------------------------------------
(* Steps                                                                   *)

LEMMA BodyLength ==
  \A m \in Bodies : /\ Len(Body(m)) \in Nat
                    /\ DOMAIN Body(m) = 1..Len(Body(m))
                    /\ m # Outside => Len(Body(m)) > 0
<1>1. Body(Outside) = << >>
  BY DEF Body, Outside
<1>2. Len(Body(Outside)) = 0 /\ DOMAIN Body(Outside) = 1..0
  BY <1>1
<1>3. Bodies =
        {"upsert", "evict_stale", "get_by_pair", "read_pools", "stats", "evict_some", Outside}
  BY DEF Bodies, Methods
<1> QED
  BY <1>2, <1>3, UpsertBody, EvictNothingBody, EvictSomeBody, ReaderBodies

PlaceOK ==
  /\ method \in [Threads -> Bodies]
  /\ next \in [Threads -> Nat]
  /\ \A t \in Threads : IF method[t] = Outside THEN next[t] = 1
                        ELSE next[t] \in DOMAIN Body(method[t])

(* A thread that advances comes to the place that follows; no other moves. *)
LEMMA Advances ==
  ASSUME PlaceOK, NEW t \in Threads, ~Idle(t), Advance(t)
  PROVE  /\ PlaceOK'
         /\ \A u \in Threads \ {t} : method'[u] = method[u] /\ next'[u] = next[u]
         /\ Effects(Operation(t)[1], Object(t), method[t], next[t], method'[t], next'[t])
<1>1. /\ method[t] \in Bodies \ {Outside}
      /\ next[t] \in 1..Len(Body(method[t])) /\ Len(Body(method[t])) \in Nat
  BY BodyLength DEF PlaceOK, Idle
<1>2. Follows(method[t], next[t], method'[t], next'[t])
  BY <1>1 DEF Follows, Advance, PlaceOK
<1>3. \A u \in Threads \ {t} : method'[u] = method[u] /\ next'[u] = next[u]
  BY DEF Advance, PlaceOK
<1>4. Effects(Operation(t)[1], Object(t), method[t], next[t], method'[t], next'[t])
  BY <1>1, <1>2, BodyLength, Flow DEF Operation, Object
<1>5. PlaceOK'
  <2>1. method' \in [Threads -> Bodies] /\ next' \in [Threads -> Nat]
    BY <1>1 DEF PlaceOK, Advance, Bodies
  <2>2. IF method'[t] = Outside THEN next'[t] = 1 ELSE next'[t] \in DOMAIN Body(method'[t])
    BY <1>1, <1>2, BodyLength DEF Follows
  <2> QED
    BY <1>3, <2>1, <2>2 DEF PlaceOK
<1> QED
  BY <1>3, <1>4, <1>5

(* The methods in which each effect is.                                    *)
LEMMA EffectPlaces ==
  ASSUME NEW m \in Bodies \ {Outside}, NEW i \in DOMAIN Body(m)
  PROVE  /\ Body(m)[i][2] = "index" => m = "upsert" /\ i = 3
         /\ Body(m)[i][2] = "insert" => m = "upsert" /\ i = 7
         /\ Body(m)[i][2] = "evict" => m \in {"evict_stale", "evict_some"} /\ i = 5
<1>1. m \in {"upsert", "evict_stale", "get_by_pair", "read_pools", "stats", "evict_some"}
  BY DEF Bodies, Methods
<1>2. CASE m = "upsert"
  BY <1>2, UpsertBody
<1>3. CASE m = "evict_stale"
  BY <1>3, EvictNothingBody
<1>4. CASE m = "evict_some"
  BY <1>4, EvictSomeBody
<1>5. CASE m \in {"get_by_pair", "read_pools", "stats"}
  BY <1>5, ReaderBodies
<1> QED
  BY <1>1, <1>2, <1>3, <1>4, <1>5

(* A method begins with nothing held, and an eviction that removes pools   *)
(* goes on with the locks it has.                                          *)
LEMMA Beginnings ==
  /\ \A m \in Methods : Effects("effect", "call", Outside, 1, m, 1)
  /\ \A m \in {"evict_stale", "evict_some"} : Effects("effect", "evict", m, 5, "evict_some", 6)
<1>1. ASSUME NEW m \in Methods PROVE Effects("effect", "call", Outside, 1, m, 1)
  <2>1. \A l \in Locks : 1 \notin ClaimedAt(m, l) /\ 1 \notin ReadAt(m, l)
    BY UpsertTable, EvictNothingTable, ReaderTable DEF Methods, Locks
  <2> QED
    BY <2>1, OutsideTable DEF Effects, Operations
<1>2. ASSUME NEW m \in {"evict_stale", "evict_some"}
      PROVE  Effects("effect", "evict", m, 5, "evict_some", 6)
  <2>1. /\ \A l \in Locks : 6 \in ClaimedAt("evict_some", l) <=> 5 \in ClaimedAt(m, l)
        /\ \A l \in Locks : 6 \in ReadAt("evict_some", l) <=> 5 \in ReadAt(m, l)
        /\ 6 \in CountAheadAt("evict_some") /\ 6 \in DexCountAheadAt("evict_some")
    BY EvictNothingTable, EvictSomeTable DEF Locks
  <2> QED
    BY <2>1 DEF Effects, Operations
<1> QED
  BY <1>1, <1>2

(* What an operation does to the locks.                                    *)
LockOperation(t, op, object) ==
  /\ op \in {"claim", "read"} => writer[object] = NoThread
  /\ writer' = CASE op = "claim"   -> [writer EXCEPT ![object] = t]
                 [] op = "release" -> [writer EXCEPT ![object] = NoThread]
                 [] OTHER          -> writer
  /\ readers' = CASE op = "read"  -> [readers EXCEPT ![object] = @ \cup {t}]
                  [] op = "leave" -> [readers EXCEPT ![object] = @ \ {t}]
                  [] OTHER        -> readers

LocksOK ==
  writer \in [Locks -> Threads \cup {NoThread}] /\ readers \in [Locks -> SUBSET Threads]

(* A thread whose place tells what its operation did to the locks keeps    *)
(* the places and the locks together.                                      *)
LEMMA LocksMove ==
  ASSUME LocksOK, LocksFollowPlaces, NEW t \in Threads, NEW op, NEW object,
         LockOperation(t, op, object),
         Effects(op, object, method[t], next[t], method'[t], next'[t]),
         \A u \in Threads \ {t} : method'[u] = method[u] /\ next'[u] = next[u]
  PROVE  LocksOK' /\ LocksFollowPlaces'
<1>0. /\ NoThread \notin Threads
      /\ op # "effect" => object \in Locks
      /\ op \in Operations
  BY CacheConstants DEF Effects
<1>1. LocksOK'
  BY <1>0 DEF LocksOK, LockOperation, Operations
<1>2. ASSUME NEW u \in Threads, NEW l \in Locks
      PROVE  /\ writer'[l] = u <=> next'[u] \in ClaimedAt(method'[u], l)
             /\ u \in readers'[l] <=> next'[u] \in ReadAt(method'[u], l)
  <2>1. /\ writer[l] = u <=> next[u] \in ClaimedAt(method[u], l)
        /\ u \in readers[l] <=> next[u] \in ReadAt(method[u], l)
    BY DEF LocksFollowPlaces
  <2>2. op = "release" => writer[object] = t
    BY <1>0 DEF LocksFollowPlaces, Effects
  <2>3. CASE u # t
    <3>1. writer'[l] = u <=> writer[l] = u
      BY <1>0, <2>2, <2>3 DEF LockOperation, LocksOK, Operations
    <3>2. u \in readers'[l] <=> u \in readers[l]
      BY <1>0, <2>3 DEF LockOperation, LocksOK, Operations
    <3> QED
      BY <2>1, <2>3, <3>1, <3>2
  <2>4. CASE u = t
    <3>1. writer'[l] = t <=> \/ op = "claim" /\ l = object
                             \/ writer[l] = t /\ ~(op = "release" /\ l = object)
      BY <1>0 DEF LockOperation, LocksOK, Operations
    <3>2. t \in readers'[l] <=> \/ op = "read" /\ l = object
                                \/ t \in readers[l] /\ ~(op = "leave" /\ l = object)
      BY <1>0 DEF LockOperation, LocksOK, Operations
    <3> QED
      BY <2>1, <2>4, <3>1, <3>2 DEF Effects
  <2> QED
    BY <2>3, <2>4
<1> QED
  BY <1>1, <1>2 DEF LocksFollowPlaces

(* Every step of a thread is an operation of that kind.                    *)
LEMMA ThreadMoves ==
  ASSUME TypeOK, NEW t \in Threads, Call(t) \/ Step(t)
  PROVE  /\ PlaceOK'
         /\ \A u \in Threads \ {t} : method'[u] = method[u] /\ next'[u] = next[u]
         /\ \E op, object :
              /\ LockOperation(t, op, object)
              /\ Effects(op, object, method[t], next[t], method'[t], next'[t])
<1>0. PlaceOK
  BY DEF TypeOK, PlaceOK, Bodies
<1> USE DEF locks, place
<1>1. CASE Call(t)
  <2>1. PICK m \in Calls[t] : method' = [method EXCEPT ![t] = m]
    BY <1>1 DEF Call
  <2>2. m \in Methods /\ m # Outside /\ method[t] = Outside /\ next[t] = 1
    BY <1>0, <1>1, CacheConstants DEF Call, Idle, PlaceOK, Methods, Outside
  <2>3. /\ \A u \in Threads \ {t} : method'[u] = method[u] /\ next'[u] = next[u]
        /\ method'[t] = m /\ next'[t] = 1 /\ next' = next
    BY <1>0, <1>1, <2>1, <2>2 DEF Call, PlaceOK
  <2>4. m \in Bodies
    BY <2>2 DEF Bodies
  <2>5. 1 \in DOMAIN Body(m)
    BY <2>2, <2>4, BodyLength
  <2>6. PlaceOK'
    <3>1. method' \in [Threads -> Bodies]
      BY <1>0, <2>1, <2>4 DEF PlaceOK
    <3> QED
      BY <1>0, <2>2, <2>3, <2>5, <3>1 DEF PlaceOK
  <2>7. Effects("effect", "call", method[t], next[t], method'[t], next'[t])
    BY <2>2, <2>3, Beginnings
  <2>8. LockOperation(t, "effect", "call")
    BY <1>1 DEF Call, LockOperation
  <2> QED
    BY <2>3, <2>6, <2>7, <2>8
<1>2. CASE ~Idle(t) /\ Advance(t)
            /\ LockOperation(t, Operation(t)[1], Object(t))
  BY <1>0, <1>2, Advances
<1>3. CASE Read(t) \/ Claim(t) \/ Drain(t) \/ Leave(t) \/ Release(t)
  <2>1. ~Idle(t) /\ Advance(t)
    BY <1>3 DEF Read, Claim, Drain, Leave, Release, AtOp
  <2>2. LockOperation(t, Operation(t)[1], Object(t))
    BY <1>3 DEF Read, Claim, Drain, Leave, Release, AtOp, LockOperation
  <2> QED
    BY <1>2, <2>1, <2>2
<1>4. CASE /\ ~Idle(t) /\ Advance(t) /\ Operation(t)[1] = "effect"
           /\ UNCHANGED locks
  <2>1. LockOperation(t, Operation(t)[1], Object(t))
    BY <1>4 DEF LockOperation
  <2> QED
    BY <1>2, <1>4, <2>1
<1>5. CASE Index(t) \/ Insert(t) \/ CountAll(t) \/ CountDexes(t)
  BY <1>4, <1>5 DEF Index, Insert, CountAll, CountDexes, AtEffect, AtOp
<1>6. CASE Evict(t)
  <2>1. /\ ~Idle(t) /\ Operation(t)[1] = "effect" /\ Object(t) = "evict"
        /\ UNCHANGED locks
    BY <1>6 DEF Evict, AtEffect, AtOp
  <2>2. CASE Advance(t)
    BY <1>4, <2>1, <2>2
  <2>3. CASE /\ method' = [method EXCEPT ![t] = "evict_some"]
             /\ next' = [next EXCEPT ![t] = @ + 1]
    <3>1. method[t] \in {"evict_stale", "evict_some"} /\ next[t] = 5
      <4>1. method[t] \in Bodies \ {Outside} /\ next[t] \in DOMAIN Body(method[t])
        BY <1>0, <2>1 DEF PlaceOK, Idle
      <4>2. Body(method[t])[next[t]][2] = "evict"
        BY <2>1 DEF Object, Operation
      <4> QED
        BY <4>1, <4>2, EffectPlaces
    <3>2. /\ \A u \in Threads \ {t} : method'[u] = method[u] /\ next'[u] = next[u]
          /\ method'[t] = "evict_some" /\ next'[t] = 6
      BY <1>0, <2>3, <3>1 DEF PlaceOK
    <3>3. PlaceOK'
      <4>1. 6 \in DOMAIN Body("evict_some") /\ "evict_some" # Outside
        BY EvictSomeBody DEF Outside
      <4>2. method' \in [Threads -> Bodies] /\ next' \in [Threads -> Nat]
        BY <1>0, <2>3, <3>1 DEF PlaceOK, Bodies
      <4> QED
        BY <1>0, <3>2, <4>1, <4>2 DEF PlaceOK
    <3>4. Effects("effect", "evict", method[t], next[t], method'[t], next'[t])
      BY <3>1, <3>2, Beginnings
    <3>5. LockOperation(t, "effect", "evict")
      BY <2>1 DEF LockOperation
    <3> QED
      BY <3>2, <3>3, <3>4, <3>5
  <2> QED
    BY <1>6, <2>2, <2>3 DEF Evict
<1> QED
  BY <1>1, <1>3, <1>5, <1>6 DEF Step

(* The locks follow the places at every step.                              *)
LEMMA LocksStep ==
  TypeOK /\ LocksFollowPlaces /\ [Next]_vars
    => LocksOK' /\ PlaceOK' /\ LocksFollowPlaces'
<1> SUFFICES ASSUME TypeOK, LocksFollowPlaces, [Next]_vars
             PROVE  LocksOK' /\ PlaceOK' /\ LocksFollowPlaces'
  OBVIOUS
<1>0. LocksOK /\ PlaceOK
  BY DEF TypeOK, LocksOK, PlaceOK, Bodies
<1>1. ASSUME NEW t \in Threads, Call(t) \/ Step(t)
      PROVE  LocksOK' /\ PlaceOK' /\ LocksFollowPlaces'
  BY <1>0, <1>1, ThreadMoves, LocksMove
<1>2. ASSUME UNCHANGED <<locks, place>>
      PROVE  LocksOK' /\ PlaceOK' /\ LocksFollowPlaces'
  BY <1>0, <1>2 DEF LocksOK, PlaceOK, LocksFollowPlaces, locks, place
<1>3. CASE (\E a \in Addresses : Age(a)) \/ UNCHANGED vars
  BY <1>2, <1>3 DEF Age, vars
<1> QED
  BY <1>1, <1>3 DEF Next

DataOK ==
  /\ address \in [Threads -> Addresses]
  /\ cached \in [Addresses -> {"absent", "fresh", "stale"}]
  /\ pairIndex \subseteq Addresses
  /\ cacheStats \in [total : 0..Cardinality(Addresses),
                     byDex : [Dexes -> 0..Cardinality(Addresses)]]

LEMMA TypeParts == TypeOK <=> LocksOK /\ PlaceOK /\ DataOK
  BY DEF TypeOK, LocksOK, PlaceOK, DataOK, Bodies

(* No count exceeds the number of pools there are.                         *)
LEMMA CountType ==
  ASSUME NEW S \in SUBSET Addresses
  PROVE  Cardinality(S) \in 0..Cardinality(Addresses)
<1>1. IsFiniteSet(Addresses)
  BY CacheConstants
<1>2. IsFiniteSet(S) /\ Cardinality(S) <= Cardinality(Addresses)
  BY <1>1, FS_Subset
<1>3. Cardinality(S) \in Nat /\ Cardinality(Addresses) \in Nat
  BY <1>1, <1>2, FS_CardinalityType
<1> QED
  BY <1>2, <1>3

(* The data keep their type.                                               *)
LEMMA DataStep == TypeOK /\ [Next]_vars => DataOK'
<1> SUFFICES ASSUME TypeOK, [Next]_vars PROVE DataOK'
  OBVIOUS
<1>0. DataOK
  BY TypeParts
<1> USE DEF data, locks, place
<1>1. ASSUME NEW t \in Threads, Call(t) PROVE DataOK'
  BY <1>0, <1>1 DEF Call, DataOK
<1>2. ASSUME NEW t \in Threads, Step(t) PROVE DataOK'
  <2>1. CASE Read(t) \/ Claim(t) \/ Drain(t) \/ Leave(t) \/ Release(t)
    BY <1>0, <2>1 DEF Read, Claim, Drain, Leave, Release, DataOK
  <2>2. CASE Index(t)
    BY <1>0, <2>2 DEF Index, DataOK
  <2>3. CASE Insert(t)
    BY <1>0, <2>3 DEF Insert, DataOK
  <2>4. CASE CountAll(t)
    <3>1. Cardinality(Cached) \in 0..Cardinality(Addresses)
      BY CountType DEF Cached
    <3> QED
      BY <1>0, <2>4, <3>1 DEF CountAll, DataOK
  <2>5. CASE CountDexes(t)
    <3>1. \A d \in Dexes :
            Cardinality({a \in Cached : DexOf[a] = d}) \in 0..Cardinality(Addresses)
      BY CountType DEF Cached
    <3>2. CountByDex \in [Dexes -> 0..Cardinality(Addresses)]
      BY <3>1 DEF CountByDex
    <3> QED
      BY <1>0, <2>5, <3>2 DEF CountDexes, DataOK
  <2>6. CASE Evict(t)
    <3>1. /\ UNCHANGED <<address, cacheStats>>
          /\ pairIndex' \subseteq pairIndex
      BY <2>6 DEF Evict
    <3>2. cached' \in [Addresses -> {"absent", "fresh", "stale"}]
      BY <1>0, <2>6 DEF Evict, DataOK
    <3> QED
      BY <1>0, <3>1, <3>2 DEF DataOK
  <2> QED
    BY <1>2, <2>1, <2>2, <2>3, <2>4, <2>5, <2>6 DEF Step
<1>3. ASSUME NEW a \in Addresses, Age(a) PROVE DataOK'
  BY <1>0, <1>3 DEF Age, DataOK
<1>4. CASE UNCHANGED vars
  BY <1>0, <1>4 DEF vars, DataOK
<1> QED
  BY <1>1, <1>2, <1>3, <1>4 DEF Next

LEMMA TypeInit == Init => TypeOK /\ LocksFollowPlaces
<1> SUFFICES ASSUME Init PROVE TypeOK /\ LocksFollowPlaces
  OBVIOUS
<1>1. LocksOK /\ PlaceOK
  BY DEF Init, LocksOK, PlaceOK, Bodies
<1>2. DataOK
  <2>1. 0 \in 0..Cardinality(Addresses)
    BY CacheConstants, FS_CardinalityType
  <2>2. (CHOOSE a \in Addresses : TRUE) \in Addresses
    BY CacheConstants
  <2> QED
    BY <2>1, <2>2 DEF Init, DataOK
<1>3. LocksFollowPlaces
  BY CacheConstants, OutsideTable DEF Init, LocksFollowPlaces
<1> QED
  BY <1>1, <1>2, <1>3, TypeParts

(* The cache's state is typed: no count exceeds the pools there are, and   *)
(* every thread is at an operation of the method it is in.                 *)
THEOREM TypeCorrect == Spec => []TypeOK
<1>1. TypeOK /\ LocksFollowPlaces /\ [Next]_vars => (TypeOK /\ LocksFollowPlaces)'
  BY LocksStep, DataStep, TypeParts, PTL
<1> QED
  BY <1>1, TypeInit, PTL DEF Spec

-----------------------------------------------------------------------------
(* Evictions                                                               *)

(* The places of the effects, for a thread that is at one.                 *)
LEMMA AtEffectPlaces ==
  ASSUME TypeOK, NEW t \in Threads
  PROVE  /\ AtEffect(t, "index") => method[t] = "upsert" /\ next[t] = 3
         /\ AtEffect(t, "insert") => method[t] = "upsert" /\ next[t] = 7
         /\ AtEffect(t, "evict") => method[t] \in {"evict_stale", "evict_some"} /\ next[t] = 5
<1> SUFFICES ASSUME ~Idle(t)
             PROVE  /\ Object(t) = "index" => method[t] = "upsert" /\ next[t] = 3
                    /\ Object(t) = "insert" => method[t] = "upsert" /\ next[t] = 7
                    /\ Object(t) = "evict" =>
                         method[t] \in {"evict_stale", "evict_some"} /\ next[t] = 5
  BY DEF AtEffect, AtOp
<1>1. method[t] \in Bodies \ {Outside} /\ next[t] \in DOMAIN Body(method[t])
  BY TypeParts DEF PlaceOK, Idle
<1> QED
  BY <1>1, EffectPlaces DEF Object, Operation

(* A thread in an eviction that removed pools holds the lock on the pools. *)
LEMMA RemoverHoldsPools ==
  ASSUME LocksFollowPlaces, RemovalIsStuck, NEW t \in Threads, Removing(t)
  PROVE  writer["pools"] = t
<1>1. next[t] \in ClaimedAt("evict_some", "pools")
  BY EvictSomeTable DEF RemovalIsStuck
<1> QED
  BY <1>1 DEF LocksFollowPlaces, Locks, Removing

(* It gets as far as to the second lock on the pools and stays there.      *)
LEMMA RemovalStep ==
  TypeOK /\ LocksFollowPlaces /\ RemovalIsStuck /\ [Next]_vars
    => RemovalIsStuck' /\ \A t \in Threads : Removing(t) => Removing(t)'
<1> SUFFICES ASSUME TypeOK, LocksFollowPlaces, RemovalIsStuck, [Next]_vars
             PROVE  RemovalIsStuck' /\ \A t \in Threads : Removing(t) => Removing(t)'
  OBVIOUS
<1>0. PlaceOK
  BY TypeParts
<1> USE DEF locks, place
<1>1. ASSUME NEW t \in Threads, Call(t) \/ Step(t),
             Removing(t) => Removing(t)', Removing(t)' => next'[t] \in 6..9
      PROVE  RemovalIsStuck' /\ \A u \in Threads : Removing(u) => Removing(u)'
  <2>1. \A u \in Threads \ {t} : method'[u] = method[u] /\ next'[u] = next[u]
    BY <1>1, ThreadMoves
  <2> QED
    BY <1>1, <2>1 DEF RemovalIsStuck, Removing
<1>2. ASSUME NEW t \in Threads, Call(t) PROVE Removing(t) => Removing(t)'
  BY <1>2 DEF Call, Idle, Removing, Outside
<1>3. ASSUME NEW t \in Threads, Call(t) PROVE ~Removing(t)'
  <2>1. PICK m \in Calls[t] : method' = [method EXCEPT ![t] = m]
    BY <1>3 DEF Call
  <2>2. m \in Methods
    BY CacheConstants
  <2>3. method'[t] = m
    BY <1>0, <2>1 DEF PlaceOK
  <2> QED
    BY <2>2, <2>3 DEF Removing, Methods
<1>4. ASSUME NEW t \in Threads, Step(t), ~Evict(t)
      PROVE  /\ Removing(t) => Removing(t)'
             /\ Removing(t)' => next'[t] \in 6..9
  <2>1. ~Idle(t) /\ Advance(t)
    BY <1>4 DEF Step, Read, Claim, Drain, Leave, Release, Index, Insert, CountAll,
                CountDexes, AtEffect, AtOp
  <2>2. CASE ~Removing(t)
    BY <1>0, <2>1, <2>2 DEF Advance, Removing, PlaceOK, Outside
  <2>3. CASE Removing(t)
    <3>1. next[t] # 9
      <4>1. SUFFICES ASSUME next[t] = 9 PROVE FALSE
        OBVIOUS
      <4>2. Operation(t)[1] = "read" /\ Object(t) = "pools"
        BY <2>3, <4>1, EvictSomeBody DEF Operation, Object, Removing
      <4>3. Read(t)
        <5>1. \A op : AtOp(t, op) => op = "read"
          BY <4>2 DEF AtOp
        <5>2. ~Claim(t) /\ ~Drain(t) /\ ~Leave(t) /\ ~Release(t)
          BY <5>1 DEF Claim, Drain, Leave, Release
        <5>3. ~Index(t) /\ ~Insert(t) /\ ~CountAll(t) /\ ~CountDexes(t)
          BY <5>1 DEF Index, Insert, CountAll, CountDexes, AtEffect
        <5> QED
          BY <1>4, <5>2, <5>3 DEF Step
      <4>4. writer["pools"] = NoThread
        BY <4>2, <4>3 DEF Read
      <4> QED
        BY <2>3, <4>4, RemoverHoldsPools, CacheConstants
    <3>2. next[t] \in 6..8
      BY <2>3, <3>1 DEF RemovalIsStuck
    <3>3. method'[t] = "evict_some" /\ next'[t] = next[t] + 1
      <4>1. Len(Body(method[t])) = 14 /\ next[t] # 14
        BY <2>3, <3>2, EvictSomeBody DEF Removing
      <4>2. next' = [next EXCEPT ![t] = @ + 1] /\ method' = method
        BY <2>1, <4>1 DEF Advance
      <4> QED
        BY <1>0, <2>3, <4>2 DEF PlaceOK, Removing
    <3> QED
      BY <3>2, <3>3 DEF Removing
  <2> QED
    BY <2>2, <2>3
<1>5. ASSUME NEW t \in Threads, Evict(t)
      PROVE  /\ Removing(t) => Removing(t)'
             /\ Removing(t)' => next'[t] \in 6..9
  <2>1. method[t] \in {"evict_stale", "evict_some"} /\ next[t] = 5
    BY <1>5, AtEffectPlaces DEF Evict
  <2>2. ~Removing(t)
    BY <2>1 DEF RemovalIsStuck
  <2>3. CASE Advance(t)
    BY <1>0, <2>2, <2>3 DEF Advance, Removing, PlaceOK, Outside
  <2>4. CASE next' = [next EXCEPT ![t] = @ + 1]
    BY <1>0, <2>1, <2>2, <2>4 DEF PlaceOK
  <2> QED
    BY <1>5, <2>3, <2>4 DEF Evict
<1>6. CASE (\E a \in Addresses : Age(a)) \/ UNCHANGED vars
  BY <1>6 DEF Age, vars, RemovalIsStuck, Removing
<1> QED
  BY <1>1, <1>2, <1>3, <1>4, <1>5, <1>6 DEF Next, Step

(* An eviction that has removed a pool never returns, and keeps the locks  *)
(* on the pools and the pair index: every thread that needs one of them    *)
(* waits for good (see EvictionDeadlock.cfg for a thread that does).       *)
THEOREM RemovalNeverReturns ==
  Spec => [][\A t \in Threads : Removing(t) =>
               /\ Removing(t)' /\ ~Idle(t)'
               /\ writer'["pools"] = t /\ writer'["pair_index"] = t]_vars
<1> DEFINE Inv == TypeOK /\ LocksFollowPlaces /\ RemovalIsStuck
           Kept == \A t \in Threads : Removing(t) =>
                     /\ Removing(t)' /\ ~Idle(t)'
                     /\ writer'["pools"] = t /\ writer'["pair_index"] = t
<1>1. Init => Inv
  BY TypeInit DEF Init, RemovalIsStuck, Removing, Outside
<1>2. Inv /\ [Next]_vars => Inv'
  BY LocksStep, DataStep, TypeParts, RemovalStep, PTL
<1>3. Inv /\ [Next]_vars => Kept
  <2> SUFFICES ASSUME Inv, [Next]_vars, NEW t \in Threads, Removing(t)
               PROVE  /\ Removing(t)' /\ ~Idle(t)'
                      /\ writer'["pools"] = t /\ writer'["pair_index"] = t
    OBVIOUS
  <2>1. Removing(t)' /\ next'[t] \in 6..9 /\ LocksFollowPlaces'
    BY LocksStep, RemovalStep DEF RemovalIsStuck
  <2>2. ~Idle(t)'
    BY <2>1 DEF Removing, Idle, Outside
  <2>3. next'[t] \in ClaimedAt("evict_some", "pools") /\ next'[t] \in ClaimedAt("evict_some", "pair_index")
    BY <2>1, EvictSomeTable
  <2> QED
    BY <2>1, <2>2, <2>3 DEF LocksFollowPlaces, Locks, Removing
<1> QED
  BY <1>1, <1>2, <1>3, PTL DEF Spec

-----------------------------------------------------------------------------
(* The index                                                               *)

(* No pool is inserted while an eviction that removed pools is stuck, and  *)
(* one that is finds its place in the index.                               *)
LEMMA IndexStep ==
  TypeOK /\ LocksFollowPlaces /\ RemovalIsStuck /\ IndexedUntilInserted /\ IndexCoversCache
    /\ [Next]_vars => IndexedUntilInserted' /\ IndexCoversCache'
<1> SUFFICES ASSUME TypeOK, LocksFollowPlaces, RemovalIsStuck, IndexedUntilInserted,
                    IndexCoversCache, [Next]_vars
             PROVE  IndexedUntilInserted' /\ IndexCoversCache'
  OBVIOUS
<1>0. PlaceOK /\ DataOK
  BY TypeParts
<1> USE DEF locks, place, data
<1> DEFINE Between(t) == method[t] = "upsert" /\ next[t] \in 4..7
<1>1. ASSUME NEW e \in Threads, Removing(e) PROVE IndexedUntilInserted'
  BY <1>1, RemovalStep DEF IndexedUntilInserted
<1>2. ASSUME NEW t \in Threads, Insert(t)
      PROVE  method[t] = "upsert" /\ next[t] = 7 /\ address[t] \in pairIndex
  <2>1. method[t] = "upsert" /\ next[t] = 7
    BY <1>2, AtEffectPlaces DEF Insert
  <2>2. writer["pools"] = t
    BY <2>1, UpsertTable DEF LocksFollowPlaces, Locks
  <2>3. \A e \in Threads : ~Removing(e)
    BY <2>1, <2>2, RemoverHoldsPools DEF Removing
  <2> QED
    BY <2>1, <2>3 DEF IndexedUntilInserted
<1>3. IndexCoversCache'
  <2>1. CASE \E t \in Threads : Insert(t)
    <3>1. PICK t \in Threads : Insert(t)
      BY <2>1
    <3>2. pairIndex' = pairIndex /\ Cached' \subseteq Cached \cup {address[t]}
      BY <1>0, <3>1 DEF Insert, Cached, DataOK
    <3> QED
      BY <1>2, <3>1, <3>2 DEF IndexCoversCache
  <2>2. CASE \E t \in Threads : Evict(t)
    <3>1. PICK t \in Threads : Evict(t)
      BY <2>2
    <3> DEFINE stale == {a \in Addresses : cached[a] = "stale"}
    <3>2. /\ pairIndex' = pairIndex \ stale
          /\ cached' = [a \in Addresses |-> IF a \in stale THEN "absent" ELSE cached[a]]
      BY <3>1 DEF Evict
    <3>3. Cached' \subseteq Cached \ stale
      BY <3>2 DEF Cached
    <3> QED
      BY <3>2, <3>3 DEF IndexCoversCache
  <2>3. CASE \E a \in Addresses : Age(a)
    <3>1. pairIndex' = pairIndex /\ Cached' \subseteq Cached
      BY <1>0, <2>3 DEF Age, Cached, DataOK
    <3> QED
      BY <3>1 DEF IndexCoversCache
  <2>4. CASE cached' = cached /\ pairIndex \subseteq pairIndex'
    BY <2>4 DEF IndexCoversCache, Cached
  <2>5. CASE \E t \in Threads : \/ Call(t) \/ Read(t) \/ Claim(t) \/ Drain(t) \/ Leave(t)
                                \/ Release(t) \/ Index(t) \/ CountAll(t) \/ CountDexes(t)
    BY <2>4, <2>5 DEF Call, Read, Claim, Drain, Leave, Release, Index, CountAll, CountDexes
  <2>6. CASE UNCHANGED vars
    BY <2>4, <2>6 DEF vars
  <2> QED
    BY <2>1, <2>2, <2>3, <2>5, <2>6 DEF Next, Step
<1>4. ASSUME \A e \in Threads : ~Removing(e)
      PROVE  IndexedUntilInserted'
  <2>0. \A t \in Threads : Between(t) => address[t] \in pairIndex
    BY <1>4 DEF IndexedUntilInserted
  <2>1. ASSUME UNCHANGED <<address, place>>, pairIndex \subseteq pairIndex'
        PROVE  IndexedUntilInserted'
    BY <2>0, <2>1 DEF IndexedUntilInserted
  <2>2. ASSUME NEW t \in Threads, Call(t) \/ Step(t),
               \A u \in Threads \ {t} : address'[u] = address[u],
               pairIndex \subseteq pairIndex',
               Between(t)' => address'[t] \in pairIndex'
        PROVE  IndexedUntilInserted'
    <3>1. \A u \in Threads \ {t} : method'[u] = method[u] /\ next'[u] = next[u]
      BY <2>2, ThreadMoves
    <3> QED
      BY <2>0, <2>2, <3>1 DEF IndexedUntilInserted
  <2>3. ASSUME NEW t \in Threads, Call(t) PROVE IndexedUntilInserted'
    <3>1. next'[t] = 1 /\ pairIndex' = pairIndex
      BY <1>0, <2>3 DEF Call, PlaceOK, Idle
    <3>2. \A u \in Threads \ {t} : address'[u] = address[u]
      BY <1>0, <2>3 DEF Call, DataOK
    <3> QED
      BY <2>2, <2>3, <3>1, <3>2
  <2>4. ASSUME NEW t \in Threads, Advance(t), ~Idle(t), Between(t)'
        PROVE  Between(t) \/ (method[t] = "upsert" /\ next[t] = 3)
    <3>1. method[t] = "upsert" /\ next'[t] = next[t] + 1 /\ next[t] \in Nat
      BY <1>0, <2>4 DEF Advance, PlaceOK, Outside
    <3> QED
      BY <2>4, <3>1
  <2>5. ASSUME NEW t \in Threads, Step(t), ~Evict(t) PROVE IndexedUntilInserted'
    <3>1. ~Idle(t) /\ Advance(t) /\ address' = address /\ pairIndex \subseteq pairIndex'
      BY <2>5 DEF Step, Read, Claim, Drain, Leave, Release, Index, Insert, CountAll,
                  CountDexes, AtEffect, AtOp
    <3>2. CASE method[t] = "upsert" /\ next[t] = 3
      <4>1. Operation(t)[1] = "effect" /\ Object(t) = "index"
        BY <3>2, UpsertBody DEF Operation, Object
      <4>2. Index(t)
        <5>1. \A op : AtOp(t, op) => op = "effect"
          BY <4>1 DEF AtOp
        <5>2. ~Read(t) /\ ~Claim(t) /\ ~Drain(t) /\ ~Leave(t) /\ ~Release(t)
          BY <5>1 DEF Read, Claim, Drain, Leave, Release
        <5>3. ~Insert(t) /\ ~CountAll(t) /\ ~CountDexes(t)
          BY <4>1 DEF Insert, CountAll, CountDexes, AtEffect
        <5> QED
          BY <2>5, <5>2, <5>3 DEF Step
      <4>3. address'[t] \in pairIndex'
        BY <4>2 DEF Index
      <4> QED
        BY <2>2, <2>5, <3>1, <4>3
    <3>3. CASE ~(method[t] = "upsert" /\ next[t] = 3)
      <4>1. Between(t)' => address'[t] \in pairIndex'
        BY <2>0, <2>4, <3>1, <3>3
      <4> QED
        BY <2>2, <2>5, <3>1, <4>1
    <3> QED
      BY <3>2, <3>3
  <2>6. ASSUME NEW t \in Threads, Evict(t) PROVE IndexedUntilInserted'
    <3> DEFINE stale == {a \in Addresses : cached[a] = "stale"}
    <3>1. CASE stale = {}
      <4>1. /\ Advance(t) /\ address' = address /\ pairIndex' = pairIndex
            /\ ~Idle(t) /\ next[t] = 5
        BY <2>6, <3>1, AtEffectPlaces DEF Evict, AtEffect, AtOp
      <4>2. Between(t)' => address'[t] \in pairIndex'
        BY <2>0, <2>4, <4>1
      <4> QED
        BY <2>2, <2>6, <4>1, <4>2 DEF Step
    <3>2. CASE stale # {}
      <4>1. method' = [method EXCEPT ![t] = "evict_some"]
        BY <2>6, <3>2 DEF Evict
      <4>2. Removing(t)'
        BY <1>0, <4>1 DEF PlaceOK, Removing
      <4> QED
        BY <4>2 DEF IndexedUntilInserted
    <3> QED
      BY <3>1, <3>2
  <2>7. CASE (\E a \in Addresses : Age(a)) \/ UNCHANGED vars
    BY <2>1, <2>7 DEF Age, vars
  <2> QED
    BY <2>3, <2>5, <2>6, <2>7 DEF Next
<1> QED
  BY <1>1, <1>3, <1>4

(* Every pool in the cache can be found by its pair at every moment, for   *)
(* any number of threads and any interleaving of upserts and evictions.    *)
THEOREM IndexIsComplete == Spec => []IndexCoversCache
<1> DEFINE Inv == TypeOK /\ LocksFollowPlaces /\ RemovalIsStuck
                    /\ IndexedUntilInserted /\ IndexCoversCache
<1>1. Init => Inv
  <2> SUFFICES ASSUME Init PROVE Inv
    OBVIOUS
  <2>1. RemovalIsStuck /\ IndexedUntilInserted
    BY DEF Init, RemovalIsStuck, IndexedUntilInserted, Removing, Outside
  <2>2. IndexCoversCache
    BY DEF Init, IndexCoversCache, Cached
  <2> QED
    BY <2>1, <2>2, TypeInit
<1>2. Inv /\ [Next]_vars => Inv'
  BY LocksStep, DataStep, TypeParts, RemovalStep, IndexStep, PTL
<1> QED
  BY <1>1, <1>2, PTL DEF Spec

-----------------------------------------------------------------------------
(* The statistics                                                          *)

(* Only an upsert and an eviction that removes pools change what is in the *)
(* cache, and both have the counts ahead of them then.                     *)
LEMMA CountsFollow ==
  ASSUME TypeOK, [Next]_vars, Cached' # Cached
  PROVE  \E t \in Threads : CountAhead(t)' /\ DexCountAhead(t)'
<1>0. PlaceOK /\ DataOK
  BY TypeParts
<1> USE DEF locks, place, data
<1>1. cached' # cached
  BY DEF Cached
<1>2. ~UNCHANGED vars
  BY <1>1 DEF vars
<1>3. \A a \in Addresses : ~Age(a)
  BY <1>0 DEF Age, Cached, DataOK
<1>4. PICK t \in Threads : Insert(t) \/ Evict(t)
  BY <1>1, <1>2, <1>3 DEF Next, Step, Call, Read, Claim, Drain, Leave, Release, Index,
                          CountAll, CountDexes
<1>5. CASE Insert(t)
  <2>1. method[t] = "upsert" /\ next[t] = 7
    BY <1>5, AtEffectPlaces DEF Insert
  <2>2. Len(Body(method[t])) = 17
    BY <2>1, UpsertBody
  <2>3. method' = method /\ next' = [next EXCEPT ![t] = @ + 1]
    BY <1>5, <2>1, <2>2 DEF Insert, Advance
  <2>4. method'[t] = "upsert" /\ next'[t] = 8
    BY <1>0, <2>1, <2>3 DEF PlaceOK
  <2> QED
    BY <2>4, UpsertTable DEF CountAhead, DexCountAhead
<1>6. CASE Evict(t)
  <2> DEFINE stale == {a \in Addresses : cached[a] = "stale"}
  <2>1. stale # {}
    <3>1. SUFFICES ASSUME stale = {} PROVE FALSE
      OBVIOUS
    <3>2. cached' = [a \in Addresses |-> IF a \in stale THEN "absent" ELSE cached[a]]
      BY <1>6 DEF Evict
    <3>3. cached' = [a \in Addresses |-> cached[a]]
      BY <3>1, <3>2
    <3> QED
      BY <1>0, <1>1, <3>3 DEF DataOK
  <2>2. /\ method' = [method EXCEPT ![t] = "evict_some"]
        /\ next' = [next EXCEPT ![t] = @ + 1]
    BY <1>6, <2>1 DEF Evict
  <2>3. next[t] = 5
    BY <1>6, AtEffectPlaces DEF Evict
  <2>4. method'[t] = "evict_some" /\ next'[t] = 6
    BY <1>0, <2>2, <2>3 DEF PlaceOK
  <2> QED
    BY <2>4, EvictSomeTable DEF CountAhead, DexCountAhead
<1> QED
  BY <1>4, <1>5, <1>6

(* A thread that has a count ahead either still has it or has just taken   *)
(* it, and nothing but a count changes the statistics.                     *)
LEMMA CountsTaken ==
  ASSUME TypeOK, NEW t \in Threads, Call(t) \/ Step(t)
  PROVE  /\ CountAhead(t) => CountAhead(t)' \/ CountAll(t)
         /\ DexCountAhead(t) => DexCountAhead(t)' \/ CountDexes(t)
         /\ cacheStats'.total # cacheStats.total => CountAll(t)
         /\ cacheStats'.byDex # cacheStats.byDex => CountDexes(t)
<1>0. PlaceOK /\ DataOK
  BY TypeParts
<1> USE DEF locks, place, data
<1>1. CASE Call(t)
  <2>1. method[t] = Outside
    BY <1>1 DEF Call, Idle
  <2>2. ~CountAhead(t) /\ ~DexCountAhead(t)
    BY <2>1, OutsideTable DEF CountAhead, DexCountAhead
  <2> QED
    BY <1>1, <2>2 DEF Call
<1>2. CASE Evict(t)
  <2>1. method[t] \in {"evict_stale", "evict_some"} /\ next[t] = 5 /\ ~Idle(t)
    BY <1>2, AtEffectPlaces DEF Evict, AtEffect, AtOp
  <2>2. CASE Advance(t)
    <3>1. Effects(Operation(t)[1], Object(t), method[t], next[t], method'[t], next'[t])
      BY <1>0, <2>1, <2>2, Advances
    <3>2. Object(t) = "evict"
      BY <1>2 DEF Evict, AtEffect
    <3> QED
      BY <1>2, <3>1, <3>2 DEF Effects, CountAhead, DexCountAhead, Evict
  <2>3. CASE /\ method' = [method EXCEPT ![t] = "evict_some"]
             /\ next' = [next EXCEPT ![t] = @ + 1]
    <3>1. method'[t] = "evict_some" /\ next'[t] = 6
      BY <1>0, <2>1, <2>3 DEF PlaceOK
    <3> QED
      BY <1>2, <3>1, EvictSomeTable DEF CountAhead, DexCountAhead, Evict
  <2> QED
    BY <1>2, <2>2, <2>3 DEF Evict
<1>3. CASE Step(t) /\ ~Evict(t)
  <2>1. ~Idle(t) /\ Advance(t)
    BY <1>3 DEF Step, Read, Claim, Drain, Leave, Release, Index, Insert, CountAll,
                CountDexes, AtEffect, AtOp
  <2>2. Effects(Operation(t)[1], Object(t), method[t], next[t], method'[t], next'[t])
    BY <1>0, <2>1, Advances
  <2>3. Object(t) \in {"count_all", "count_by_dex"} => Operation(t)[1] = "effect"
    BY <2>2 DEF Effects, Locks
  <2>4. Operation(t)[1] = "effect" =>
          ~Read(t) /\ ~Claim(t) /\ ~Drain(t) /\ ~Leave(t) /\ ~Release(t)
    BY DEF Read, Claim, Drain, Leave, Release, AtOp
  <2>5. Object(t) = "count_all" => CountAll(t)
    BY <1>3, <2>3, <2>4 DEF Step, Index, Insert, CountDexes, AtEffect
  <2>6. Object(t) = "count_by_dex" => CountDexes(t)
    BY <1>3, <2>3, <2>4 DEF Step, Index, Insert, CountAll, AtEffect
  <2>7. /\ cacheStats'.total # cacheStats.total => CountAll(t)
        /\ cacheStats'.byDex # cacheStats.byDex => CountDexes(t)
    <3>1. CASE CountAll(t)
      BY <1>0, <3>1 DEF CountAll, DataOK
    <3>2. CASE CountDexes(t)
      BY <1>0, <3>2 DEF CountDexes, DataOK
    <3>3. CASE Read(t) \/ Claim(t) \/ Drain(t) \/ Leave(t) \/ Release(t)
                 \/ Index(t) \/ Insert(t)
      BY <3>3 DEF Read, Claim, Drain, Leave, Release, Index, Insert
    <3> QED
      BY <1>3, <3>1, <3>2, <3>3 DEF Step
  <2> QED
    BY <2>2, <2>5, <2>6, <2>7 DEF Effects, CountAhead, DexCountAhead
<1> QED
  BY <1>1, <1>2, <1>3 DEF Step

LEMMA CountsStep == TypeOK /\ CountsComeRight /\ [Next]_vars => CountsComeRight'
<1> SUFFICES ASSUME TypeOK, CountsComeRight, [Next]_vars PROVE CountsComeRight'
  OBVIOUS
<1>1. CASE Cached' # Cached
  BY <1>1, CountsFollow DEF CountsComeRight
<1>2. CASE Cached' = Cached
  <2>1. Cardinality(Cached)' = Cardinality(Cached) /\ CountByDex' = CountByDex
    BY <1>2 DEF CountByDex
  <2>2. ASSUME NEW t \in Threads, Call(t) \/ Step(t) PROVE CountsComeRight'
    <3>1. \A u \in Threads \ {t} : /\ CountAhead(u) => CountAhead(u)'
                                   /\ DexCountAhead(u) => DexCountAhead(u)'
      BY <2>2, ThreadMoves DEF CountAhead, DexCountAhead
    <3>2. CountAll(t) => cacheStats'.total = Cardinality(Cached)
      BY TypeParts DEF CountAll, DataOK
    <3>3. CountDexes(t) => cacheStats'.byDex = CountByDex
      BY TypeParts DEF CountDexes, DataOK
    <3> QED
      BY <2>1, <2>2, <3>1, <3>2, <3>3, CountsTaken DEF CountsComeRight
  <2>3. CASE (\E a \in Addresses : Age(a)) \/ UNCHANGED vars
    <3>1. UNCHANGED <<place, cacheStats>>
      BY <2>3 DEF Age, vars, data
    <3> QED
      BY <2>1, <3>1 DEF CountsComeRight, CountAhead, DexCountAhead, place
  <2> QED
    BY <2>2, <2>3 DEF Next
<1> QED
  BY <1>1, <1>2

(* Once no method is under way the statistics are those of the cache, for  *)
(* any number of threads: whoever changes the cache counts it afterwards.  *)
THEOREM StatisticsCatchUp == Spec => []StatsCatchUp
<1> DEFINE Inv == TypeOK /\ LocksFollowPlaces /\ CountsComeRight
<1>1. Init => Inv
  <2> SUFFICES ASSUME Init PROVE CountsComeRight
    BY TypeInit
  <2>1. Cached = {}
    BY DEF Init, Cached
  <2>2. CountByDex = [d \in Dexes |-> 0]
    BY <2>1, FS_EmptySet DEF CountByDex
  <2> QED
    BY <2>1, <2>2, FS_EmptySet DEF Init, CountsComeRight
<1>2. Inv /\ [Next]_vars => Inv'
  BY LocksStep, DataStep, TypeParts, CountsStep, PTL
<1>3. Inv => StatsCatchUp
  <2> SUFFICES ASSUME Inv, \A t \in Threads : Idle(t)
               PROVE  cacheStats = [total |-> Cardinality(Cached), byDex |-> CountByDex]
    BY DEF StatsCatchUp
  <2>1. \A t \in Threads : ~CountAhead(t) /\ ~DexCountAhead(t)
    BY OutsideTable DEF Idle, CountAhead, DexCountAhead
  <2>2. cacheStats.total = Cardinality(Cached) /\ cacheStats.byDex = CountByDex
    BY <2>1 DEF CountsComeRight
  <2> QED
    BY <2>2, TypeParts DEF DataOK
<1> QED
  BY <1>1, <1>2, <1>3, PTL DEF Spec

-----------------------------------------------------------------------------
(* Deadlock                                                                *)

Waiting == {"claim", "drain", "read"}

(* The order of the locks in upserts and reads: inside pools nothing else  *)
(* is waited for, inside another lock only pools is.                       *)
LEMMA LockOrder ==
  ASSUME NEW m \in Methods \ {"evict_stale"}, NEW i \in DOMAIN Body(m), Body(m)[i][1] \in Waiting
  PROVE  /\ Body(m)[i][2] \in Locks
         /\ i \notin ReadAt(m, "pools")
         /\ i \in ClaimedAt(m, "pools") => Body(m)[i] = <<"drain", "pools">>
         /\ \A l \in Locks : i \in ReadAt(m, l) => Body(m)[i] = <<"read", "pools">>
         /\ \A l \in Locks : i \in ClaimedAt(m, l) =>
              Body(m)[i] = <<"drain", l>> \/ Body(m)[i] = <<"read", "pools">>
<1>1. CASE m = "upsert"
  <2>1. i \in {1, 2, 5, 6, 9, 10, 11, 14}
    BY <1>1, UpsertBody DEF Waiting
  <2> QED
    BY <1>1, <2>1, UpsertBody, UpsertTable, SMTT(30) DEF Locks
<1>2. CASE m = "get_by_pair"
  <2>1. i \in {1, 2}
    BY <1>2, ReaderBodies DEF Waiting
  <2> QED
    BY <1>2, <2>1, ReaderBodies, ReaderTable DEF Locks
<1>3. CASE m \in {"read_pools", "stats"}
  <2>1. i = 1
    BY <1>3, ReaderBodies DEF Waiting
  <2> QED
    BY <1>3, <2>1, ReaderBodies, ReaderTable DEF Locks
<1> QED
  BY <1>1, <1>2, <1>3 DEF Methods

(* Upserts and reads alone never wait for each other in a circle, for any  *)
(* number of threads: while no thread evicts, one in the cache can move.   *)
THEOREM NobodyWaitsInACircle == Spec => []NoDeadlockWithoutEviction
<1>1. TypeOK /\ LocksFollowPlaces => NoDeadlockWithoutEviction
  <2> SUFFICES ASSUME TypeOK, LocksFollowPlaces, NEW t \in Threads, ~Idle(t),
                      \A u \in Threads : ~Evicting(u),
                      \A u \in Threads : ~Idle(u) => Blocked(u)
               PROVE  FALSE
    BY DEF NoDeadlockWithoutEviction
  <2>1. ASSUME NEW u \in Threads, ~Idle(u)
        PROVE  /\ Operation(u)[1] \in Waiting
               /\ Object(u) \in Locks
               /\ next[u] \notin ReadAt(method[u], "pools")
               /\ next[u] \in ClaimedAt(method[u], "pools") => Operation(u) = <<"drain", "pools">>
               /\ \A l \in Locks :
                    next[u] \in ReadAt(method[u], l) => Operation(u) = <<"read", "pools">>
               /\ \A l \in Locks :
                    next[u] \in ClaimedAt(method[u], l) =>
                      Operation(u) = <<"drain", l>> \/ Operation(u) = <<"read", "pools">>
    <3>1. Operation(u)[1] \in Waiting
      BY <2>1 DEF Blocked, AtOp, Waiting
    <3>2. method[u] \in Methods \ {"evict_stale"} /\ next[u] \in DOMAIN Body(method[u])
      BY <2>1, TypeParts DEF PlaceOK, Bodies, Idle, Evicting
    <3> QED
      BY <3>1, <3>2, LockOrder DEF Operation, Object
  <2>2. \A u \in Threads, l \in Locks :
          u \in readers[l] \/ writer[l] = u => ~Idle(u)
    BY OutsideTable DEF LocksFollowPlaces, Idle
  <2>3. readers["pools"] = {}
    <3>1. \A u \in Threads : u \notin readers["pools"]
      BY <2>1, <2>2 DEF LocksFollowPlaces, Locks
    <3> QED
      BY <3>1, TypeParts DEF LocksOK, Locks
  <2>4. writer["pools"] = NoThread
    <3>1. ASSUME NEW u \in Threads, writer["pools"] = u PROVE FALSE
      <4>1. ~Idle(u) /\ next[u] \in ClaimedAt(method[u], "pools")
        BY <2>2, <3>1 DEF LocksFollowPlaces, Locks
      <4>2. Operation(u)[1] = "drain" /\ Object(u) = "pools"
        BY <2>1, <4>1 DEF Object
      <4> QED
        BY <2>3, <4>1, <4>2 DEF Blocked, AtOp
    <3> QED
      BY <3>1, TypeParts DEF LocksOK, Locks
  <2>5. ASSUME NEW u \in Threads, ~Idle(u) PROVE Object(u) # "pools"
    BY <2>3, <2>4, <2>5 DEF Blocked
  <2>6. ASSUME NEW l \in Locks PROVE readers[l] = {}
    <3>1. ASSUME NEW u \in Threads, u \in readers[l] PROVE FALSE
      <4>1. ~Idle(u) /\ Operation(u) = <<"read", "pools">>
        BY <2>1, <2>2, <3>1 DEF LocksFollowPlaces
      <4> QED
        BY <2>5, <4>1 DEF Object
    <3> QED
      BY <3>1, TypeParts DEF LocksOK
  <2>7. ASSUME NEW l \in Locks PROVE writer[l] = NoThread
    <3>1. ASSUME NEW u \in Threads, writer[l] = u PROVE FALSE
      <4>1. /\ ~Idle(u)
            /\ Operation(u) = <<"drain", l>> \/ Operation(u) = <<"read", "pools">>
        BY <2>1, <2>2, <3>1 DEF LocksFollowPlaces
      <4>2. Operation(u)[1] = "drain" /\ Object(u) = l
        BY <2>5, <4>1 DEF Object
      <4> QED
        BY <2>6, <4>1, <4>2 DEF Blocked, AtOp
    <3> QED
      BY <3>1, TypeParts DEF LocksOK
  <2> QED
    BY <2>1, <2>6, <2>7 DEF Blocked
<1>2. TypeOK /\ LocksFollowPlaces /\ [Next]_vars => (TypeOK /\ LocksFollowPlaces)'
  BY LocksStep, DataStep, TypeParts, PTL
<1> QED
  BY <1>1, <1>2, TypeInit, PTL DEF Spec

-----------------------------------------------------------------------------
(* Scanner                                                                 *)

(* The map holds the last state received of each of its pools: this is     *)
(* what makes a quote one that can be had.                                 *)
PricesAreLatest ==
  \A i \in DOMAIN pools :
    /\ pools[i].poolAddress \in DOMAIN latest
    /\ latest[pools[i].poolAddress] = pools[i]

-----------------------------------------------------------------------------
(* Map.set with a known key, and with a new one.                           *)
LEMMA UpdateFacts ==
  ASSUME NEW entries \in Seq(PoolStates), NEW pool \in PoolStates
  PROVE  /\ Update(entries, pool) \in Seq(PoolStates)
         /\ \A i \in DOMAIN Update(entries, pool) :
              \/ Update(entries, pool)[i] = pool
              \/ /\ i \in DOMAIN entries
                 /\ Update(entries, pool)[i] = entries[i]
                 /\ Key(entries[i]) # Key(pool)
<1>1. CASE \E i \in DOMAIN entries : Key(entries[i]) = Key(pool)
  <2>1. Update(entries, pool) =
          [i \in DOMAIN entries |-> IF Key(entries[i]) = Key(pool) THEN pool ELSE entries[i]]
    BY <1>1, Zenon DEF Update
  <2>2. DOMAIN entries = 1..Len(entries) /\ Len(entries) \in Nat
    OBVIOUS
  <2>3. \A i \in DOMAIN entries : entries[i] \in PoolStates
    OBVIOUS
  <2>4. Update(entries, pool) \in [1..Len(entries) -> PoolStates]
    BY <2>1, <2>2, <2>3, Zenon
  <2>5. Update(entries, pool) \in Seq(PoolStates)
    BY <2>2, <2>4
  <2> QED
    BY <2>1, <2>5, Zenon
<1>2. CASE ~ \E i \in DOMAIN entries : Key(entries[i]) = Key(pool)
  <2>1. Update(entries, pool) = Append(entries, pool)
    BY <1>2, Zenon DEF Update
  <2>2. \A i \in DOMAIN Append(entries, pool) :
          \/ Append(entries, pool)[i] = pool
          \/ i \in DOMAIN entries /\ Append(entries, pool)[i] = entries[i]
    OBVIOUS
  <2>3. Append(entries, pool) \in Seq(PoolStates)
    OBVIOUS
  <2> QED
    BY <1>2, <2>1, <2>2, <2>3, Zenon
<1> QED
  BY <1>1, <1>2

LEMMA KeysStayApart ==
  ASSUME NEW entries \in Seq(PoolStates), NEW pool \in PoolStates,
         \A i, j \in DOMAIN entries : Key(entries[i]) = Key(entries[j]) => i = j,
         NEW i \in DOMAIN Update(entries, pool), NEW j \in DOMAIN Update(entries, pool),
         Key(Update(entries, pool)[i]) = Key(Update(entries, pool)[j])
  PROVE  i = j
<1>1. CASE \E k \in DOMAIN entries : Key(entries[k]) = Key(pool)
  <2>1. Update(entries, pool) =
          [k \in DOMAIN entries |-> IF Key(entries[k]) = Key(pool) THEN pool ELSE entries[k]]
    BY <1>1, Zenon DEF Update
  <2>2. /\ i \in DOMAIN entries /\ Key(Update(entries, pool)[i]) = Key(entries[i])
        /\ j \in DOMAIN entries /\ Key(Update(entries, pool)[j]) = Key(entries[j])
    BY <2>1, Zenon
  <2> QED
    BY <2>2, Zenon
<1>2. CASE ~ \E k \in DOMAIN entries : Key(entries[k]) = Key(pool)
  <2>1. Update(entries, pool) = Append(entries, pool)
    BY <1>2, Zenon DEF Update
  <2>2. \A k \in DOMAIN Append(entries, pool) :
          \/ k \in DOMAIN entries /\ Append(entries, pool)[k] = entries[k]
          \/ k = Len(entries) + 1 /\ Append(entries, pool)[k] = pool
    <3>1. DOMAIN Append(entries, pool) = 1..(Len(entries) + 1)
      OBVIOUS
    <3>2. \A k \in 1..(Len(entries) + 1) : k \in 1..Len(entries) \/ k = Len(entries) + 1
      OBVIOUS
    <3>3. \A k \in 1..Len(entries) : Append(entries, pool)[k] = entries[k]
      OBVIOUS
    <3>4. DOMAIN entries = 1..Len(entries)
      OBVIOUS
    <3>5. Append(entries, pool)[Len(entries) + 1] = pool
      OBVIOUS
    <3> QED
      BY <3>1, <3>2, <3>3, <3>4, <3>5, Zenon
  <2>3. /\ i \in DOMAIN Append(entries, pool) /\ j \in DOMAIN Append(entries, pool)
        /\ Key(Append(entries, pool)[i]) = Key(Append(entries, pool)[j])
    BY <2>1, Zenon
  <2>4. CASE i \in DOMAIN entries /\ Append(entries, pool)[i] = entries[i]
    BY <1>2, <2>2, <2>3, <2>4, Zenon
  <2>5. CASE i = Len(entries) + 1 /\ Append(entries, pool)[i] = pool
    BY <1>2, <2>2, <2>3, <2>5, Zenon
  <2> QED
    BY <2>2, <2>3, <2>4, <2>5, Zenon
<1> QED
  BY <1>1, <1>2

ScannerInv == ScannerTypeOK /\ PricesAreLatest

LEMMA ScannerStep == ScannerInv /\ [ScannerNext]_scannerVars => ScannerInv'
<1> SUFFICES ASSUME ScannerTypeOK, PricesAreLatest, [ScannerNext]_scannerVars
             PROVE  ScannerTypeOK' /\ PricesAreLatest'
  BY DEF ScannerInv
<1> USE DEF ScannerTypeOK
<1>1. CASE UNCHANGED scannerVars
  BY <1>1 DEF scannerVars, PricesAreLatest
<1>2. CASE IngestPoolUpdates
  <2>1. pending' \in 0..MaxMessage
    BY <1>2, ScannerConstants DEF IngestPoolUpdates
  <2>2. pools' = pools /\ latest' = latest
    BY <1>2 DEF IngestPoolUpdates
  <2> QED
    BY <2>1, <2>2, Zenon DEF PricesAreLatest
<1>3. ASSUME UpdateBatch
      PROVE  ScannerTypeOK' /\ PricesAreLatest'
  <2>1. PICK pool \in PoolStates :
          /\ pools' = Update(pools, pool)
          /\ latest' = [known \in DOMAIN latest \cup {pool.poolAddress} |->
                         IF known = pool.poolAddress THEN pool ELSE latest[known]]
    BY <1>3, Zenon DEF UpdateBatch
  <2>2. /\ DOMAIN latest' = DOMAIN latest \cup {pool.poolAddress}
        /\ latest'[pool.poolAddress] = pool
        /\ \A known \in DOMAIN latest : known # pool.poolAddress => latest'[known] = latest[known]
    BY <2>1, Zenon
  <2>3. pending' \in 0..MaxMessage
    BY <1>3, ScannerConstants DEF UpdateBatch
  <2>4. pools' \in Seq(PoolStates)
    BY <2>1, UpdateFacts, Zenon
  <2>5. \A i, j \in DOMAIN pools' : Key(pools'[i]) = Key(pools'[j]) => i = j
    BY <2>1, KeysStayApart, Zenon
  <2>6. \A known \in DOMAIN latest' : latest'[known] \in PoolStates
    BY <2>2, Zenon
  <2>7. ASSUME NEW i \in DOMAIN pools'
        PROVE  /\ pools'[i].poolAddress \in DOMAIN latest'
               /\ latest'[pools'[i].poolAddress] = pools'[i]
    <3>1. CASE pools'[i] = pool
      BY <2>2, <3>1, Zenon
    <3>2. CASE i \in DOMAIN pools /\ pools'[i] = pools[i] /\ Key(pools[i]) # Key(pool)
      <4>1. pools[i] \in PoolStates
        BY <3>2
      <4>2. pools[i].poolAddress # pool.poolAddress
        BY <3>2, <4>1, ScannerConstants, Zenon
      <4> QED
        BY <2>2, <3>2, <4>2, Zenon DEF PricesAreLatest
    <3> QED
      BY <2>1, <3>1, <3>2, UpdateFacts, Zenon
  <2> QED
    BY <2>3, <2>4, <2>5, <2>6, <2>7, Zenon DEF PricesAreLatest
<1> QED
  BY <1>1, <1>2, <1>3 DEF ScannerNext

LEMMA ScannerSafe == ScannerSpec => []ScannerInv
<1>1. ScannerInit => ScannerInv
  BY ScannerConstants DEF ScannerInit, ScannerInv, ScannerTypeOK, PricesAreLatest
<1> QED
  BY <1>1, ScannerStep, PTL DEF ScannerSpec

(* The price map has one entry for each DEX and ordered pair, whatever     *)
(* messages arrive.                                                        *)
THEOREM OneEntryPerKey == ScannerSpec => []ScannerTypeOK
<1>1. ScannerInv => ScannerTypeOK
  BY DEF ScannerInv
<1> QED
  BY <1>1, ScannerSafe, PTL

-----------------------------------------------------------------------------
(* Fractions                                                               *)

LEMMA ProductGrows ==
  ASSUME NEW k \in Nat, NEW x \in Int, NEW y \in Int, x <= y
  PROVE  k * x <= k * y /\ x * k <= y * k
<1>1. y - x \in Nat
  OBVIOUS
<1>2. k * (y - x) \in Nat
  BY <1>1
<1>3. k * y = k * x + k * (y - x)
  OBVIOUS
<1>4. k * x \in Int /\ k * y \in Int /\ x * k = k * x /\ y * k = k * y
  OBVIOUS
<1> QED
  BY <1>2, <1>3, <1>4

(* Taking one more cost by itself leaves at least what adding it to the    *)
(* others and taking them together does.                                   *)
LEMMA OneMoreCost ==
  ASSUME NEW p \in Nat, NEW c \in Nat, NEW x \in Int, NEW f \in 0..BasisPoints,
         p * (BasisPoints - c) <= x
  PROVE  (p * BasisPoints) * (BasisPoints - (c + f)) <= x * (BasisPoints - f)
<1> DEFINE B == BasisPoints
<1>1. B \in Nat /\ f \in Nat /\ B - f \in Nat
  BY ScannerConstants
<1> HIDE DEF B
<1>2. p * (B - c) <= x
  BY DEF B
<1>3. (p * (B - c)) * (B - f) <= x * (B - f)
  <2>1. p * (B - c) \in Int
    BY <1>1
  <2> QED
    BY <1>1, <1>2, <2>1, ProductGrows
<1>4. (p * (B - c)) * (B - f) = (p * B) * (B - (c + f)) + p * (c * f)
  BY <1>1
<1>5. p * (c * f) \in Nat
  <2>1. c * f \in Nat
    BY <1>1
  <2> QED
    BY <2>1
<1>6. (p * B) * (B - (c + f)) \in Int /\ x * (B - f) \in Int
  BY <1>1
<1>7. (p * B) * (B - (c + f)) <= x * (B - f)
  BY <1>3, <1>4, <1>5, <1>6
<1> QED
  BY <1>7 DEF B

LEMMA FractionFacts ==
  /\ \A x, y : Times(x, y).num = x.num * y.num /\ Times(x, y).den = x.den * y.den
  /\ \A bps : After(bps).num = BasisPoints - bps /\ After(bps).den = BasisPoints
  /\ Amount.num = AmountIn /\ Amount.den = 1
  /\ \A x, y : /\ Minus(x, y).num = x.num * y.den - y.num * x.den
               /\ Minus(x, y).den = x.den * y.den
  BY DEF Times, After, Amount, Minus, Fraction

(* What fees and slippage leave of a triangle when they are added up, and  *)
(* when each is taken in its turn.                                         *)
LEMMA ThreeCosts ==
  ASSUME NEW f \in 0..BasisPoints, NEW g \in 0..BasisPoints, NEW h \in 0..BasisPoints
  PROVE  BasisPoints * BasisPoints * BasisPoints * (BasisPoints - (f + g + h + SlippageBps))
           <= (BasisPoints - f) * (BasisPoints - g) * (BasisPoints - h)
                * (BasisPoints - SlippageBps)
<1>1. BasisPoints \in Nat /\ f \in Nat /\ g \in Nat /\ h \in Nat /\ SlippageBps \in 0..BasisPoints
  BY ScannerConstants
<1>2. 1 * (BasisPoints - f) <= BasisPoints - f
  BY <1>1
<1>3. (1 * BasisPoints) * (BasisPoints - (f + g)) <= (BasisPoints - f) * (BasisPoints - g)
  BY <1>1, <1>2, OneMoreCost
<1>4. BasisPoints * (BasisPoints - (f + g)) <= (BasisPoints - f) * (BasisPoints - g)
  BY <1>1, <1>3
<1>5. (BasisPoints - f) * (BasisPoints - g) \in Int /\ f + g \in Nat /\ f + g + h \in Nat
  BY <1>1
<1>6. (BasisPoints * BasisPoints) * (BasisPoints - (f + g + h))
        <= ((BasisPoints - f) * (BasisPoints - g)) * (BasisPoints - h)
  BY <1>1, <1>4, <1>5, OneMoreCost
<1>7. /\ BasisPoints * BasisPoints \in Nat
      /\ ((BasisPoints - f) * (BasisPoints - g)) * (BasisPoints - h) \in Int
  BY <1>1
<1> QED
  BY <1>1, <1>5, <1>6, <1>7, OneMoreCost

(* The same of a detour.                                                   *)
LEMMA TwoCosts ==
  ASSUME NEW f \in 0..BasisPoints, NEW g \in 0..BasisPoints
  PROVE  BasisPoints * BasisPoints * (BasisPoints - (f + g + SlippageBps))
           <= (BasisPoints - f) * (BasisPoints - g) * (BasisPoints - SlippageBps)
<1>1. BasisPoints \in Nat /\ f \in Nat /\ g \in Nat /\ SlippageBps \in 0..BasisPoints
  BY ScannerConstants
<1>2. 1 * (BasisPoints - f) <= BasisPoints - f
  BY <1>1
<1>3. (1 * BasisPoints) * (BasisPoints - (f + g)) <= (BasisPoints - f) * (BasisPoints - g)
  BY <1>1, <1>2, OneMoreCost
<1>4. BasisPoints * (BasisPoints - (f + g)) <= (BasisPoints - f) * (BasisPoints - g)
  BY <1>1, <1>3
<1>5. (BasisPoints - f) * (BasisPoints - g) \in Int /\ f + g \in Nat
  BY <1>1
<1> QED
  BY <1>1, <1>4, <1>5, OneMoreCost

(* What is left of an amount after one hop.                                *)
Left(amount, rate, bps) == Times(Times(amount, rate), After(bps))

LEMMA TriangleIsSafe ==
  ASSUME NEW x, NEW y, NEW z, IsPrice(x), IsPrice(y), IsPrice(z),
         NEW f \in 0..BasisPoints, NEW g \in 0..BasisPoints, NEW h \in 0..BasisPoints
  PROVE  AtMost(Times(Times(Times(Times(Amount, x), y), z), After(f + g + h + SlippageBps)),
                Times(Left(Left(Left(Amount, x, f), y, g), z, h), After(SlippageBps)))
<1> DEFINE B == BasisPoints
           F == B - f
           G == B - g
           H == B - h
           S == B - SlippageBps
           C == B - (f + g + h + SlippageBps)
           xn == x.num
           yn == y.num
           zn == z.num
           xd == x.den
           yd == y.den
           zd == z.den
           n == AmountIn * xn * yn * zn
           d == xd * yd * zd
<1>1. /\ B \in Nat /\ F \in Nat /\ G \in Nat /\ H \in Nat /\ S \in Nat /\ C \in Int
      /\ AmountIn \in Nat
  BY ScannerConstants
<1>2. xn \in Nat /\ yn \in Nat /\ zn \in Nat /\ xd \in Nat /\ yd \in Nat /\ zd \in Nat
  BY DEF IsPrice
<1>3. B * B * B * C <= F * G * H * S
  BY ThreeCosts
<1>4. /\ Times(Times(Times(Times(Amount, x), y), z), After(f + g + h + SlippageBps)).num
           = AmountIn * xn * yn * zn * C
      /\ Times(Times(Times(Times(Amount, x), y), z), After(f + g + h + SlippageBps)).den
           = 1 * xd * yd * zd * B
  BY FractionFacts
<1>5. /\ Times(Left(Left(Left(Amount, x, f), y, g), z, h), After(SlippageBps)).num
           = AmountIn * xn * F * yn * G * zn * H * S
      /\ Times(Left(Left(Left(Amount, x, f), y, g), z, h), After(SlippageBps)).den
           = 1 * xd * B * yd * B * zd * B * B
  BY FractionFacts DEF Left
<1> SUFFICES (AmountIn * xn * yn * zn * C) * (1 * xd * B * yd * B * zd * B * B)
               <= (AmountIn * xn * F * yn * G * zn * H * S) * (1 * xd * yd * zd * B)
  BY <1>4, <1>5, Zenon DEF AtMost
<1> HIDE DEF B, F, G, H, S, C, xn, yn, zn, xd, yd, zd
<1>6. n \in Nat /\ d \in Nat
  <2>1. AmountIn * xn \in Nat /\ xd * yd \in Nat
    BY <1>1, <1>2
  <2>2. AmountIn * xn * yn \in Nat
    BY <1>2, <2>1
  <2> QED
    BY <1>2, <2>1, <2>2
<1>7. n * d * B \in Nat
  <2>1. n * d \in Nat
    BY <1>6
  <2> QED
    BY <1>1, <2>1
<1>8. B * B * B * C \in Int /\ F * G * H * S \in Int
  BY <1>1
<1>9. (n * d * B) * (B * B * B * C) <= (n * d * B) * (F * G * H * S)
  BY <1>3, <1>7, <1>8, ProductGrows
<1>10. (n * d * B) * (B * B * B * C)
         = (AmountIn * xn * yn * zn * C) * (1 * xd * B * yd * B * zd * B * B)
  BY <1>1, <1>2
<1>11. (n * d * B) * (F * G * H * S)
         = (AmountIn * xn * F * yn * G * zn * H * S) * (1 * xd * yd * zd * B)
  BY <1>1, <1>2
<1> QED
  BY <1>9, <1>10, <1>11, Zenon

LEMMA DetourIsSafe ==
  ASSUME NEW x, NEW y, IsPrice(x), IsPrice(y),
         NEW f \in 0..BasisPoints, NEW g \in 0..BasisPoints
  PROVE  AtMost(Times(Times(Times(Amount, x), y), After(f + g + SlippageBps)),
                Times(Left(Left(Amount, x, f), y, g), After(SlippageBps)))
<1> DEFINE B == BasisPoints
           F == B - f
           G == B - g
           S == B - SlippageBps
           C == B - (f + g + SlippageBps)
           xn == x.num
           yn == y.num
           xd == x.den
           yd == y.den
           n == AmountIn * xn * yn
           d == xd * yd
<1>1. /\ B \in Nat /\ F \in Nat /\ G \in Nat /\ S \in Nat /\ C \in Int
      /\ AmountIn \in Nat
  BY ScannerConstants
<1>2. xn \in Nat /\ yn \in Nat /\ xd \in Nat /\ yd \in Nat
  BY DEF IsPrice
<1>3. B * B * C <= F * G * S
  BY TwoCosts
<1>4. /\ Times(Times(Times(Amount, x), y), After(f + g + SlippageBps)).num
           = AmountIn * xn * yn * C
      /\ Times(Times(Times(Amount, x), y), After(f + g + SlippageBps)).den
           = 1 * xd * yd * B
  BY FractionFacts
<1>5. /\ Times(Left(Left(Amount, x, f), y, g), After(SlippageBps)).num
           = AmountIn * xn * F * yn * G * S
      /\ Times(Left(Left(Amount, x, f), y, g), After(SlippageBps)).den
           = 1 * xd * B * yd * B * B
  BY FractionFacts DEF Left
<1> SUFFICES (AmountIn * xn * yn * C) * (1 * xd * B * yd * B * B)
               <= (AmountIn * xn * F * yn * G * S) * (1 * xd * yd * B)
  BY <1>4, <1>5, Zenon DEF AtMost
<1> HIDE DEF B, F, G, S, C, xn, yn, xd, yd
<1>6. n \in Nat /\ d \in Nat
  <2>1. AmountIn * xn \in Nat
    BY <1>1, <1>2
  <2> QED
    BY <1>2, <2>1
<1>7. n * d * B \in Nat
  <2>1. n * d \in Nat
    BY <1>6
  <2> QED
    BY <1>1, <2>1
<1>8. B * B * C \in Int /\ F * G * S \in Int
  BY <1>1
<1>9. (n * d * B) * (B * B * C) <= (n * d * B) * (F * G * S)
  BY <1>3, <1>7, <1>8, ProductGrows
<1>10. (n * d * B) * (B * B * C)
         = (AmountIn * xn * yn * C) * (1 * xd * B * yd * B * B)
  BY <1>1, <1>2
<1>11. (n * d * B) * (F * G * S)
         = (AmountIn * xn * F * yn * G * S) * (1 * xd * yd * B)
  BY <1>1, <1>2
<1> QED
  BY <1>9, <1>10, <1>11, Zenon

-----------------------------------------------------------------------------
(* Routes                                                                  *)

(* What the routes need of a pool state: a price in each direction.        *)
LEMMA PoolFacts ==
  ASSUME NEW pool \in PoolStates
  PROVE  /\ DexFee[pool.dex] \in 0..BasisPoints
         /\ pool.tokenA # pool.tokenB
         /\ \A in : IsPrice(Rate(pool, in))
<1>1. /\ DexFee[pool.dex] \in 0..BasisPoints
      /\ pool.tokenA # pool.tokenB
      /\ IsPrice(pool.priceA)
      /\ pool.priceB = Reciprocal(pool.priceA)
  BY ScannerConstants
<1>2. IsPrice(pool.priceB)
  BY <1>1 DEF IsPrice, Reciprocal, Fraction
<1> QED
  BY <1>1, <1>2, Zenon DEF Rate

(* A hop through the best pool of a pair is sold to the market at the      *)
(* price it was found with.                                                *)
LEMMA BestPoolIsKnown ==
  ASSUME ScannerInv, NEW a, NEW b, NEW pool \in BestPool(pools, a, b)
  PROVE  /\ pool \in PoolStates
         /\ latest[pool.poolAddress] = pool
         /\ \A j \in PoolsOf(pools, a, b) : AtMost(Rate(pools[j], a), Rate(pool, a))
<1>1. PICK i \in PoolsOf(pools, a, b) : pool = pools[i] /\ IsFirstBest(pools, i, a, b)
  BY Zenon DEF BestPool
<1>2. i \in DOMAIN pools
  BY DEF PoolsOf
<1>3. pool \in PoolStates
  BY <1>1, <1>2 DEF ScannerInv, ScannerTypeOK
<1> QED
  BY <1>1, <1>2, <1>3, Zenon DEF ScannerInv, PricesAreLatest, IsFirstBest

LEMMA SellFacts ==
  ASSUME NEW pool, latest[pool.poolAddress] = pool, NEW amount, NEW in, NEW out, NEW price
  PROVE  Sell(amount, Hop(pool, in, out, price)) = Left(amount, Rate(pool, in), DexFee[pool.dex])
<1>1. Hop(pool, in, out, price).poolAddress = pool.poolAddress
      /\ Hop(pool, in, out, price).tokenIn = in
  BY DEF Hop
<1>2. Market(Hop(pool, in, out, price)) = pool
  BY <1>1, Zenon DEF Market
<1> QED
  BY <1>1, <1>2, Zenon DEF Sell, Left

LEMMA TriangleFacts ==
  ASSUME ScannerInv, NEW a, NEW b, NEW c, NEW route \in Triangular(pools, a, b, c)
  PROVE  route.tokenIn = a /\ route.tokenOut = a /\ Honoured(route)
<1>1. PICK hop1 \in BestPool(pools, a, b), hop2 \in BestPool(pools, b, c),
           hop3 \in BestPool(pools, c, a) :
        route = TriangularRoute(hop1, hop2, hop3, a, b, c)
  BY DEF Triangular
<1> DEFINE hops == <<Hop(hop1, a, b, Rate(hop1, a)), Hop(hop2, b, c, Rate(hop2, b)),
                     Hop(hop3, c, a, Rate(hop3, c))>>
           net == TriangleNet(Through(hop3, c, Through(hop2, b, Through(hop1, a, Amount))),
                              hop1, hop2, hop3)
<1>2. route = Route("triangular", hops, net, Minus(net, Amount))
  BY <1>1, Zenon DEF TriangularRoute
<1>3. /\ Len(hops) = 3
      /\ hops[1] = Hop(hop1, a, b, Rate(hop1, a))
      /\ hops[2] = Hop(hop2, b, c, Rate(hop2, b))
      /\ hops[3] = Hop(hop3, c, a, Rate(hop3, c))
  OBVIOUS
<1> HIDE DEF hops, net
<1>4. /\ route.hops = hops /\ route.expectedAmountOut = net
      /\ route.tokenIn = hops[1].tokenIn /\ route.tokenOut = hops[3].tokenOut
  BY <1>2, <1>3 DEF Route
<1>5. hops[1].tokenIn = a /\ hops[3].tokenOut = a
  BY <1>3 DEF Hop
<1>6. /\ hop1 \in PoolStates /\ latest[hop1.poolAddress] = hop1
      /\ hop2 \in PoolStates /\ latest[hop2.poolAddress] = hop2
      /\ hop3 \in PoolStates /\ latest[hop3.poolAddress] = hop3
  BY BestPoolIsKnown, Zenon
<1> DEFINE x == Rate(hop1, a)
           y == Rate(hop2, b)
           z == Rate(hop3, c)
           f == DexFee[hop1.dex]
           g == DexFee[hop2.dex]
           h == DexFee[hop3.dex]
<1>7. Execute(route) = Times(Left(Left(Left(Amount, x, f), y, g), z, h), After(SlippageBps))
  <2>1. Execute(route) = Times(Sell(SellTwo(hops), hops[3]), After(SlippageBps))
    BY <1>3, <1>4 DEF Execute
  <2>2. SellTwo(hops) = Left(Left(Amount, x, f), y, g)
    BY <1>3, <1>6, SellFacts DEF SellTwo
  <2>3. Sell(SellTwo(hops), hops[3]) = Left(SellTwo(hops), z, h)
    BY <1>3, <1>6, SellFacts
  <2> QED
    BY <2>1, <2>2, <2>3, Zenon
<1>8. net = Times(Times(Times(Times(Amount, x), y), z), After(f + g + h + SlippageBps))
  BY Zenon DEF net, TriangleNet, Through
<1>9. /\ f \in 0..BasisPoints /\ g \in 0..BasisPoints /\ h \in 0..BasisPoints
      /\ IsPrice(x) /\ IsPrice(y) /\ IsPrice(z)
  BY <1>6, PoolFacts, Zenon
<1>10. Honoured(route)
  <2> HIDE DEF x, y, z, f, g, h
  <2> QED
    BY <1>4, <1>7, <1>8, <1>9, TriangleIsSafe, Zenon DEF Honoured
<1> QED
  BY <1>4, <1>5, <1>10, Zenon

LEMMA DetourFacts ==
  ASSUME ScannerInv, NEW a, NEW b, NEW c, NEW route \in MultiHop(pools, a, b, c)
  PROVE  /\ route.tokenIn = a /\ route.tokenOut = c /\ Honoured(route)
         /\ \E direct \in Direct(pools, a, c) :
              Minus(route.expectedAmountOut, direct).num > 0
         /\ \E x, y : \E f, g \in 0..BasisPoints :
              /\ IsPrice(x) /\ IsPrice(y)
              /\ route.expectedAmountOut = Times(Times(Times(Amount, x), y), After(f + g + SlippageBps))
              /\ Execute(route) = Times(Left(Left(Amount, x, f), y, g), After(SlippageBps))
<1>1. PICK hop1 \in BestPool(pools, a, b), hop2 \in BestPool(pools, b, c),
           direct \in Direct(pools, a, c) :
        route = DetourRoute(hop1, hop2, direct, a, b, c)
  BY DEF MultiHop
<1> DEFINE hops == <<Hop(hop1, a, b, Rate(hop1, a)), Hop(hop2, b, c, Rate(hop2, b))>>
           net == Times(Through(hop2, b, Through(hop1, a, Amount)),
                        After(DexFee[hop1.dex] + DexFee[hop2.dex] + SlippageBps))
<1>2. route = Route("multi-hop", hops, net, Minus(net, direct)) /\ route.netProfit.num > 0
  <2>1. route.netProfit.num > 0
    BY DEF MultiHop
  <2> QED
    BY <1>1, <2>1, Zenon DEF DetourRoute
<1>3. /\ Len(hops) = 2
      /\ hops[1] = Hop(hop1, a, b, Rate(hop1, a))
      /\ hops[2] = Hop(hop2, b, c, Rate(hop2, b))
  OBVIOUS
<1> HIDE DEF hops, net
<1>4. /\ route.hops = hops /\ route.expectedAmountOut = net /\ route.netProfit = Minus(net, direct)
      /\ route.tokenIn = hops[1].tokenIn /\ route.tokenOut = hops[2].tokenOut
  BY <1>2, <1>3 DEF Route
<1>5. hops[1].tokenIn = a /\ hops[2].tokenOut = c
  BY <1>3 DEF Hop
<1>6. /\ hop1 \in PoolStates /\ latest[hop1.poolAddress] = hop1
      /\ hop2 \in PoolStates /\ latest[hop2.poolAddress] = hop2
  BY BestPoolIsKnown, Zenon
<1> DEFINE x == Rate(hop1, a)
           y == Rate(hop2, b)
           f == DexFee[hop1.dex]
           g == DexFee[hop2.dex]
<1>7. Execute(route) = Times(Left(Left(Amount, x, f), y, g), After(SlippageBps))
  <2>1. Execute(route) = Times(SellTwo(hops), After(SlippageBps))
    BY <1>3, <1>4 DEF Execute
  <2>2. SellTwo(hops) = Left(Left(Amount, x, f), y, g)
    BY <1>3, <1>6, SellFacts DEF SellTwo
  <2> QED
    BY <2>1, <2>2, Zenon
<1>8. net = Times(Times(Times(Amount, x), y), After(f + g + SlippageBps))
  BY Zenon DEF net, Through
<1>9. /\ f \in 0..BasisPoints /\ g \in 0..BasisPoints
      /\ IsPrice(x) /\ IsPrice(y)
  BY <1>6, PoolFacts, Zenon
<1>10. Honoured(route)
  <2> HIDE DEF x, y, f, g
  <2> QED
    BY <1>4, <1>7, <1>8, <1>9, DetourIsSafe, Zenon DEF Honoured
<1> HIDE DEF x, y, f, g
<1> QED
  BY <1>2, <1>4, <1>5, <1>7, <1>8, <1>9, <1>10, Zenon

LEMMA TwoPoolFacts ==
  ASSUME NEW a, NEW b, NEW route \in TwoPool(pools, a, b)
  PROVE  route.tokenIn = a /\ route.tokenOut = a /\ Len(route.hops) = 2
<1>1. PICK buy, sell, gross : route = TwoPoolRoute(buy, sell, a, b, gross)
  BY Zenon DEF TwoPool
<1> DEFINE hops == <<Hop(buy, a, b, PriceInB(buy, a)), Hop(sell, b, a, PriceInB(sell, a))>>
<1>2. PICK net, profit : route = Route("multi-hop", hops, net, profit)
  BY <1>1, Zenon DEF TwoPoolRoute
<1>3. /\ Len(hops) = 2
      /\ hops[1] = Hop(buy, a, b, PriceInB(buy, a))
      /\ hops[2] = Hop(sell, b, a, PriceInB(sell, a))
  OBVIOUS
<1> HIDE DEF hops
<1>4. /\ route.hops = hops
      /\ route.tokenIn = hops[1].tokenIn /\ route.tokenOut = hops[2].tokenOut
  BY <1>2, <1>3 DEF Route
<1> QED
  BY <1>3, <1>4 DEF Hop

(* The three kinds of routes.                                              *)
LEMMA Kinds ==
  ASSUME NEW entries, NEW route \in DetectAll(entries)
  PROVE  \/ \E a, b : route \in TwoPool(entries, a, b)
         \/ \E a, b, c : route \in Triangular(entries, a, b, c)
         \/ \E a, b, c : route \in MultiHop(entries, a, b, c)
<1>1. \/ \E p \in Pairs(KnownTokens(entries)) : route \in TwoPool(entries, p[1], p[2])
      \/ \E t \in Triples(KnownTokens(entries)) :
           \/ route \in Triangular(entries, t[1], t[2], t[3])
           \/ route \in MultiHop(entries, t[1], t[2], t[3])
  <2>1. route \in Found(entries)
    BY DEF DetectAll
  <2> QED
    <3> DEFINE TwoPools == {TwoPool(entries, p[1], p[2]) : p \in Pairs(KnownTokens(entries))}
               Others == {Triangular(entries, t[1], t[2], t[3]) \cup MultiHop(entries, t[1], t[2], t[3]) :
                            t \in Triples(KnownTokens(entries))}
    <3>1. route \in (UNION TwoPools) \/ route \in (UNION Others)
      <4>1. Found(entries) = (UNION TwoPools) \cup (UNION Others)
        BY DEF Found
      <4> HIDE DEF TwoPools, Others
      <4> QED
        BY <2>1, <4>1
    <3>2. CASE route \in UNION TwoPools
      <4>1. PICK routes \in TwoPools : route \in routes
        BY <3>2, Zenon
      <4> QED
        BY <4>1, Zenon
    <3>3. CASE route \in UNION Others
      <4>1. PICK routes \in Others : route \in routes
        BY <3>3, Zenon
      <4> QED
        BY <4>1, Zenon
    <3> QED
      BY <3>1, <3>2, <3>3
<1> QED
  BY <1>1, Zenon

(* A route returns at least what it was reported with at the last prices   *)
(* received, for every set of pools, every fees and every slippage.        *)
THEOREM QuotesCanBeHad == ScannerSpec => []QuotesAreHonoured
<1>1. ScannerInv => QuotesAreHonoured
  <2> SUFFICES ASSUME ScannerInv, NEW route \in DetectAll(pools)
               PROVE  IsTwoPool(route) \/ Honoured(route)
    BY Zenon DEF QuotesAreHonoured
  <2>1. CASE \E a, b : route \in TwoPool(pools, a, b)
    <3>1. PICK a, b : route \in TwoPool(pools, a, b)
      BY <2>1
    <3>2. route.tokenIn = a /\ route.tokenOut = a /\ Len(route.hops) = 2
      BY <3>1, TwoPoolFacts
    <3> QED
      BY <3>2 DEF IsTwoPool, IsRoundTrip
  <2>2. CASE \E a, b, c : route \in Triangular(pools, a, b, c)
    BY <2>2, TriangleFacts, Zenon
  <2>3. CASE \E a, b, c : route \in MultiHop(pools, a, b, c)
    BY <2>3, DetourFacts, Zenon
  <2> QED
    BY <2>1, <2>2, <2>3, Kinds, Zenon
<1> QED
  BY <1>1, ScannerSafe, PTL

LEMMA OrderChains ==
  ASSUME NEW pn \in Int, NEW qn \in Int, NEW sn \in Int, NEW tn \in Int,
         NEW pd \in Nat \ {0}, NEW qd \in Nat \ {0}, NEW sd \in Nat \ {0}, NEW td \in Nat \ {0},
         pn * qd <= qn * pd, qn * sd < sn * qd, sn * td <= tn * sd
  PROVE  pn * td < tn * pd
<1>1. /\ pn * qd \in Int /\ qn * pd \in Int /\ qn * sd \in Int /\ sn * qd \in Int
      /\ sn * td \in Int /\ tn * sd \in Int /\ pn * td \in Int /\ tn * pd \in Int
  OBVIOUS
<1>2. sd * td \in Nat /\ pd * td \in Nat \ {0} /\ qd * pd \in Nat /\ qd * sd \in Nat
  <2>1. pd * td >= 1
    BY ProductGrows
  <2> QED
    BY <2>1
<1>3. (sd * td) * (pn * qd) <= (sd * td) * (qn * pd)
  BY <1>1, <1>2, ProductGrows
<1>4. (pd * td) * (qn * sd) < (pd * td) * (sn * qd)
  <2>1. qn * sd + 1 <= sn * qd
    BY <1>1
  <2>2. (pd * td) * (qn * sd + 1) <= (pd * td) * (sn * qd)
    BY <1>1, <1>2, <2>1, ProductGrows
  <2>3. (pd * td) * (qn * sd + 1) = (pd * td) * (qn * sd) + pd * td
    BY <1>1, <1>2
  <2> QED
    BY <1>1, <1>2, <2>2, <2>3
<1>5. (qd * pd) * (sn * td) <= (qd * pd) * (tn * sd)
  BY <1>1, <1>2, ProductGrows
<1>6. /\ (sd * td) * (pn * qd) = (qd * sd) * (pn * td)
      /\ (sd * td) * (qn * pd) = (pd * td) * (qn * sd)
      /\ (pd * td) * (sn * qd) = (qd * pd) * (sn * td)
      /\ (qd * pd) * (tn * sd) = (qd * sd) * (tn * pd)
  OBVIOUS
<1>7. /\ (qd * sd) * (pn * td) \in Int /\ (qd * sd) * (tn * pd) \in Int
      /\ (pd * td) * (qn * sd) \in Int /\ (qd * pd) * (sn * td) \in Int
  BY <1>1, <1>2
<1>8. (qd * sd) * (pn * td) < (qd * sd) * (tn * pd)
  BY <1>3, <1>4, <1>5, <1>6, <1>7
<1>9. CASE tn * pd <= pn * td
  <2>1. (qd * sd) * (tn * pd) <= (qd * sd) * (pn * td)
    BY <1>1, <1>2, <1>9, ProductGrows
  <2> QED
    BY <1>7, <1>8, <2>1
<1> QED
  BY <1>1, <1>9

LEMMA Denominators ==
  ASSUME NEW x, NEW y, IsPrice(x), IsPrice(y), NEW f \in 0..BasisPoints, NEW g \in 0..BasisPoints
  PROVE  /\ Times(Times(Times(Amount, x), y), After(f + g + SlippageBps)).num \in Int
         /\ Times(Times(Times(Amount, x), y), After(f + g + SlippageBps)).den \in Nat \ {0}
         /\ Times(Left(Left(Amount, x, f), y, g), After(SlippageBps)).num \in Int
         /\ Times(Left(Left(Amount, x, f), y, g), After(SlippageBps)).den \in Nat \ {0}
<1> DEFINE B == BasisPoints
<1>1. /\ B \in Nat \ {0} /\ AmountIn \in Int /\ SlippageBps \in Int /\ f \in Int /\ g \in Int
      /\ x.num \in Int /\ y.num \in Int /\ x.den \in Nat \ {0} /\ y.den \in Nat \ {0}
  BY ScannerConstants DEF IsPrice
<1>2. \A m, n \in Nat \ {0} : m * n \in Nat \ {0}
  <2> SUFFICES ASSUME NEW m \in Nat \ {0}, NEW n \in Nat \ {0} PROVE m * n \in Nat \ {0}
    OBVIOUS
  <2>1. m * 1 <= m * n
    BY ProductGrows
  <2> QED
    BY <2>1
<1> HIDE DEF B
<1>3. 1 * x.den * y.den * B \in Nat \ {0} /\ 1 * x.den * B * y.den * B * B \in Nat \ {0}
  <2>1. /\ 1 * x.den \in Nat \ {0} /\ 1 * x.den * y.den \in Nat \ {0}
        /\ 1 * x.den * B \in Nat \ {0}
    BY <1>1, <1>2
  <2>2. 1 * x.den * B * y.den \in Nat \ {0} /\ 1 * x.den * y.den * B \in Nat \ {0}
    BY <1>1, <1>2, <2>1
  <2>3. 1 * x.den * B * y.den * B \in Nat \ {0}
    BY <1>1, <1>2, <2>2
  <2> QED
    BY <1>1, <1>2, <2>2, <2>3
<1>4. /\ AmountIn * x.num * y.num * (B - (f + g + SlippageBps)) \in Int
      /\ AmountIn * x.num * (B - f) * y.num * (B - g) * (B - SlippageBps) \in Int
  BY <1>1
<1>5. /\ Times(Times(Times(Amount, x), y), After(f + g + SlippageBps)).num
           = AmountIn * x.num * y.num * (B - (f + g + SlippageBps))
      /\ Times(Times(Times(Amount, x), y), After(f + g + SlippageBps)).den
           = 1 * x.den * y.den * B
  BY FractionFacts DEF B
<1>6. /\ Times(Left(Left(Amount, x, f), y, g), After(SlippageBps)).num
           = AmountIn * x.num * (B - f) * y.num * (B - g) * (B - SlippageBps)
      /\ Times(Left(Left(Amount, x, f), y, g), After(SlippageBps)).den
           = 1 * x.den * B * y.den * B * B
  BY FractionFacts DEF Left, B
<1> QED
  BY <1>3, <1>4, <1>5, <1>6, Zenon

(* A route that ends in another token returns more of it than any single   *)
(* pool of the map would, for every set of pools and every fees.           *)
THEOREM DetoursPay == ScannerSpec => []DetoursBeatEveryPool
<1>1. ASSUME ScannerInv, NEW a, NEW b, NEW c, NEW route \in MultiHop(pools, a, b, c),
             NEW i \in PoolsOf(pools, a, c)
      PROVE  Below(Times(Amount, Rate(pools[i], a)), Execute(route))
  <2> DEFINE net == route.expectedAmountOut
             out == Execute(route)
             r == Rate(pools[i], a)
  <2>1. PICK direct \in Direct(pools, a, c) : Minus(net, direct).num > 0
    BY <1>1, DetourFacts, Zenon
  <2>2. PICK best \in BestPool(pools, a, c) : direct = Times(Amount, Rate(best, a))
    BY Zenon DEF Direct, Through
  <2> DEFINE d == Rate(best, a)
  <2>3. AtMost(r, d) /\ IsPrice(r) /\ IsPrice(d)
    <3>1. pools[i] \in PoolStates
      BY <1>1 DEF ScannerInv, ScannerTypeOK, PoolsOf
    <3>2. best \in PoolStates /\ AtMost(r, d)
      BY <1>1, BestPoolIsKnown, Zenon
    <3> QED
      BY <3>1, <3>2, PoolFacts, Zenon
  <2>4. /\ AtMost(net, out)
        /\ net.num \in Int /\ net.den \in Nat \ {0} /\ out.num \in Int /\ out.den \in Nat \ {0}
    <3>1. AtMost(net, out)
      BY <1>1, DetourFacts DEF Honoured
    <3>2. PICK x, y : \E f, g \in 0..BasisPoints :
            /\ IsPrice(x) /\ IsPrice(y)
            /\ net = Times(Times(Times(Amount, x), y), After(f + g + SlippageBps))
            /\ out = Times(Left(Left(Amount, x, f), y, g), After(SlippageBps))
      BY <1>1, DetourFacts
    <3> QED
      BY <3>1, <3>2, Denominators, Zenon
  <2> HIDE DEF net, out, r, d
  <2>5. /\ AmountIn \in Nat \ {0}
        /\ r.num \in Nat /\ r.den \in Nat \ {0} /\ d.num \in Nat /\ d.den \in Nat \ {0}
    BY <2>3, ScannerConstants DEF IsPrice
  <2>6. (AmountIn * r.num) * d.den <= (AmountIn * d.num) * r.den
    <3>1. r.num * d.den <= d.num * r.den
      BY <2>3 DEF AtMost
    <3>2. AmountIn * (r.num * d.den) <= AmountIn * (d.num * r.den)
      BY <2>5, <3>1, ProductGrows
    <3> QED
      BY <2>5, <3>2
  <2>7. (AmountIn * d.num) * net.den < net.num * d.den
    <3>1. /\ direct.num = AmountIn * d.num /\ direct.den = 1 * d.den
          /\ Minus(net, direct).num = net.num * direct.den - direct.num * net.den
      BY <2>2, FractionFacts DEF d
    <3>2. direct.den = d.den
      BY <2>5, <3>1
    <3>3. net.num * d.den - (AmountIn * d.num) * net.den > 0
      BY <2>1, <3>1, <3>2
    <3>4. net.num * d.den \in Int /\ (AmountIn * d.num) * net.den \in Int
      BY <2>4, <2>5
    <3> QED
      BY <3>3, <3>4
  <2>8. net.num * out.den <= out.num * net.den
    BY <2>4 DEF AtMost
  <2>9. AmountIn * r.num \in Int /\ AmountIn * d.num \in Int
    BY <2>5
  <2>10. (AmountIn * r.num) * out.den < out.num * r.den
    <3> DEFINE pn == AmountIn * r.num
               qn == AmountIn * d.num
    <3>1. pn \in Int /\ qn \in Int /\ pn * d.den <= qn * r.den /\ qn * net.den < net.num * d.den
      BY <2>6, <2>7, <2>9
    <3> HIDE DEF pn, qn
    <3>2. pn * out.den < out.num * r.den
      BY <2>4, <2>5, <2>8, <3>1, OrderChains, Zenon
    <3> QED
      BY <3>2 DEF pn
  <2>11. Times(Amount, r).num = AmountIn * r.num /\ Times(Amount, r).den = 1 * r.den
    BY FractionFacts
  <2>12. 1 * r.den = r.den
    BY <2>5
  <2> QED
    BY <2>10, <2>11, <2>12, Zenon DEF Below, r, out
<1>2. ScannerInv => DetoursBeatEveryPool
  <2> SUFFICES ASSUME ScannerInv, NEW route \in DetectAll(pools), ~IsRoundTrip(route),
                      NEW i \in PoolsOf(pools, route.tokenIn, route.tokenOut)
               PROVE  Below(Times(Amount, Rate(pools[i], route.tokenIn)), Execute(route))
    BY Zenon DEF DetoursBeatEveryPool
  <2>1. PICK a, b, c : route \in MultiHop(pools, a, b, c)
    <3>1. ASSUME NEW a, NEW b, route \in TwoPool(pools, a, b) PROVE FALSE
      BY <3>1, TwoPoolFacts DEF IsRoundTrip
    <3>2. ASSUME NEW a, NEW b, NEW c, route \in Triangular(pools, a, b, c) PROVE FALSE
      BY <3>2, TriangleFacts DEF IsRoundTrip
    <3> QED
      BY <3>1, <3>2, Kinds, Zenon
  <2>2. route.tokenIn = a /\ route.tokenOut = c
    BY <2>1, DetourFacts
  <2> QED
    BY <1>1, <2>1, <2>2, Zenon
<1> QED
  BY <1>2, ScannerSafe, PTL

-----------------------------------------------------------------------------
(* Two-pool routes                                                         *)

(* The price detectTwoPoolArbitrage compares is what the pool pays for a,  *)
(* and its reciprocal what it pays for b.                                  *)
LEMMA PriceOfPair ==
  ASSUME NEW pool \in PoolStates, NEW a, NEW b, {pool.tokenA, pool.tokenB} = {a, b}, a # b
  PROVE  /\ PriceInB(pool, a) = Rate(pool, a)
         /\ Rate(pool, b).num = Rate(pool, a).den
         /\ Rate(pool, b).den = Rate(pool, a).num
<1>1. pool.tokenA # pool.tokenB /\ pool.priceB = Reciprocal(pool.priceA)
  BY ScannerConstants
<1>2. Reciprocal(pool.priceA).num = pool.priceA.den /\ Reciprocal(pool.priceA).den = pool.priceA.num
  BY DEF Reciprocal, Fraction
<1>3. CASE pool.tokenA = a /\ pool.tokenB = b
  BY <1>1, <1>2, <1>3, Zenon DEF PriceInB, Rate
<1>4. CASE pool.tokenA = b /\ pool.tokenB = a
  BY <1>1, <1>2, <1>4, Zenon DEF PriceInB, Rate
<1> QED
  BY <1>1, <1>3, <1>4

(* Selling at the lower price and buying back at the higher one loses,     *)
(* with or without costs.                                                  *)
LEMMA BackwardsLoses ==
  ASSUME NEW n \in Nat \ {0}, NEW d \in Nat \ {0}, NEW s \in Nat \ {0}, NEW t \in Nat \ {0},
         NEW f \in 0..BasisPoints, NEW g \in 0..BasisPoints, n * t < s * d
  PROVE  AmountIn * n * (BasisPoints - f) * t * (BasisPoints - g) * (BasisPoints - SlippageBps)
           < AmountIn * (d * BasisPoints * s * BasisPoints * BasisPoints)
<1> DEFINE B == BasisPoints
           F == B - f
           G == B - g
           S == B - SlippageBps
           X == n * t
           Y == s * d
           K == AmountIn * (B * B * B)
           L == F * G * S
<1>1. /\ B \in Nat \ {0} /\ F \in Nat /\ G \in Nat /\ S \in Nat /\ AmountIn \in Nat \ {0}
      /\ F <= B /\ G <= B /\ S <= B
  BY ScannerConstants
<1> HIDE DEF B, F, G, S
<1>2. L \in Nat /\ L <= B * B * B
  <2>1. F * G \in Nat /\ B * G \in Nat /\ B * B \in Nat
    BY <1>1
  <2>2. F * G <= B * B
    <3>1. F * G <= B * G /\ B * G <= B * B
      BY <1>1, ProductGrows
    <3> QED
      BY <2>1, <3>1
  <2>3. (F * G) * S <= (B * B) * S /\ (B * B) * S <= (B * B) * B
    BY <1>1, <2>1, <2>2, ProductGrows
  <2>4. (F * G) * S \in Nat /\ (B * B) * S \in Int /\ (B * B) * B \in Int
    BY <1>1, <2>1
  <2> QED
    BY <2>3, <2>4
<1>3. K \in Nat /\ K >= 1
  <2>1. B * B \in Nat /\ 1 * 1 <= 1 * B /\ 1 * B <= B * B
    BY <1>1, ProductGrows
  <2>2. B * B * B \in Nat /\ 1 * B <= (B * B) * B
    BY <1>1, <2>1, ProductGrows
  <2>3. AmountIn * 1 <= AmountIn * (B * B * B)
    BY <1>1, <2>2, ProductGrows
  <2> QED
    BY <1>1, <2>2, <2>3
<1>4. X \in Nat /\ Y \in Nat /\ X + 1 <= Y
  OBVIOUS
<1>5. AmountIn * X \in Nat
  BY <1>1, <1>4
<1>6. (AmountIn * X) * L <= (AmountIn * X) * (B * B * B)
  <2>1. B * B * B \in Int
    BY <1>1
  <2> QED
    BY <1>2, <1>5, <2>1, ProductGrows
<1>7. (AmountIn * X) * (B * B * B) = K * X
  <2> HIDE DEF X
  <2> QED
    BY <1>1, <1>4
<1>8. K * X < K * Y
  <2> HIDE DEF K, X, Y
  <2>1. K * (X + 1) <= K * Y
    BY <1>3, <1>4, ProductGrows
  <2>2. K * (X + 1) = K * X + K
    BY <1>3, <1>4
  <2>3. K * X \in Int /\ K * Y \in Int
    BY <1>3, <1>4
  <2> QED
    BY <1>3, <2>1, <2>2, <2>3
<1>9. (AmountIn * X) * L = AmountIn * n * F * t * G * S
  BY <1>1
<1>10. K * Y = AmountIn * (d * B * s * B * B)
  BY <1>1
<1>11. (AmountIn * X) * L \in Int /\ K * X \in Int /\ K * Y \in Int
  <2> HIDE DEF K, X, Y, L
  <2> QED
    BY <1>2, <1>3, <1>4, <1>5
<1>12. (AmountIn * X) * L < K * Y
  <2> HIDE DEF K, X, Y, L
  <2> QED
    BY <1>6, <1>7, <1>8, <1>11
<1> QED
  <2> HIDE DEF K, X, Y, L
  <2> QED
    BY <1>9, <1>10, <1>12 DEF B, F, G, S

(* What carrying out a two-pool route returns is less than what was put    *)
(* in, whatever profit it is reported with.                                *)
TwoPoolRoutesLose ==
  \A p \in Pairs(KnownTokens(pools)) :
    \A route \in TwoPool(pools, p[1], p[2]) : Below(Execute(route), Amount)

(* detectTwoPoolArbitrage never reports a route worth taking, for every    *)
(* set of pools, every fees and every slippage: its hops sell to the pool  *)
(* that pays less and buy back from the one that asks more.                *)
THEOREM TwoPoolRoutesNeverPay == ScannerSpec => []TwoPoolRoutesLose
<1>1. ASSUME ScannerInv, NEW a, NEW b, a # b, NEW route \in TwoPool(pools, a, b)
      PROVE  Below(Execute(route), Amount)
  <2>1. PICK i \in PoolsOf(pools, a, b), j \in PoolsOf(pools, a, b) :
          /\ Below(PriceInB(pools[i], a), PriceInB(pools[j], a))
          /\ \E gross : route = TwoPoolRoute(pools[i], pools[j], a, b, gross)
    BY <1>1 DEF TwoPool
  <2> DEFINE buy == pools[i]
             sell == pools[j]
             x == Rate(buy, a)
             y == Rate(sell, b)
             f == DexFee[buy.dex]
             g == DexFee[sell.dex]
             hops == <<Hop(buy, a, b, PriceInB(buy, a)), Hop(sell, b, a, PriceInB(sell, a))>>
  <2>2. /\ buy \in PoolStates /\ latest[buy.poolAddress] = buy
        /\ sell \in PoolStates /\ latest[sell.poolAddress] = sell
        /\ {buy.tokenA, buy.tokenB} = {a, b} /\ {sell.tokenA, sell.tokenB} = {a, b}
    BY <1>1 DEF PoolsOf, ScannerInv, ScannerTypeOK, PricesAreLatest
  <2>3. /\ PriceInB(buy, a) = x /\ PriceInB(sell, a) = Rate(sell, a)
        /\ y.num = Rate(sell, a).den /\ y.den = Rate(sell, a).num
    BY <1>1, <2>2, PriceOfPair
  <2>4. /\ f \in 0..BasisPoints /\ g \in 0..BasisPoints
        /\ IsPrice(x) /\ IsPrice(y)
    BY <2>2, PoolFacts, Zenon
  <2>5. Execute(route) = Times(Left(Left(Amount, x, f), y, g), After(SlippageBps))
    <3>1. PICK net, profit : route = Route("multi-hop", hops, net, profit)
      BY <2>1, Zenon DEF TwoPoolRoute
    <3>2. /\ Len(hops) = 2
          /\ hops[1] = Hop(buy, a, b, PriceInB(buy, a))
          /\ hops[2] = Hop(sell, b, a, PriceInB(sell, a))
      OBVIOUS
    <3> HIDE DEF hops
    <3>3. route.hops = hops
      BY <3>1 DEF Route
    <3>4. Execute(route) = Times(SellTwo(hops), After(SlippageBps))
      BY <3>2, <3>3 DEF Execute
    <3>5. SellTwo(hops) = Left(Left(Amount, x, f), y, g)
      BY <2>2, <3>2, SellFacts DEF SellTwo
    <3> QED
      BY <3>4, <3>5, Zenon
  <2> HIDE DEF x, y, f, g, hops
  <2>6. /\ x.num \in Nat \ {0} /\ x.den \in Nat \ {0} /\ y.num \in Nat \ {0} /\ y.den \in Nat \ {0}
    BY <2>4 DEF IsPrice
  <2>7. x.num * y.num < y.den * x.den
    BY <2>1, <2>3, Zenon DEF Below
  <2>8. /\ Execute(route).num = AmountIn * x.num * (BasisPoints - f) * y.num * (BasisPoints - g)
                                  * (BasisPoints - SlippageBps)
        /\ Execute(route).den = 1 * x.den * BasisPoints * y.den * BasisPoints * BasisPoints
    BY <2>5, FractionFacts DEF Left
  <2>9. 1 * x.den = x.den
    BY <2>6
  <2>10. Execute(route).num < AmountIn * Execute(route).den
    <3>1. Execute(route).den = x.den * BasisPoints * y.den * BasisPoints * BasisPoints
      BY <2>8, <2>9, Zenon
    <3>2. x.num * y.num < y.den * x.den =>
            AmountIn * x.num * (BasisPoints - f) * y.num * (BasisPoints - g)
                * (BasisPoints - SlippageBps)
              < AmountIn * (x.den * BasisPoints * y.den * BasisPoints * BasisPoints)
      BY <2>4, <2>6, BackwardsLoses
    <3> QED
      BY <2>7, <2>8, <3>1, <3>2, Zenon
  <2>11. Execute(route).num \in Int
    BY <2>4, <2>6, <2>8, ScannerConstants
  <2>12. Execute(route).num * 1 = Execute(route).num
    BY <2>11
  <2> QED
    BY <2>10, <2>12, FractionFacts, Zenon DEF Below
<1>2. ScannerInv => TwoPoolRoutesLose
  BY <1>1 DEF TwoPoolRoutesLose, Pairs
<1> QED
  BY <1>2, ScannerSafe, PTL

-----------------------------------------------------------------------------
(* Pools listed the other way round                                        *)

Trades(pool, a, b) == {pool.tokenA, pool.tokenB} = {a, b}

(* Both prices of a pair are read off a pool however it lists the pair.    *)
LEMMA FlipFacts ==
  ASSUME NEW pool \in PoolStates, NEW a, NEW b, Trades(pool, a, b)
  PROVE  /\ Rate(Flip(pool), a) = Rate(pool, a)
         /\ PriceInB(Flip(pool), a) = PriceInB(pool, a)
         /\ Flip(pool).dex = pool.dex /\ Flip(pool).poolAddress = pool.poolAddress
<1>1. /\ pool.tokenA # pool.tokenB
      /\ IsPrice(pool.priceA)
      /\ pool.priceB = Reciprocal(pool.priceA)
  BY ScannerConstants
<1>2. a = pool.tokenA \/ a = pool.tokenB
  BY DEF Trades
<1>3. /\ Flip(pool).dex = pool.dex /\ Flip(pool).poolAddress = pool.poolAddress
      /\ Flip(pool).tokenA = pool.tokenB /\ Flip(pool).tokenB = pool.tokenA
      /\ Flip(pool).priceA = pool.priceB /\ Flip(pool).priceB = pool.priceA
  BY DEF Flip
<1>4. Reciprocal(Reciprocal(pool.priceA)) = pool.priceA
  BY <1>1 DEF Reciprocal, Fraction, IsPrice
<1> HIDE DEF Flip
<1>5. Rate(Flip(pool), a) = Rate(pool, a)
  BY <1>1, <1>2, <1>3 DEF Rate
<1>6. PriceInB(Flip(pool), a) = PriceInB(pool, a)
  BY <1>1, <1>2, <1>3, <1>4 DEF PriceInB
<1> QED
  BY <1>3, <1>5, <1>6

LEMMA FlippedEntries ==
  ASSUME NEW entries \in Seq(PoolStates), NEW a, NEW b
  PROVE  /\ PoolsOf(Flipped(entries), a, b) = PoolsOf(entries, a, b)
         /\ \A i \in PoolsOf(entries, a, b) :
              /\ Flipped(entries)[i] = Flip(entries[i])
              /\ Rate(Flipped(entries)[i], a) = Rate(entries[i], a)
              /\ PriceInB(Flipped(entries)[i], a) = PriceInB(entries[i], a)
              /\ entries[i] \in PoolStates
              /\ Trades(entries[i], a, b)
              /\ IsFirstBest(Flipped(entries), i, a, b) <=> IsFirstBest(entries, i, a, b)
<1>1. /\ DOMAIN Flipped(entries) = DOMAIN entries
      /\ \A i \in DOMAIN entries : Flipped(entries)[i] = Flip(entries[i])
  BY Zenon DEF Flipped
<1>2. \A i \in DOMAIN entries : entries[i] \in PoolStates
  OBVIOUS
<1>3. PoolsOf(Flipped(entries), a, b) = PoolsOf(entries, a, b)
  <2>1. \A i \in DOMAIN entries :
          /\ Flipped(entries)[i].tokenA = entries[i].tokenB
          /\ Flipped(entries)[i].tokenB = entries[i].tokenA
    BY <1>1 DEF Flip
  <2>2. \A i \in DOMAIN entries : {Flipped(entries)[i].tokenA, Flipped(entries)[i].tokenB}
                                    = {entries[i].tokenA, entries[i].tokenB}
    BY <2>1
  <2> QED
    BY <1>1, <2>2 DEF PoolsOf
<1>4. ASSUME NEW i \in PoolsOf(entries, a, b)
      PROVE  /\ Flipped(entries)[i] = Flip(entries[i])
             /\ Rate(Flipped(entries)[i], a) = Rate(entries[i], a)
             /\ PriceInB(Flipped(entries)[i], a) = PriceInB(entries[i], a)
             /\ entries[i] \in PoolStates
             /\ Trades(entries[i], a, b)
  <2>1. i \in DOMAIN entries /\ Trades(entries[i], a, b)
    BY DEF PoolsOf, Trades
  <2> QED
    BY <1>1, <1>2, <2>1, FlipFacts, Zenon
<1>5. ASSUME NEW i \in PoolsOf(entries, a, b)
      PROVE  IsFirstBest(Flipped(entries), i, a, b) <=> IsFirstBest(entries, i, a, b)
  BY <1>3, <1>4, Zenon DEF IsFirstBest
<1> QED
  BY <1>3, <1>4, <1>5, Zenon

LEMMA BestMembers ==
  ASSUME NEW entries, NEW a, NEW b, NEW pool
  PROVE  pool \in BestPool(entries, a, b) <=>
           \E i \in PoolsOf(entries, a, b) : IsFirstBest(entries, i, a, b) /\ pool = entries[i]
  BY DEF BestPool

LEMMA BestFlipped ==
  ASSUME NEW entries \in Seq(PoolStates), NEW a, NEW b, NEW pool
  PROVE  pool \in BestPool(Flipped(entries), a, b) <=>
           \E best \in BestPool(entries, a, b) : pool = Flip(best)
<1>1. pool \in BestPool(Flipped(entries), a, b) <=>
        \E i \in PoolsOf(entries, a, b) : IsFirstBest(entries, i, a, b) /\ pool = Flip(entries[i])
  <2>1. pool \in BestPool(Flipped(entries), a, b) <=>
          \E i \in PoolsOf(Flipped(entries), a, b) :
            IsFirstBest(Flipped(entries), i, a, b) /\ pool = Flipped(entries)[i]
    BY BestMembers
  <2> QED
    BY <2>1, FlippedEntries
<1>2. \A best : best \in BestPool(entries, a, b) <=>
        \E i \in PoolsOf(entries, a, b) : IsFirstBest(entries, i, a, b) /\ best = entries[i]
  BY BestMembers
<1> QED
  BY <1>1, <1>2, Zenon

(* The best pool of a pair trades the pair.                                *)
LEMMA BestTradesPair ==
  ASSUME NEW entries \in Seq(PoolStates), NEW a, NEW b, NEW best \in BestPool(entries, a, b)
  PROVE  /\ best \in PoolStates
         /\ Trades(best, a, b)
<1>1. PICK i \in PoolsOf(entries, a, b) : best = entries[i]
  BY BestMembers
<1> QED
  BY <1>1, FlippedEntries

LEMMA TwoPoolFlipped ==
  ASSUME NEW entries \in Seq(PoolStates), NEW a, NEW b
  PROVE  TwoPool(Flipped(entries), a, b) = TwoPool(entries, a, b)
<1> DEFINE Gross(es, p) ==
             Times(Amount, Times(PriceInB(es[p[2]], a), Reciprocal(PriceInB(es[p[1]], a))))
           Found2(es, p) == TwoPoolRoute(es[p[1]], es[p[2]], a, b, Gross(es, p))
           Chosen(es) == {q \in PoolsOf(es, a, b) \X PoolsOf(es, a, b) :
                            Below(PriceInB(es[q[1]], a), PriceInB(es[q[2]], a))}
<1>1. ASSUME NEW p \in PoolsOf(entries, a, b) \X PoolsOf(entries, a, b)
      PROVE  /\ Found2(Flipped(entries), p) = Found2(entries, p)
             /\ PriceInB(Flipped(entries)[p[1]], a) = PriceInB(entries[p[1]], a)
             /\ PriceInB(Flipped(entries)[p[2]], a) = PriceInB(entries[p[2]], a)
  <2>1. p[1] \in PoolsOf(entries, a, b) /\ p[2] \in PoolsOf(entries, a, b)
    OBVIOUS
  <2>2. /\ PriceInB(Flipped(entries)[p[1]], a) = PriceInB(entries[p[1]], a)
        /\ PriceInB(Flipped(entries)[p[2]], a) = PriceInB(entries[p[2]], a)
    BY <2>1, FlippedEntries
  <2>3. /\ Flipped(entries)[p[1]].dex = entries[p[1]].dex
        /\ Flipped(entries)[p[1]].poolAddress = entries[p[1]].poolAddress
        /\ Flipped(entries)[p[2]].dex = entries[p[2]].dex
        /\ Flipped(entries)[p[2]].poolAddress = entries[p[2]].poolAddress
    BY <2>1, FlippedEntries, FlipFacts
  <2> QED
    BY <2>2, <2>3, Zenon DEF TwoPoolRoute, Hop
<1>2. Chosen(Flipped(entries)) = Chosen(entries)
  <2>1. PoolsOf(Flipped(entries), a, b) = PoolsOf(entries, a, b)
    BY FlippedEntries, Zenon
  <2> QED
    BY <1>1, <2>1, Zenon
<1>3. /\ TwoPool(entries, a, b) = {Found2(entries, p) : p \in Chosen(entries)}
      /\ TwoPool(Flipped(entries), a, b)
           = {Found2(Flipped(entries), p) : p \in Chosen(Flipped(entries))}
  BY DEF TwoPool
<1>4. \A p \in Chosen(entries) : Found2(Flipped(entries), p) = Found2(entries, p)
  BY <1>1, Zenon
<1> HIDE DEF Found2, Chosen
<1> QED
  BY <1>2, <1>3, <1>4, Zenon

(* A route is the same through the pools listed the other way round.       *)
LEMMA RouteFlipped ==
  ASSUME NEW h1 \in PoolStates, NEW h2 \in PoolStates, NEW a, NEW b, NEW c, NEW direct,
         Trades(h1, a, b), Trades(h2, b, c)
  PROVE  /\ DetourRoute(Flip(h1), Flip(h2), direct, a, b, c) = DetourRoute(h1, h2, direct, a, b, c)
         /\ \A h3 \in PoolStates : Trades(h3, c, a) =>
              TriangularRoute(Flip(h1), Flip(h2), Flip(h3), a, b, c)
                = TriangularRoute(h1, h2, h3, a, b, c)
<1>1. /\ Rate(Flip(h1), a) = Rate(h1, a)
      /\ Flip(h1).dex = h1.dex /\ Flip(h1).poolAddress = h1.poolAddress
      /\ Rate(Flip(h2), b) = Rate(h2, b)
      /\ Flip(h2).dex = h2.dex /\ Flip(h2).poolAddress = h2.poolAddress
  BY FlipFacts, Zenon
<1>2. DetourRoute(Flip(h1), Flip(h2), direct, a, b, c) = DetourRoute(h1, h2, direct, a, b, c)
  BY <1>1, Zenon DEF DetourRoute, Through, Hop
<1>3. ASSUME NEW h3 \in PoolStates, Trades(h3, c, a)
      PROVE  TriangularRoute(Flip(h1), Flip(h2), Flip(h3), a, b, c)
               = TriangularRoute(h1, h2, h3, a, b, c)
  <2>1. Rate(Flip(h3), c) = Rate(h3, c) /\ Flip(h3).dex = h3.dex /\ Flip(h3).poolAddress = h3.poolAddress
    BY <1>3, FlipFacts, Zenon
  <2> QED
    BY <1>1, <2>1, Zenon DEF TriangularRoute, TriangleNet, Through, Hop
<1> QED
  BY <1>2, <1>3, Zenon

LEMMA TriangularFlipped ==
  ASSUME NEW entries \in Seq(PoolStates), NEW a, NEW b, NEW c
  PROVE  Triangular(Flipped(entries), a, b, c) = Triangular(entries, a, b, c)
<1> DEFINE Chain(es, route) ==
             \E h1 \in BestPool(es, a, b), h2 \in BestPool(es, b, c), h3 \in BestPool(es, c, a) :
               route = TriangularRoute(h1, h2, h3, a, b, c)
<1>1. ASSUME NEW es, NEW route
      PROVE  route \in Triangular(es, a, b, c) <=> route.netProfit.num > 0 /\ Chain(es, route)
  BY DEF Triangular
<1>2. ASSUME NEW h1 \in BestPool(entries, a, b), NEW h2 \in BestPool(entries, b, c),
             NEW h3 \in BestPool(entries, c, a)
      PROVE  TriangularRoute(Flip(h1), Flip(h2), Flip(h3), a, b, c)
               = TriangularRoute(h1, h2, h3, a, b, c)
  BY BestTradesPair, RouteFlipped
<1>3. ASSUME NEW route
      PROVE  Chain(Flipped(entries), route) <=> Chain(entries, route)
  <2>1. ASSUME Chain(Flipped(entries), route) PROVE Chain(entries, route)
    <3>1. PICK h1 \in BestPool(Flipped(entries), a, b), h2 \in BestPool(Flipped(entries), b, c),
               h3 \in BestPool(Flipped(entries), c, a) :
            route = TriangularRoute(h1, h2, h3, a, b, c)
      BY <2>1, Zenon
    <3>2. PICK best1 \in BestPool(entries, a, b) : h1 = Flip(best1)
      BY BestFlipped
    <3>3. PICK best2 \in BestPool(entries, b, c) : h2 = Flip(best2)
      BY BestFlipped
    <3>4. PICK best3 \in BestPool(entries, c, a) : h3 = Flip(best3)
      BY BestFlipped
    <3> QED
      BY <1>2, <3>1, <3>2, <3>3, <3>4, Zenon
  <2>2. ASSUME Chain(entries, route) PROVE Chain(Flipped(entries), route)
    <3>1. PICK h1 \in BestPool(entries, a, b), h2 \in BestPool(entries, b, c),
               h3 \in BestPool(entries, c, a) :
            route = TriangularRoute(h1, h2, h3, a, b, c)
      BY <2>2, Zenon
    <3>2. /\ Flip(h1) \in BestPool(Flipped(entries), a, b)
          /\ Flip(h2) \in BestPool(Flipped(entries), b, c)
          /\ Flip(h3) \in BestPool(Flipped(entries), c, a)
      BY BestFlipped
    <3> QED
      BY <1>2, <3>1, <3>2, Zenon
  <2> QED
    BY <2>1, <2>2
<1> HIDE DEF Chain
<1>4. \A route : route \in Triangular(Flipped(entries), a, b, c)
                   <=> route \in Triangular(entries, a, b, c)
  BY <1>1, <1>3
<1> QED
  BY <1>4

LEMMA MultiHopFlipped ==
  ASSUME NEW entries \in Seq(PoolStates), NEW a, NEW b, NEW c
  PROVE  MultiHop(Flipped(entries), a, b, c) = MultiHop(entries, a, b, c)
<1> DEFINE Chain(es, route) ==
             \E h1 \in BestPool(es, a, b), h2 \in BestPool(es, b, c), h3 \in BestPool(es, a, c) :
               route = DetourRoute(h1, h2, Times(Amount, Rate(h3, a)), a, b, c)
<1>1. ASSUME NEW es, NEW route
      PROVE  route \in MultiHop(es, a, b, c) <=> route.netProfit.num > 0 /\ Chain(es, route)
  BY DEF MultiHop, Direct, Through
<1>2. ASSUME NEW h1 \in BestPool(entries, a, b), NEW h2 \in BestPool(entries, b, c),
             NEW h3 \in BestPool(entries, a, c)
      PROVE  DetourRoute(Flip(h1), Flip(h2), Times(Amount, Rate(Flip(h3), a)), a, b, c)
               = DetourRoute(h1, h2, Times(Amount, Rate(h3, a)), a, b, c)
  <2>1. Rate(Flip(h3), a) = Rate(h3, a)
    BY BestTradesPair, FlipFacts
  <2> QED
    BY <2>1, BestTradesPair, RouteFlipped
<1>3. ASSUME NEW route
      PROVE  Chain(Flipped(entries), route) <=> Chain(entries, route)
  <2>1. ASSUME Chain(Flipped(entries), route) PROVE Chain(entries, route)
    <3>1. PICK h1 \in BestPool(Flipped(entries), a, b), h2 \in BestPool(Flipped(entries), b, c),
               h3 \in BestPool(Flipped(entries), a, c) :
            route = DetourRoute(h1, h2, Times(Amount, Rate(h3, a)), a, b, c)
      BY <2>1, Zenon
    <3>2. PICK best1 \in BestPool(entries, a, b) : h1 = Flip(best1)
      BY BestFlipped
    <3>3. PICK best2 \in BestPool(entries, b, c) : h2 = Flip(best2)
      BY BestFlipped
    <3>4. PICK best3 \in BestPool(entries, a, c) : h3 = Flip(best3)
      BY BestFlipped
    <3> QED
      BY <1>2, <3>1, <3>2, <3>3, <3>4, Zenon
  <2>2. ASSUME Chain(entries, route) PROVE Chain(Flipped(entries), route)
    <3>1. PICK h1 \in BestPool(entries, a, b), h2 \in BestPool(entries, b, c),
               h3 \in BestPool(entries, a, c) :
            route = DetourRoute(h1, h2, Times(Amount, Rate(h3, a)), a, b, c)
      BY <2>2, Zenon
    <3>2. /\ Flip(h1) \in BestPool(Flipped(entries), a, b)
          /\ Flip(h2) \in BestPool(Flipped(entries), b, c)
          /\ Flip(h3) \in BestPool(Flipped(entries), a, c)
      BY BestFlipped
    <3> QED
      BY <1>2, <3>1, <3>2, Zenon
  <2> QED
    BY <2>1, <2>2
<1> HIDE DEF Chain
<1>4. \A route : route \in MultiHop(Flipped(entries), a, b, c)
                   <=> route \in MultiHop(entries, a, b, c)
  BY <1>1, <1>3
<1> QED
  BY <1>4

(* It makes no difference which way round the pools list their pairs, for  *)
(* every price map the scanner can have.                                   *)
THEOREM OrientationIsIrrelevant == ScannerSpec => []OrientationDoesNotMatter
<1>1. ASSUME NEW entries \in Seq(PoolStates)
      PROVE  DetectAll(Flipped(entries)) = DetectAll(entries)
  <2>1. KnownTokens(Flipped(entries)) = KnownTokens(entries)
    <3>1. /\ DOMAIN Flipped(entries) = DOMAIN entries
          /\ \A i \in DOMAIN entries : Flipped(entries)[i] = Flip(entries[i])
      BY Zenon DEF Flipped
    <3> DEFINE Tokens(es, i) == {es[i].tokenA, es[i].tokenB}
    <3>2. \A i \in DOMAIN entries : Tokens(Flipped(entries), i) = Tokens(entries, i)
      <4>1. \A i \in DOMAIN entries :
              /\ Flipped(entries)[i].tokenA = entries[i].tokenB
              /\ Flipped(entries)[i].tokenB = entries[i].tokenA
        BY <3>1 DEF Flip
      <4> QED
        BY <4>1
    <3>3. /\ KnownTokens(entries) = UNION {Tokens(entries, i) : i \in DOMAIN entries}
          /\ KnownTokens(Flipped(entries))
               = UNION {Tokens(Flipped(entries), i) : i \in DOMAIN Flipped(entries)}
      BY DEF KnownTokens
    <3> HIDE DEF Tokens
    <3>4. {Tokens(Flipped(entries), i) : i \in DOMAIN entries} = {Tokens(entries, i) : i \in DOMAIN entries}
      BY <3>2, Zenon
    <3> QED
      BY <3>1, <3>3, <3>4, Zenon
  <2>2. Found(Flipped(entries)) = Found(entries)
    <3> DEFINE TwoPools(es) == {TwoPool(es, p[1], p[2]) : p \in Pairs(KnownTokens(es))}
               Others(es) == {Triangular(es, t[1], t[2], t[3]) \cup MultiHop(es, t[1], t[2], t[3]) :
                                t \in Triples(KnownTokens(es))}
    <3>1. TwoPools(Flipped(entries)) = TwoPools(entries)
      BY <2>1, TwoPoolFlipped, Zenon
    <3>2. Others(Flipped(entries)) = Others(entries)
      <4>1. \A t : Triangular(Flipped(entries), t[1], t[2], t[3])
                        \cup MultiHop(Flipped(entries), t[1], t[2], t[3])
                      = Triangular(entries, t[1], t[2], t[3]) \cup MultiHop(entries, t[1], t[2], t[3])
        <5>1. \A t : /\ Triangular(Flipped(entries), t[1], t[2], t[3])
                           = Triangular(entries, t[1], t[2], t[3])
                      /\ MultiHop(Flipped(entries), t[1], t[2], t[3])
                           = MultiHop(entries, t[1], t[2], t[3])
          BY TriangularFlipped, MultiHopFlipped
        <5> QED
          BY <5>1
      <4> QED
        BY <2>1, <4>1, Zenon
    <3>3. \A es : Found(es) = (UNION TwoPools(es)) \cup (UNION Others(es))
      BY DEF Found
    <3> HIDE DEF TwoPools, Others
    <3> QED
      BY <3>1, <3>2, <3>3, Zenon
  <2> QED
    BY <2>2, Zenon DEF DetectAll
<1>2. ScannerInv => OrientationDoesNotMatter
  BY <1>1, Zenon DEF ScannerInv, ScannerTypeOK, OrientationDoesNotMatter
<1> QED
  BY <1>2, ScannerSafe, PTL
=============================================================================
