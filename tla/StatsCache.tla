------------------------------ MODULE StatsCache ------------------------------
(***************************************************************************)
(* Statistics kept in Redis (src/redis/redis-cache.service and the getStats *)
(* of orders, trips, notifications and the warehouse).  A reader asks the   *)
(* cache, on a miss the database, and stores what it read with a time to    *)
(* live; some of the writers delete the keys they make stale, after their   *)
(* commit and without waiting for the answer.  What a statistic says is a   *)
(* version number of the rows it counts.  Time passes in half minutes.      *)
(***************************************************************************)
EXTENDS Naturals, FiniteSets

CONSTANTS
  Stats,       \* statistics followed, some of AllStats
  Ranges,      \* the date ranges (or accounts) they are asked for
  Readers,     \* requests for statistics the server answers at the same time
  MaxVersion,  \* bound on the changes of one statistic
  Absent       \* no value under a key

AllStats == {"orders:stats", "trips:stats", "warehouse:kpi", "notifications:stats"}
ASSUME StatsAssumption == Stats \subseteq AllStats
ASSUME VersionAssumption == MaxVersion \in Nat

VARIABLES
  data,   \* version of what the database says, of each statistic
  since,  \* half minutes passed since each version was superseded
  cache,  \* Redis: the value stored under each key and its age
  link,   \* the connection to Redis
  sweep,  \* deletions under way: how many of each key
  req     \* what each reader has learned so far

cacheVars == <<data, since, cache, link, sweep, req>>

Keys == Stats \X Ranges
Versions == 0 .. MaxVersion

(* Mutant: a figure is set without an expiry. *)
NoTtl(s) == 9
(* set: seconds to live, in half minutes; an entry without one never goes. *)
Ttl(s) == IF s = "notifications:stats" THEN 1 ELSE 2

Idle == [at |-> "idle"]

CacheInit ==
  /\ data = [s \in Stats |-> 0]
  /\ since = [s \in Stats |-> [v \in Versions |-> 0]]
  /\ cache = [k \in Keys |-> Absent]
  /\ link = "connecting"
  /\ sweep = [k \in Keys |-> 0]
  /\ req = [r \in Readers |-> Idle]

-----------------------------------------------------------------------------
(* get, the query of getStats, set.  Errors of Redis count as misses and as *)
(* stores that did not happen.                                              *)
Get(r, k) ==
  /\ req[r].at = "idle"
  /\ \/ link = "up" /\ cache[k] # Absent /\ UNCHANGED req
     \/ (link # "up" \/ cache[k] = Absent) /\ req' = [req EXCEPT ![r] = [at |-> "query", key |-> k]]
  /\ UNCHANGED <<data, since, cache, link, sweep>>

Query(r) ==
  /\ req[r].at = "query"
  /\ req' = [req EXCEPT ![r] = [at |-> "set", key |-> @.key, version |-> data[@.key[1]]]]
  /\ UNCHANGED <<data, since, cache, link, sweep>>

Entry(r) == [version |-> req[r].version, age |-> 0]

Set(r) ==
  /\ req[r].at = "set"
  /\ cache' = IF link = "up" THEN [cache EXCEPT ![req[r].key] = Entry(r)] ELSE cache
  /\ req' = [req EXCEPT ![r] = Idle]
  /\ UNCHANGED <<data, since, link, sweep>>

-----------------------------------------------------------------------------
(* A commit changes some statistics and starts deleting some keys, if Redis *)
(* was ever reached: an outage makes the deletions fail one by one.         *)
Commit(changed, swept) ==
  /\ \A s \in changed : data[s] < MaxVersion
  /\ data' = [s \in Stats |-> IF s \in changed THEN data[s] + 1 ELSE data[s]]
  /\ sweep' = [k \in Keys |-> IF k[1] \in swept /\ link \in {"up", "lost", "closed"}
                              THEN sweep[k] + 1 ELSE sweep[k]]
  /\ UNCHANGED <<since, cache, link, req>>

(* OrdersService.create: a draft, which trips:stats does not count. *)
CreateOrder == Commit({"orders:stats", "warehouse:kpi"} \cap Stats,
                      {"orders:stats", "warehouse:kpi"} \cap Stats)

WarehouseFigures == {"orders:stats", "trips:stats", "warehouse:kpi"}
SweptByBoard == {"orders:stats", "warehouse:kpi"}   \* mutant: as after create
SweptByWarehouse == WarehouseFigures

(* confirmInbound and confirmOutbound. *)
ConfirmReceiptOrDispatch == Commit(WarehouseFigures \cap Stats, SweptByWarehouse \cap Stats)

(* Notifications: create, markAsRead and markAllAsRead; each account has a  *)
(* key of its own, so Ranges are accounts here.                             *)
Notify == /\ "notifications:stats" \in Stats
          /\ Commit({"notifications:stats"}, {"notifications:stats"})

(* Every other writer of orders, lines and stops (submit, update, remove,   *)
(* the fleet desk, drafts, corrections), and midnight, which moves the      *)
(* default range: nothing is deleted.                                       *)
ChangeUnseen == \E changed \in SUBSET (Stats \cap WarehouseFigures) \ {{}} : Commit(changed, {})

(* del, and delByPattern: SCAN returns the keys in batches, each batch is   *)
(* deleted in a pipeline of its own that nobody waits for, and a key stored *)
(* behind the scan is missed.  A key at a time, in any order, comes to the  *)
(* same.  The errors of Redis are logged.                                   *)
Delete(k) ==
  /\ sweep[k] > 0
  /\ sweep' = [sweep EXCEPT ![k] = @ - 1]
  /\ cache' = IF link = "up" THEN [cache EXCEPT ![k] = Absent] ELSE cache
  /\ UNCHANGED <<data, since, link, req>>

-----------------------------------------------------------------------------
(* onModuleInit: caching is enabled by the first connection only.  Three    *)
(* attempts are made to restore a lost one; the rest of the server's life   *)
(* goes by without cache.  A restart forgets requests and deletions.        *)
Connect == /\ link = "connecting" /\ link' \in {"up", "disabled"}
           /\ UNCHANGED <<data, since, cache, sweep, req>>
Lose == /\ link = "up" /\ link' = "lost"
        /\ UNCHANGED <<data, since, cache, sweep, req>>
Retry == /\ link = "lost" /\ link' \in {"up", "closed"}
         /\ UNCHANGED <<data, since, cache, sweep, req>>
Restart == /\ link # "connecting" /\ link' = "connecting"
           /\ sweep' = [k \in Keys |-> 0]
           /\ req' = [r \in Readers |-> Idle]
           /\ UNCHANGED <<data, since, cache>>

(* Half a minute: entries past their time go, on the clock of Redis. *)
AgedLate(k) ==   \* mutant: gone one half minute too late
  IF cache[k] = Absent \/ cache[k].age = Ttl(k[1]) THEN Absent ELSE [cache[k] EXCEPT !.age = @ + 1]
Aged(k) == IF cache[k] = Absent \/ cache[k].age + 1 = Ttl(k[1]) THEN Absent
           ELSE [cache[k] EXCEPT !.age = IF @ = 3 THEN 3 ELSE @ + 1]

HalfMinute ==
  /\ cache' = [k \in Keys |-> Aged(k)]
  /\ since' = [s \in Stats |-> [v \in Versions |->
                 IF v < data[s] /\ since[s][v] < 3 THEN since[s][v] + 1 ELSE since[s][v]]]
  /\ UNCHANGED <<data, link, sweep, req>>

Read == \E r \in Readers : (\E k \in Keys : Get(r, k)) \/ Query(r) \/ Set(r)
Write == CreateOrder \/ ConfirmReceiptOrDispatch \/ Notify \/ ChangeUnseen
Fault == Connect \/ Lose \/ Retry \/ Restart

CacheNext == Read \/ Write \/ Fault \/ HalfMinute \/ \E k \in Keys : Delete(k)

(* Begun requests and deletions end, and the clock of Redis runs on. *)
Fairness ==
  /\ \A r \in Readers : WF_cacheVars(Query(r)) /\ WF_cacheVars(Set(r))
  /\ \A k \in Keys : WF_cacheVars(Delete(k))
  /\ WF_cacheVars(HalfMinute)
CacheSpec == CacheInit /\ [][CacheNext]_cacheVars /\ Fairness

(* No query takes half a minute. *)
SwiftHalfMinute == HalfMinute /\ \A r \in Readers : req[r].at = "idle"
SwiftNext == Read \/ Write \/ Fault \/ SwiftHalfMinute \/ \E k \in Keys : Delete(k)

(* Writers that delete what they change, a Redis that answers, and no       *)
(* commit between a reader's query and its store.                           *)
Sweeping == /\ CreateOrder \/ ConfirmReceiptOrDispatch \/ Notify
            /\ \A r \in Readers : req[r].at # "set"
SweptNext == Read \/ Sweeping \/ (Connect /\ link' = "up") \/ HalfMinute \/ \E k \in Keys : Delete(k)

-----------------------------------------------------------------------------
(* Properties. *)

Stale(k) == cache[k] # Absent /\ cache[k].version # data[k[1]]

(* Once nobody writes any more (MaxVersion makes the writers stop) the      *)
(* dashboards catch up by themselves: every value left in Redis is the      *)
(* database's, whatever deletions were lost, whatever restarts there were   *)
(* and however slow a reader was.                                           *)
FreshAgain == <>[](\A k \in Keys : ~Stale(k))

(* With queries shorter than half a minute no figure shown is more than a   *)
(* minute behind the database, even when its deletion was lost or it was    *)
(* stored after it.                                                         *)
AtMostAMinuteOld ==
  \A k \in Keys : cache[k] # Absent => since[k[1]][cache[k].version] < 2

(* Without overlap, outages and forgetful writers, a stale value always has *)
(* a deletion of its key under way.                                         *)
StaleIsBeingDeleted == \A k \in Keys : Stale(k) => sweep[k] > 0

===============================================================================
