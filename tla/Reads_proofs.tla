----------------------------- MODULE Reads_proofs -----------------------------
(***************************************************************************)
(* What the read side promises: no stale dashboard figure stays             *)
(* (StatsCache), and the history of a trip and the status shown with it are *)
(* what was done (TripTimeline).  The two share no table; each part has an  *)
(* invariant of its own.                                                    *)
(***************************************************************************)
EXTENDS MCReads, FiniteSetTheorems, SequenceTheorems, TLAPS

(* A step of a behaviour is one of the figures' part and one of the         *)
(* history's: the part that is not looked at stutters.                      *)
LEMMA PartsStep ==
  ASSUME [ReadsNext]_readsVars
  PROVE  [WeatherNext]_<<cacheVars, weather>> /\ [HandsNext]_<<vars, hands>>
BY DEF ReadsNext, readsVars

-----------------------------------------------------------------------------
(* Figures kept in Redis (StatsCache). *)
Version == 0 .. MaxVersion
Figure == [version : Version, age : {0, 1, 2, 3}]
Reading == {Idle} \cup [at : {"query"}, key : Keys]
           \cup [at : {"set"}, key : Keys, version : Version]

FigureTables ==
  /\ data \in [Stats -> Version]
  /\ since \in [Stats -> [Version -> {0, 1, 2, 3}]]
  /\ DOMAIN cache = Keys /\ \A k \in Keys : cache[k] # Absent => cache[k] \in Figure
  /\ sweep \in [Keys -> Nat]
  /\ req \in [Readers -> Reading]

LEMMA KeyIs == \A k \in Keys : k[1] \in Stats
BY DEF Keys

LEMMA ReadingIs ==
  ASSUME FigureTables, NEW r \in Readers
  PROVE  /\ req[r].at \in {"idle", "query", "set"}
         /\ req[r].at \in {"query", "set"} => req[r].key \in Keys
         /\ req[r].at = "set" => req[r].version \in Version
         /\ req[r].at = "idle" => req[r] = Idle
<1>1. req[r] \in Reading
  BY DEF FigureTables
<1>2. CASE req[r] = Idle
  BY <1>2 DEF Idle
<1>3. CASE req[r] \in [at : {"query"}, key : Keys]
  BY <1>3
<1>4. CASE req[r] \in [at : {"set"}, key : Keys, version : Version]
  BY <1>4
<1> QED
  BY <1>1, <1>2, <1>3, <1>4 DEF Reading

(* What a commit does, whoever makes it. *)
Committed(updated, swept) ==
  /\ data' \in [Stats -> Version]
  /\ \A s \in Stats : data'[s] = IF s \in updated THEN data[s] + 1 ELSE data[s]
  /\ sweep' \in [Keys -> Nat]
  /\ \A k \in Keys :
       sweep'[k] = IF k[1] \in swept /\ link \in {"up", "lost", "closed"} THEN sweep[k] + 1 ELSE sweep[k]
  /\ UNCHANGED <<since, cache, link, req>>

LEMMA CommitIs ==
  ASSUME MaxVersion \in Nat, FigureTables, NEW updated \in SUBSET Stats, NEW swept, Commit(updated, swept)
  PROVE  Committed(updated, swept)
<1>1. ASSUME NEW s \in Stats PROVE (IF s \in updated THEN data[s] + 1 ELSE data[s]) \in Version
  <2>1. data[s] \in Version
    BY DEF FigureTables
  <2>2. s \in updated => data[s] < MaxVersion
    BY DEF Commit
  <2> QED
    BY <2>1, <2>2 DEF Version
<1>2. data' = [s \in Stats |-> IF s \in updated THEN data[s] + 1 ELSE data[s]]
  BY DEF Commit
<1>3. sweep' = [k \in Keys |-> IF k[1] \in swept /\ link \in {"up", "lost", "closed"}
                                       THEN sweep[k] + 1 ELSE sweep[k]]
  BY DEF Commit
<1>4. sweep' \in [Keys -> Nat]
  <2>1. sweep \in [Keys -> Nat]
    BY DEF FigureTables
  <2> QED
    BY <1>3, <2>1
<1>5. UNCHANGED <<since, cache, link, req>>
  BY DEF Commit
<1> QED
  BY <1>1, <1>2, <1>3, <1>4, <1>5 DEF Committed

LEMMA WriteIs ==
  ASSUME MaxVersion \in Nat, FigureTables, Write
  PROVE  \E updated \in SUBSET Stats, swept \in SUBSET Stats : Committed(updated, swept)
<1>1. PICK updated \in SUBSET Stats, swept \in SUBSET Stats : Commit(updated, swept)
  <2>1. CASE CreateOrder
    BY <2>1 DEF CreateOrder
  <2>2. CASE ConfirmReceiptOrDispatch
    BY <2>2 DEF ConfirmReceiptOrDispatch
  <2>3. CASE Notify
    BY <2>3 DEF Notify
  <2>4. CASE ChangeUnseen
    BY <2>4 DEF ChangeUnseen
  <2> QED
    BY <2>1, <2>2, <2>3, <2>4 DEF Write
<1> QED
  BY <1>1, CommitIs

LEMMA AgedIs ==
  ASSUME FigureTables, NEW k \in Keys, Aged(k) # Absent
  PROVE  /\ cache[k] \in Figure /\ cache[k] # Absent /\ Aged(k) \in Figure
         /\ Aged(k).version = cache[k].version
         /\ cache[k].age + 1 # Ttl(k[1])
         /\ cache[k].age < 3 => Aged(k).age = cache[k].age + 1
<1>1. cache[k] \in Figure /\ cache[k] # Absent
  BY DEF FigureTables, Aged
<1>2. Aged(k) = [cache[k] EXCEPT !.age = IF @ = 3 THEN 3 ELSE @ + 1]
  BY DEF Aged
<1> QED
  BY <1>1, <1>2 DEF Figure, Aged

LEMMA TickIs ==
  ASSUME FigureTables, HalfMinute
  PROVE  /\ UNCHANGED <<data, link, sweep, req>>
         /\ DOMAIN cache' = Keys /\ \A k \in Keys : cache'[k] = Aged(k)
         /\ since' \in [Stats -> [Version -> {0, 1, 2, 3}]]
         /\ \A s \in Stats, v \in Version :
              since'[s][v] = IF v < data[s] /\ since[s][v] < 3 THEN since[s][v] + 1 ELSE since[s][v]
<1>1. /\ cache' = [k \in Keys |-> Aged(k)]
      /\ since' = [s \in Stats |-> [v \in Version |->
                 IF v < data[s] /\ since[s][v] < 3 THEN since[s][v] + 1 ELSE since[s][v]]]
      /\ UNCHANGED <<data, link, sweep, req>>
  BY DEF HalfMinute, Versions, Version
<1>2. since \in [Stats -> [Version -> {0, 1, 2, 3}]]
  BY DEF FigureTables
<1>3. \A s \in Stats, v \in Version :
        (IF v < data[s] /\ since[s][v] < 3 THEN since[s][v] + 1 ELSE since[s][v]) \in {0, 1, 2, 3}
  BY <1>2
<1> QED
  BY <1>1, <1>3

LEMMA InitFigures == ASSUME MaxVersion \in Nat, CacheInit PROVE FigureTables
<1>1. 0 \in Version
  BY DEF Version
<1>2. sweep = [k \in Keys |-> 0] /\ cache = [k \in Keys |-> Absent]
  BY DEF CacheInit
<1> QED
  BY <1>1, <1>2 DEF CacheInit, FigureTables, Versions, Version, Reading

(* A reader asks the database, or stores what it was told. *)
Asked(r) ==
  /\ req[r].at = "query"
  /\ UNCHANGED <<data, since, cache, link, sweep>>
  /\ \A q \in Readers \ {r} : req'[q] = req[q]
  /\ req'[r].at = "set" /\ req'[r].key = req[r].key /\ req'[r].version = data[req[r].key[1]]

LEMMA QueryIs ==
  ASSUME FigureTables, NEW r \in Readers, Query(r)
  PROVE  Asked(r) /\ FigureTables'
<1>1. PICK n : n = [at |-> "set", key |-> req[r].key, version |-> data[req[r].key[1]]]
  OBVIOUS
<1>2. /\ req' = [req EXCEPT ![r] = n] /\ req[r].at = "query"
      /\ UNCHANGED <<data, since, cache, link, sweep>>
  BY <1>1 DEF Query
<1>3. req[r].key \in Keys /\ data[req[r].key[1]] \in Version
  BY <1>2, ReadingIs, KeyIs DEF FigureTables
<1>4. n \in Reading
  BY <1>1, <1>3 DEF Reading
<1>5. req' \in [Readers -> Reading] /\ req'[r] = n /\ \A q \in Readers \ {r} : req'[q] = req[q]
  BY <1>2, <1>4 DEF FigureTables
<1> QED
  BY <1>1, <1>2, <1>5 DEF Asked, FigureTables

Stored(r) ==
  /\ req[r].at = "set"
  /\ UNCHANGED <<data, since, link, sweep>>
  /\ \A q \in Readers \ {r} : req'[q] = req[q]
  /\ req'[r].at = "idle"
  /\ \A k \in Keys \ {req[r].key} : cache'[k] = cache[k]
  /\ \/ link = "up" /\ cache'[req[r].key] \in Figure
        /\ cache'[req[r].key].version = req[r].version /\ cache'[req[r].key].age = 0
     \/ link # "up" /\ cache'[req[r].key] = cache[req[r].key]

LEMMA SetIs ==
  ASSUME FigureTables, NEW r \in Readers, Set(r)
  PROVE  Stored(r) /\ FigureTables'
<1>1. PICK e : e = [version |-> req[r].version, age |-> 0]
  OBVIOUS
<1>2. PICK k : k = req[r].key
  OBVIOUS
<1>3. /\ req' = [req EXCEPT ![r] = Idle] /\ req[r].at = "set"
      /\ cache' = IF link = "up" THEN [cache EXCEPT ![k] = e] ELSE cache
      /\ UNCHANGED <<data, since, link, sweep>>
  BY <1>1, <1>2 DEF Set, Entry
<1>4. k \in Keys /\ req[r].version \in Version
  BY <1>2, <1>3, ReadingIs
<1>5. e \in Figure /\ e.version = req[r].version /\ e.age = 0
  BY <1>1, <1>4 DEF Figure
<1>6. Idle \in Reading /\ Idle.at = "idle"
  BY DEF Reading, Idle
<1>7. /\ req' \in [Readers -> Reading] /\ req'[r] = Idle
      /\ \A q \in Readers \ {r} : req'[q] = req[q]
  BY <1>3, <1>6 DEF FigureTables
<1>8. /\ DOMAIN cache' = Keys /\ \A j \in Keys \ {k} : cache'[j] = cache[j]
      /\ link = "up" => cache'[k] = e
      /\ link # "up" => cache'[k] = cache[k]
  BY <1>3, <1>4 DEF FigureTables
<1>9. FigureTables'
  <2>1. \A j \in Keys : cache'[j] # Absent => cache'[j] \in Figure
    BY <1>5, <1>8 DEF FigureTables
  <2> QED
    BY <1>3, <1>7, <1>8, <2>1 DEF FigureTables
<1> QED
  BY <1>2, <1>3, <1>5, <1>6, <1>7, <1>8, <1>9 DEF Stored

(* A miss, by a reader that was idle. *)
LEMMA GetIs ==
  ASSUME FigureTables, NEW r \in Readers, NEW k \in Keys, Get(r, k)
  PROVE  /\ FigureTables' /\ UNCHANGED <<data, since, cache, link, sweep>>
         /\ \A q \in Readers : req'[q] = req[q] \/ req'[q].at = "query"
<1>1. PICK n : n = [at |-> "query", key |-> k]
  OBVIOUS
<1>2. n \in Reading /\ n.at = "query"
  BY <1>1 DEF Reading
<1>3. UNCHANGED <<data, since, cache, link, sweep>> /\ (req' = req \/ req' = [req EXCEPT ![r] = n])
  BY <1>1 DEF Get
<1> QED
  BY <1>2, <1>3 DEF FigureTables

LEMMA DeleteIs ==
  ASSUME FigureTables, NEW k \in Keys, Delete(k)
  PROVE  /\ FigureTables' /\ UNCHANGED <<data, since, link, req>>
         /\ \A j \in Keys \ {k} : cache'[j] = cache[j] /\ sweep'[j] = sweep[j]
         /\ cache'[k] = IF link = "up" THEN Absent ELSE cache[k]
<1>1. /\ sweep' = [sweep EXCEPT ![k] = @ - 1] /\ sweep[k] > 0
      /\ cache' = IF link = "up" THEN [cache EXCEPT ![k] = Absent] ELSE cache
      /\ UNCHANGED <<data, since, link, req>>
  BY DEF Delete
<1>2. sweep' \in [Keys -> Nat] /\ \A j \in Keys \ {k} : sweep'[j] = sweep[j]
  BY <1>1 DEF FigureTables
<1>3. /\ DOMAIN cache' = Keys /\ \A j \in Keys \ {k} : cache'[j] = cache[j]
      /\ cache'[k] = IF link = "up" THEN Absent ELSE cache[k]
  BY <1>1 DEF FigureTables
<1> QED
  BY <1>1, <1>2, <1>3 DEF FigureTables

LEMMA CommitTables ==
  ASSUME FigureTables, NEW updated, NEW swept, Committed(updated, swept)
  PROVE  FigureTables'
BY DEF FigureTables, Committed

LEMMA TickTables ==
  ASSUME FigureTables, HalfMinute
  PROVE  FigureTables'
<1>1. ASSUME NEW k \in Keys, cache'[k] # Absent PROVE cache'[k] \in Figure
  BY <1>1, TickIs, AgedIs
<1> QED
  BY <1>1, TickIs DEF FigureTables

LEMMA FaultTables ==
  ASSUME FigureTables, Fault
  PROVE  /\ FigureTables' /\ UNCHANGED <<data, since, cache>>
         /\ \A r \in Readers : req'[r] = req[r] \/ req'[r].at = "idle"
<1>1. CASE Restart
  <2>1. /\ sweep' = [k \in Keys |-> 0] /\ req' = [r \in Readers |-> Idle]
        /\ UNCHANGED <<data, since, cache>>
    BY <1>1 DEF Restart
  <2>2. Idle \in Reading /\ Idle.at = "idle"
    BY DEF Reading, Idle
  <2> QED
    BY <2>1, <2>2 DEF FigureTables
<1>2. CASE Connect \/ Lose \/ Retry
  BY <1>2 DEF Connect, Lose, Retry, FigureTables
<1> QED
  BY <1>1, <1>2 DEF Fault

(* Queries shorter than half a minute: what is stored was true a moment     *)
(* ago, and grows older no faster than its entry.                           *)
Young(k) == cache[k] # Absent =>
  /\ cache[k].version <= data[k[1]] /\ cache[k].age < Ttl(k[1])
  /\ since[k[1]][cache[k].version] <= cache[k].age
JustRead(r) == req[r].at = "set" =>
  req[r].version <= data[req[r].key[1]] /\ since[req[r].key[1]][req[r].version] = 0
Current(s) == \A v \in Version : v >= data[s] => since[s][v] = 0

YoungOK ==
  /\ \A k \in Keys : Young(k)
  /\ \A r \in Readers : JustRead(r)
  /\ \A s \in Stats : Current(s)

LEMMA TtlIs == \A s : Ttl(s) \in {1, 2}
BY DEF Ttl

LEMMA SwiftStep ==
  ASSUME MaxVersion \in Nat, FigureTables, YoungOK, SwiftNext \/ UNCHANGED cacheVars
  PROVE  FigureTables' /\ YoungOK'
<1>1. CASE \E r \in Readers, k \in Keys : Get(r, k)
  <2> PICK r \in Readers, k \in Keys : Get(r, k)
    BY <1>1
  <2> QED
    BY GetIs DEF YoungOK, Young, JustRead, Current
<1>2. CASE \E r \in Readers : Query(r)
  <2> PICK r \in Readers : Query(r)
    BY <1>2
  <2>1. Asked(r) /\ FigureTables'
    BY QueryIs
  <2>2. req[r].key \in Keys /\ req[r].key[1] \in Stats
    BY <2>1, ReadingIs, KeyIs DEF Asked
  <2>3. JustRead(r)'
    <3>1. data[req[r].key[1]] \in Version
      BY <2>2 DEF FigureTables
    <3> QED
      BY <2>1, <2>2, <3>1 DEF Asked, JustRead, YoungOK, Current, Version
  <2>4. \A q \in Readers \ {r} : JustRead(q)'
    BY <2>1 DEF Asked, JustRead, YoungOK
  <2> QED
    BY <2>1, <2>3, <2>4 DEF Asked, YoungOK, Young, Current
<1>3. CASE \E r \in Readers : Set(r)
  <2> PICK r \in Readers : Set(r)
    BY <1>3
  <2>1. Stored(r) /\ FigureTables' /\ JustRead(r)
    BY SetIs DEF YoungOK
  <2>2. \A k \in Keys : Young(k)'
    <3> PICK j : j = req[r].key
      OBVIOUS
    <3>1. Young(j)'
      <4>1. j \in Keys
        BY <2>1, ReadingIs DEF Stored
      <4> QED
        BY <2>1, <4>1, TtlIs DEF Stored, Young, JustRead, YoungOK
    <3>2. \A k \in Keys \ {j} : Young(k)'
      BY <2>1 DEF Stored, Young, YoungOK
    <3> QED
      BY <3>1, <3>2
  <2>3. \A q \in Readers : JustRead(q)'
    BY <2>1 DEF Stored, JustRead, YoungOK
  <2> QED
    BY <2>1, <2>2, <2>3 DEF Stored, YoungOK, Current
<1>4. CASE Write
  <2>1. PICK updated \in SUBSET Stats, swept \in SUBSET Stats : Committed(updated, swept)
    BY <1>4, WriteIs
  <2>2. /\ data \in [Stats -> Version] /\ data' \in [Stats -> Version]
        /\ UNCHANGED <<since, cache, req>> /\ \A s \in Stats : data[s] <= data'[s]
    <3>1. data \in [Stats -> Version]
      BY DEF FigureTables
    <3>2. ASSUME NEW s \in Stats PROVE data[s] <= data'[s]
      <4>1. data[s] \in Nat /\ data'[s] = IF s \in updated THEN data[s] + 1 ELSE data[s]
        BY <2>1, <3>1 DEF Committed, Version
      <4> QED
        BY <4>1
    <3>3. data' \in [Stats -> Version] /\ UNCHANGED <<since, cache, req>>
      BY <2>1 DEF Committed
    <3> QED
      BY <3>1, <3>2, <3>3
  <2>3. FigureTables'
    BY <2>1, CommitTables
  <2>4. \A k \in Keys : Young(k)'
    <3> SUFFICES ASSUME NEW k \in Keys, cache[k] # Absent PROVE Young(k)'
      BY <2>2 DEF Young
    <3>1. cache[k].version \in Nat /\ data[k[1]] \in Nat /\ data'[k[1]] \in Nat /\ data[k[1]] <= data'[k[1]]
      BY <2>2, KeyIs DEF FigureTables, Figure, Version
    <3> QED
      BY <2>2, <3>1 DEF Young, YoungOK
  <2>5. \A r \in Readers : JustRead(r)'
    <3> SUFFICES ASSUME NEW r \in Readers, req[r].at = "set" PROVE JustRead(r)'
      BY <2>2 DEF JustRead
    <3>1. req[r].version \in Nat /\ req[r].key[1] \in Stats
      BY ReadingIs, KeyIs DEF Version
    <3>2. data[req[r].key[1]] \in Nat /\ data'[req[r].key[1]] \in Nat
      BY <2>2, <3>1 DEF Version
    <3> QED
      BY <2>2, <3>1, <3>2 DEF JustRead, YoungOK
  <2>6. \A s \in Stats : Current(s)'
    BY <2>2 DEF YoungOK, Current, Version
  <2> QED
    BY <2>3, <2>4, <2>5, <2>6 DEF YoungOK
<1>5. CASE Fault
  BY <1>5, FaultTables DEF YoungOK, Young, JustRead, Current
<1>6. CASE SwiftHalfMinute
  <2>1. HalfMinute /\ \A r \in Readers : req[r].at = "idle"
    BY <1>6 DEF SwiftHalfMinute
  <2>2. \A k \in Keys : Young(k)'
    <3> SUFFICES ASSUME NEW k \in Keys, cache'[k] # Absent PROVE Young(k)'
      BY DEF Young
    <3>1. cache'[k] = Aged(k) /\ k[1] \in Stats
      BY <2>1, TickIs, KeyIs
    <3>2. /\ cache[k] \in Figure /\ cache[k] # Absent /\ cache'[k] \in Figure
          /\ cache'[k].version = cache[k].version /\ cache[k].age + 1 # Ttl(k[1])
          /\ cache[k].age < 3 => cache'[k].age = cache[k].age + 1
      BY <3>1, AgedIs
    <3>3. Ttl(k[1]) \in {1, 2}
      BY TtlIs
    <3>4. /\ cache[k].version <= data[k[1]] /\ cache[k].age < Ttl(k[1])
          /\ since[k[1]][cache[k].version] <= cache[k].age
      BY <3>2 DEF YoungOK, Young
    <3>5. cache[k].version \in Version /\ cache[k].age \in Nat /\ data' = data
      BY <2>1, <3>2, TickIs DEF Figure
    <3>6. since'[k[1]][cache[k].version] <= since[k[1]][cache[k].version] + 1
      <4>1. since[k[1]][cache[k].version] \in {0, 1, 2, 3}
        BY <3>1, <3>5 DEF FigureTables
      <4> QED
        BY <2>1, <3>1, <3>5, <4>1, TickIs
    <3>7. /\ since[k[1]][cache[k].version] \in Nat /\ since'[k[1]][cache[k].version] \in Nat
      BY <2>1, <3>1, <3>5, TickIs DEF FigureTables
    <3> QED
      BY <3>2, <3>3, <3>4, <3>5, <3>6, <3>7 DEF Young
  <2>3. \A r \in Readers : JustRead(r)'
    BY <2>1, TickIs DEF JustRead
  <2>4. \A s \in Stats : Current(s)'
    <3> SUFFICES ASSUME NEW s \in Stats, NEW v \in Version, v >= data[s] PROVE since'[s][v] = 0
      BY <2>1, TickIs DEF Current
    <3>1. since[s][v] = 0
      BY DEF YoungOK, Current
    <3>2. ~(v < data[s])
      BY DEF FigureTables, Version
    <3> QED
      BY <2>1, <3>1, <3>2, TickIs
  <2> QED
    BY <2>1, <2>2, <2>3, <2>4, TickTables DEF YoungOK
<1>7. CASE \E k \in Keys : Delete(k)
  <2> PICK k \in Keys : Delete(k)
    BY <1>7
  <2> QED
    BY DeleteIs DEF YoungOK, Young, JustRead, Current
<1>8. CASE UNCHANGED cacheVars
  BY <1>8 DEF cacheVars, FigureTables, YoungOK, Young, JustRead, Current
<1> QED
  BY <1>1, <1>2, <1>3, <1>4, <1>5, <1>6, <1>7, <1>8 DEF SwiftNext, Read

(* Nothing fails, nobody overlaps: a figure made stale has a deletion coming. *)
FairOK ==
  /\ link \in {"connecting", "up"}
  /\ link = "connecting" => \A k \in Keys : cache[k] = Absent
  /\ \A r \in Readers : req[r].at = "set" => req[r].version = data[req[r].key[1]]
  /\ \A k \in Keys : Stale(k) => sweep[k] > 0

LEMMA FairStep ==
  ASSUME MaxVersion \in Nat, FigureTables, FairOK, SweptNext \/ UNCHANGED cacheVars
  PROVE  FigureTables' /\ FairOK'
<1>1. CASE \E r \in Readers, k \in Keys : Get(r, k)
  <2> PICK r \in Readers, k \in Keys : Get(r, k)
    BY <1>1
  <2> QED
    BY GetIs DEF FairOK, Stale
<1>2. CASE \E r \in Readers : Query(r)
  <2> PICK r \in Readers : Query(r)
    BY <1>2
  <2> QED
    BY QueryIs DEF Asked, FairOK, Stale
<1>3. CASE \E r \in Readers : Set(r)
  <2> PICK r \in Readers : Set(r)
    BY <1>3
  <2>1. Stored(r) /\ FigureTables' /\ req[r].key \in Keys
    BY SetIs, ReadingIs DEF Stored
  <2> PICK j : j = req[r].key
    OBVIOUS
  <2>2. \A k \in Keys \ {j} : Stale(k)' => sweep'[k] > 0
    BY <2>1 DEF Stored, FairOK, Stale
  <2>3. Stale(j)' => sweep'[j] > 0
    BY <2>1 DEF Stored, FairOK, Stale
  <2>4. link' = "connecting" => \A k \in Keys : cache'[k] = Absent
    BY <2>1 DEF Stored, FairOK
  <2> QED
    BY <2>1, <2>2, <2>3, <2>4 DEF Stored, FairOK
<1>4. CASE Sweeping
  <2>1. PICK updated \in SUBSET Stats, swept \in SUBSET Stats :
          Commit(updated, swept) /\ updated \subseteq swept
    <3>1. CASE CreateOrder
      BY <3>1 DEF CreateOrder
    <3>2. CASE ConfirmReceiptOrDispatch
      BY <3>2 DEF ConfirmReceiptOrDispatch, SweptByWarehouse
    <3>3. CASE Notify
      BY <3>3 DEF Notify
    <3> QED
      BY <1>4, <3>1, <3>2, <3>3 DEF Sweeping
  <2>2. Committed(updated, swept)
    BY <2>1, CommitIs
  <2>3. FigureTables'
    BY <2>2, CommitTables
  <2>4. ASSUME NEW k \in Keys, Stale(k)' PROVE sweep'[k] > 0
    <3>1. cache' = cache /\ cache[k] # Absent /\ cache[k].version # data'[k[1]] /\ k[1] \in Stats
      BY <2>2, <2>4, KeyIs DEF Committed, Stale
    <3>2. link = "up" /\ sweep[k] \in Nat
      BY <3>1 DEF FairOK, FigureTables
    <3>3. CASE k[1] \in updated
      BY <2>1, <2>2, <3>2, <3>3 DEF Committed
    <3>4. CASE k[1] \notin updated
      <4>1. data'[k[1]] = data[k[1]]
        BY <2>2, <3>1, <3>4 DEF Committed
      <4>2. sweep[k] > 0
        BY <3>1, <4>1 DEF FairOK, Stale
      <4> QED
        BY <2>2, <3>2, <4>2 DEF Committed
    <3> QED
      BY <3>3, <3>4
  <2>5. \A r \in Readers : req'[r].at # "set"
    BY <1>4, <2>2 DEF Sweeping, Committed
  <2> QED
    BY <2>2, <2>3, <2>4, <2>5 DEF Committed, FairOK
<1>5. CASE Connect /\ link' = "up"
  BY <1>5 DEF Connect, FigureTables, FairOK, Stale
<1>6. CASE HalfMinute
  <2>1. FigureTables' /\ UNCHANGED <<data, link, sweep, req>>
    BY <1>6, TickTables, TickIs
  <2>2. ASSUME NEW k \in Keys, cache'[k] # Absent
        PROVE  cache[k] # Absent /\ cache'[k].version = cache[k].version
    BY <1>6, <2>2, TickIs, AgedIs
  <2> QED
    BY <2>1, <2>2 DEF FairOK, Stale
<1>7. CASE \E k \in Keys : Delete(k)
  <2> PICK k \in Keys : Delete(k)
    BY <1>7
  <2>1. /\ FigureTables' /\ UNCHANGED <<data, link, req>>
        /\ \A j \in Keys \ {k} : cache'[j] = cache[j] /\ sweep'[j] = sweep[j]
        /\ cache'[k] = Absent
    BY DeleteIs DEF FairOK
  <2> QED
    BY <2>1 DEF FairOK, Stale
<1>8. CASE UNCHANGED cacheVars
  BY <1>8 DEF cacheVars, FigureTables, FairOK, Stale
<1> QED
  BY <1>1, <1>2, <1>3, <1>4, <1>5, <1>6, <1>7, <1>8 DEF SweptNext, Read

LEMMA InitKeeping ==
  ASSUME MaxVersion \in Nat, CacheInit
  PROVE  FigureTables /\ YoungOK /\ FairOK
<1>1. /\ data = [s \in Stats |-> 0] /\ since = [s \in Stats |-> [v \in Version |-> 0]]
      /\ cache = [k \in Keys |-> Absent] /\ link = "connecting"
      /\ \A r \in Readers : req[r].at = "idle"
  BY DEF CacheInit, Versions, Version, Idle
<1> QED
  BY <1>1, InitFigures DEF YoungOK, Young, JustRead, Current, FairOK, Stale

WeatherOK ==
  FigureTables /\ (weather = "swift" => YoungOK) /\ (weather = "fair" => FairOK)

(* In any weather the tables keep their types. *)
LEMMA AnyStep ==
  ASSUME MaxVersion \in Nat, FigureTables, CacheNext
  PROVE  FigureTables'
<1>1. CASE Read
  BY <1>1, GetIs, QueryIs, SetIs DEF Read
<1>2. CASE Write
  BY <1>2, WriteIs, CommitTables
<1>3. CASE \E k \in Keys : Delete(k)
  BY <1>3, DeleteIs
<1> QED
  BY <1>1, <1>2, <1>3, FaultTables, TickTables DEF CacheNext

(* A figure shown is never more than a minute old while queries take less   *)
(* than half of one, whatever fails and whoever deletes nothing; and when   *)
(* writers delete what they change (warehouse.service, orders.service,      *)
(* notifications.service), Redis answers and nobody overlaps, a stale       *)
(* figure is always about to be deleted.                                    *)
THEOREM StaleFiguresGo == ReadsSpec => []StaleFiguresLeave
<1> USE VersionAssumption
<1>1. ReadsInit => WeatherOK
  BY InitKeeping DEF ReadsInit, WeatherInit, WeatherOK
<1>2. WeatherOK /\ [ReadsNext]_readsVars => WeatherOK'
  <2> SUFFICES ASSUME WeatherOK, [WeatherNext]_<<cacheVars, weather>> PROVE WeatherOK'
    BY PartsStep
  <2>1. CASE weather = "outages" /\ CacheNext /\ weather' = weather
    BY <2>1, AnyStep DEF WeatherOK
  <2>2. CASE weather = "swift" /\ SwiftNext /\ weather' = weather
    BY <2>2, SwiftStep DEF WeatherOK
  <2>3. CASE weather = "fair" /\ SweptNext /\ weather' = weather
    BY <2>3, FairStep DEF WeatherOK
  <2>4. CASE UNCHANGED <<cacheVars, weather>>
    <3>1. weather' = weather /\ UNCHANGED cacheVars
      BY <2>4
    <3> QED
      BY <3>1, SwiftStep, FairStep DEF WeatherOK, cacheVars, FigureTables
  <2> QED
    BY <2>1, <2>2, <2>3, <2>4 DEF WeatherNext
<1>3. WeatherOK => StaleFiguresLeave
  <2> SUFFICES ASSUME WeatherOK PROVE StaleFiguresLeave
    OBVIOUS
  <2>1. CASE weather = "swift"
    <3>1. \A k \in Keys : cache[k] # Absent => since[k[1]][cache[k].version] < 2
      <4> SUFFICES ASSUME NEW k \in Keys, cache[k] # Absent
                   PROVE  since[k[1]][cache[k].version] < 2
        OBVIOUS
      <4>1. /\ cache[k].age < Ttl(k[1]) /\ since[k[1]][cache[k].version] <= cache[k].age
            /\ Ttl(k[1]) \in {1, 2}
        BY <2>1, TtlIs DEF WeatherOK, YoungOK, Young
      <4>2. cache[k].age \in Nat /\ since[k[1]][cache[k].version] \in Nat
        BY KeyIs DEF WeatherOK, FigureTables, Figure
      <4> QED
        BY <4>1, <4>2
    <3> QED
      BY <2>1, <3>1 DEF StaleFiguresLeave, AtMostAMinuteOld
  <2>2. CASE weather = "fair"
    BY <2>2 DEF WeatherOK, FairOK, StaleFiguresLeave, StaleIsBeingDeleted
  <2> QED
    BY <2>1, <2>2 DEF StaleFiguresLeave
<1> QED
  BY <1>1, <1>2, <1>3, PTL DEF ReadsSpec

-----------------------------------------------------------------------------
(* The history of a trip code (TripTimeline). *)
Words == {"SAVED", "SHIPPED", "CANCELLED", "RECEIVED", "ROLLED_BACK"}
Row == [order : Orders, kind : {"OUTBOUND", "INBOUND"}, status : {"PENDING", "IN_TRANSIT", "COMPLETED"},
        note : BOOLEAN, born : Nat, touched : Nat, live : BOOLEAN]
Voucher == [order : Orders, kind : {"OUTBOUND", "INBOUND"}, at : Nat, live : BOOLEAN]

TripTables ==
  /\ now \in Nat
  /\ lines \in Seq(Row) /\ invoices \in Seq(Voucher) /\ closed \in BOOLEAN
  /\ told \in Seq([what : Words, at : Nat])

SomeLive(rows) == \E i \in DOMAIN rows : rows[i].live
Planned(rows) == \A i \in DOMAIN rows : rows[i].live => rows[i].status = "PENDING"
Moved(rows) == \A i \in DOMAIN rows : rows[i].live => rows[i].status \in {"COMPLETED", "IN_TRANSIT"}

(* The lines of the trip, its stop and the last thing done agree. *)
TripOK ==
  /\ closed => SomeLive(lines) /\ Moved(lines)
  /\ ~closed => Planned(lines) /\ ~SomeLive(invoices)
  /\ told # <<>> =>
       /\ Last(told).what \in {"SAVED", "ROLLED_BACK"} => ~closed /\ SomeLive(lines)
       /\ Last(told).what \in {"SHIPPED", "RECEIVED"} => closed
       /\ Last(told).what = "CANCELLED" => ~SomeLive(lines)

(* One row for each order of a note. *)
LEMMA SetToSeqIs ==
  ASSUME NEW S, IsFiniteSet(S)
  PROVE  Cardinality(S) \in Nat /\ SetToSeq(S) \in [1 .. Cardinality(S) -> S]
<1>1. Cardinality(S) \in Nat /\ ExistsBijection(1 .. Cardinality(S), S)
  BY FS_CardinalityType
<1>2. \E f \in [1 .. Cardinality(S) -> S] : IsInjective(f)
  BY <1>1 DEF ExistsBijection, Bijection, Injection, IsInjective
<1> QED
  BY <1>1, <1>2 DEF SetToSeq

LEMMA LinesAre ==
  ASSUME TripTables, NEW S \in SUBSET Orders, IsFiniteSet(S), NEW kind \in {"OUTBOUND", "INBOUND"},
         NEW status \in {"PENDING", "IN_TRANSIT", "COMPLETED"}
  PROVE  /\ Lines(S, kind, status) \in Seq(Row)
         /\ S # {} => SomeLive(Lines(S, kind, status))
         /\ status = "PENDING" => Planned(Lines(S, kind, status))
         /\ status # "PENDING" => Moved(Lines(S, kind, status))
<1> DEFINE s == SetToSeq(S)
           n == Cardinality(S)
           L == [i \in DOMAIN s |-> Line(s[i], kind, status)]
<1>1. n \in Nat /\ s \in [1 .. n -> S] /\ (S # {} => n > 0)
  BY SetToSeqIs, FS_EmptySet
<1>2. Lines(S, kind, status) = L
  BY DEF Lines
<1> HIDE DEF s, n
<1>3. ASSUME NEW i \in 1 .. n
      PROVE  L[i] \in Row /\ L[i].status = status /\ L[i].live = TRUE
  BY <1>1 DEF Line, Row, TripTables
<1>4. DOMAIN L = 1 .. n
  BY <1>1
<1> HIDE DEF L
<1>5. L \in Seq(Row)
  <2>1. L \in [1 .. n -> Row]
    BY <1>3, <1>4 DEF L
  <2> QED
    BY <1>1, <2>1, SeqDef
<1>6. S # {} => SomeLive(L)
  <2> SUFFICES ASSUME S # {} PROVE SomeLive(L)
    OBVIOUS
  <2>1. 1 \in 1 .. n
    BY <1>1
  <2> QED
    BY <1>3, <1>4, <2>1 DEF SomeLive
<1>7. (status = "PENDING" => Planned(L)) /\ (status # "PENDING" => Moved(L))
  BY <1>3, <1>4 DEF Planned, Moved
<1> QED
  BY <1>2, <1>5, <1>6, <1>7, Zenon

LEMMA ConcatRows ==
  ASSUME NEW T, NEW a \in Seq(T), NEW b \in Seq(T)
  PROVE  /\ a \o b \in Seq(T)
         /\ SomeLive(b) => SomeLive(a \o b)
         /\ SomeLive(a) => SomeLive(a \o b)
         /\ Planned(a) /\ Planned(b) => Planned(a \o b)
         /\ Moved(a) /\ Moved(b) => Moved(a \o b)
<1> DEFINE c == a \o b
           m == Len(a)
           n == Len(b)
<1>1. /\ c \in Seq(T) /\ m \in Nat /\ n \in Nat /\ DOMAIN a = 1 .. m /\ DOMAIN b = 1 .. n /\ DOMAIN c = 1 .. m + n
      /\ \A i \in 1 .. m : c[i] = a[i]
      /\ \A i \in 1 .. n : c[m + i] = b[i]
  BY ConcatProperties, LenProperties
<1> HIDE DEF c, m, n
<1>2. ASSUME NEW i \in 1 .. m + n, i \notin 1 .. m PROVE i - m \in 1 .. n /\ c[i] = b[i - m]
  <2>1. i - m \in 1 .. n /\ m + (i - m) = i
    BY <1>1, <1>2
  <2> QED
    BY <1>1, <2>1
<1>3. SomeLive(b) => SomeLive(c)
  <2> SUFFICES ASSUME NEW i \in 1 .. n, b[i].live PROVE SomeLive(c)
    BY <1>1 DEF SomeLive
  <2>1. m + i \in 1 .. m + n /\ c[m + i] = b[i]
    BY <1>1
  <2> QED
    BY <1>1, <2>1 DEF SomeLive
<1>4. SomeLive(a) => SomeLive(c)
  <2> SUFFICES ASSUME NEW i \in 1 .. m, a[i].live PROVE SomeLive(c)
    BY <1>1 DEF SomeLive
  <2>1. i \in 1 .. m + n /\ c[i] = a[i]
    BY <1>1
  <2> QED
    BY <1>1, <2>1 DEF SomeLive
<1>5. Planned(a) /\ Planned(b) => Planned(c)
  <2> SUFFICES ASSUME Planned(a), Planned(b), NEW i \in 1 .. m + n, c[i].live PROVE c[i].status = "PENDING"
    BY <1>1 DEF Planned
  <2>1. CASE i \in 1 .. m
    BY <1>1, <2>1 DEF Planned
  <2>2. CASE i \notin 1 .. m
    <3>1. i - m \in DOMAIN b /\ c[i] = b[i - m]
      BY <1>1, <1>2, <2>2
    <3> QED
      BY <3>1 DEF Planned
  <2> QED
    BY <2>1, <2>2
<1>6. Moved(a) /\ Moved(b) => Moved(c)
  <2> SUFFICES ASSUME Moved(a), Moved(b), NEW i \in 1 .. m + n, c[i].live
               PROVE  c[i].status \in {"COMPLETED", "IN_TRANSIT"}
    BY <1>1 DEF Moved
  <2>1. CASE i \in 1 .. m
    BY <1>1, <2>1 DEF Moved
  <2>2. CASE i \notin 1 .. m
    BY <1>1, <1>2, <2>2 DEF Moved
  <2> QED
    BY <2>1, <2>2
<1> QED
  BY <1>1, <1>3, <1>4, <1>5, <1>6 DEF c

LEMMA RowsOf ==
  ASSUME NEW T, NEW rows \in Seq(T), NEW new, DOMAIN new = DOMAIN rows, \A i \in DOMAIN rows : new[i] \in T,
         new = [i \in DOMAIN rows |-> new[i]]
  PROVE  new \in Seq(T)
<1>1. Len(rows) \in Nat /\ DOMAIN rows = 1 .. Len(rows)
  BY LenProperties
<1>2. new \in [1 .. Len(rows) -> T]
  BY <1>1
<1> QED
  BY <1>1, <1>2, SeqDef

(* The lines a handler takes out, reopens, or keeps. *)
LEMMA AllDropped ==
  ASSUME TripTables
  PROVE  /\ Change(lines, Orders, Dropped) \in Seq(Row)
         /\ ~SomeLive(Change(lines, Orders, Dropped))
<1> DEFINE C == [i \in DOMAIN lines |-> IF lines[i].live /\ lines[i].order \in Orders
                                       THEN [lines[i] EXCEPT !.live = FALSE, !.touched = now] ELSE lines[i]]
<1>1. Change(lines, Orders, Dropped) = C
  BY DEF Change, Dropped
<1>2. ASSUME NEW i \in DOMAIN lines PROVE C[i] \in Row /\ ~C[i].live
  <2>1. lines[i] \in Row /\ now \in Nat
    BY ElementOfSeq, LenProperties DEF TripTables
  <2> QED
    BY <2>1 DEF Row
<1>3. DOMAIN C = DOMAIN lines /\ C = [i \in DOMAIN lines |-> C[i]]
  OBVIOUS
<1> HIDE DEF C
<1>4. C \in Seq(Row)
  BY <1>2, <1>3, RowsOf DEF TripTables
<1> QED
  BY <1>1, <1>2, <1>3, <1>4 DEF SomeLive

LEMMA AllReopened ==
  ASSUME TripTables
  PROVE  /\ Change(lines, Orders, Reopened) \in Seq(Row)
         /\ Planned(Change(lines, Orders, Reopened))
         /\ SomeLive(lines) => SomeLive(Change(lines, Orders, Reopened))
<1> DEFINE C == [i \in DOMAIN lines |-> IF lines[i].live /\ lines[i].order \in Orders
                                       THEN [lines[i] EXCEPT !.status = "PENDING", !.touched = now] ELSE lines[i]]
<1>1. Change(lines, Orders, Reopened) = C
  BY DEF Change, Reopened
<1>2. ASSUME NEW i \in DOMAIN lines
      PROVE  C[i] \in Row /\ (C[i].live => C[i].status = "PENDING") /\ (lines[i].live => C[i].live)
  <2>1. lines[i] \in Row /\ now \in Nat
    BY ElementOfSeq, LenProperties DEF TripTables
  <2> QED
    BY <2>1 DEF Row
<1>3. DOMAIN C = DOMAIN lines /\ C = [i \in DOMAIN lines |-> C[i]]
  OBVIOUS
<1> HIDE DEF C
<1>4. C \in Seq(Row)
  BY <1>2, <1>3, RowsOf DEF TripTables
<1>5. SomeLive(lines) => SomeLive(C)
  BY <1>2, <1>3 DEF SomeLive
<1>6. Planned(C)
  BY <1>2, <1>3 DEF Planned
<1> QED
  BY <1>1, <1>4, <1>5, <1>6

(* A receiving note is saved or confirmed: the lines it lists stay. *)
LEMMA NoteListed ==
  ASSUME TripTables, NEW S \in SUBSET Orders, IsFiniteSet(S), S # {}
  PROVE  /\ Listed(S, "PENDING", Touched) \in Seq(Row)
         /\ SomeLive(Listed(S, "PENDING", Touched))
         /\ Planned(lines) => Planned(Listed(S, "PENDING", Touched))
         /\ Listed(S, "COMPLETED", Received) \in Seq(Row)
         /\ SomeLive(Listed(S, "COMPLETED", Received))
         /\ Moved(Listed(S, "COMPLETED", Received))
<1> DEFINE D == [i \in DOMAIN lines |-> IF lines[i].live /\ lines[i].order \in Orders \ S
                                       THEN [lines[i] EXCEPT !.live = FALSE, !.touched = now] ELSE lines[i]]
           T == [i \in DOMAIN D |-> IF D[i].live /\ D[i].order \in S
                                   THEN [D[i] EXCEPT !.touched = now] ELSE D[i]]
           R == [i \in DOMAIN D |-> IF D[i].live /\ D[i].order \in S
                                   THEN [D[i] EXCEPT !.status = "COMPLETED", !.touched = now] ELSE D[i]]
           new(status) == Lines(S \ LiveOrders, "INBOUND", status)
<1>1. /\ Listed(S, "PENDING", Touched) = T \o new("PENDING")
      /\ Listed(S, "COMPLETED", Received) = R \o new("COMPLETED")
  BY DEF Listed, Change, Touched, Received, Dropped
<1>2. ASSUME NEW i \in DOMAIN lines
      PROVE  /\ D[i] \in Row /\ (D[i].live => lines[i].live /\ D[i] = lines[i] /\ D[i].order \in S)
             /\ lines[i].live /\ lines[i].order \in S => D[i].live
  <2>1. lines[i] \in Row /\ now \in Nat
    BY ElementOfSeq, LenProperties DEF TripTables
  <2> QED
    BY <2>1 DEF Row
<1>3. DOMAIN D = DOMAIN lines /\ now \in Nat
  BY DEF TripTables
<1> HIDE DEF D
<1>4. ASSUME NEW i \in DOMAIN lines
      PROVE  /\ T[i] \in Row /\ R[i] \in Row
             /\ T[i].live => lines[i].live /\ T[i].status = lines[i].status
             /\ R[i].live => R[i].status = "COMPLETED"
             /\ lines[i].live /\ lines[i].order \in S => T[i].live /\ R[i].live
  BY <1>2, <1>3 DEF Row
<1>5. /\ DOMAIN T = DOMAIN lines /\ T = [i \in DOMAIN lines |-> T[i]]
      /\ DOMAIN R = DOMAIN lines /\ R = [i \in DOMAIN lines |-> R[i]]
  BY <1>3
<1> HIDE DEF T, R
<1>6. T \in Seq(Row) /\ R \in Seq(Row)
  BY <1>4, <1>5, RowsOf DEF TripTables
<1>7. (Planned(lines) => Planned(T)) /\ Moved(R)
  BY <1>4, <1>5 DEF Planned, Moved
<1>8. /\ new("PENDING") \in Seq(Row) /\ new("COMPLETED") \in Seq(Row)
      /\ Planned(new("PENDING")) /\ Moved(new("COMPLETED"))
      /\ S \ LiveOrders # {} => SomeLive(new("PENDING")) /\ SomeLive(new("COMPLETED"))
  <2>1. IsFiniteSet(S \ LiveOrders) /\ S \ LiveOrders \in SUBSET Orders
    BY FS_Subset
  <2> QED
    BY <2>1, LinesAre
<1>9. S \ LiveOrders = {} => SomeLive(T) /\ SomeLive(R)
  <2> SUFFICES ASSUME S \subseteq LiveOrders PROVE SomeLive(T) /\ SomeLive(R)
    OBVIOUS
  <2>1. PICK i \in DOMAIN lines : lines[i].live /\ lines[i].order \in S
    BY DEF LiveOrders, Live
  <2> QED
    BY <1>4, <1>5, <2>1 DEF SomeLive
<1> HIDE DEF new
<1>10. T \o new("PENDING") \in Seq(Row) /\ R \o new("COMPLETED") \in Seq(Row)
  BY <1>6, <1>8, ConcatRows
<1>11. SomeLive(T \o new("PENDING")) /\ SomeLive(R \o new("COMPLETED"))
  BY <1>6, <1>8, <1>9, ConcatRows
<1>12. (Planned(lines) => Planned(T \o new("PENDING"))) /\ Moved(R \o new("COMPLETED"))
  BY <1>6, <1>7, <1>8, ConcatRows
<1> QED
  BY <1>1, <1>10, <1>11, <1>12

LEMMA VouchersAre ==
  ASSUME TripTables, NEW S \in SUBSET Orders, IsFiniteSet(S), NEW kind \in {"OUTBOUND", "INBOUND"}
  PROVE  Invoices(S, kind) \in Seq(Voucher)
<1> DEFINE s == SetToSeq(S)
           n == Cardinality(S)
           L == [i \in DOMAIN s |-> [order |-> s[i], kind |-> kind, at |-> now, live |-> TRUE]]
<1>1. n \in Nat /\ s \in [1 .. n -> S]
  BY SetToSeqIs
<1>2. Invoices(S, kind) = L
  BY DEF Invoices
<1> HIDE DEF s, n
<1>3. L \in [1 .. n -> Voucher]
  BY <1>1 DEF Voucher, TripTables
<1> HIDE DEF L
<1> QED
  BY <1>1, <1>2, <1>3, SeqDef

(* One thing is done, and the trip is left as its word says. *)
LEMMA OneMore ==
  ASSUME TripTables, NEW w \in Words, Done(w),
         lines' \in Seq(Row), invoices' \in Seq(Voucher), closed' \in BOOLEAN,
         closed' => SomeLive(lines') /\ Moved(lines'),
         ~closed' => Planned(lines') /\ ~SomeLive(invoices'),
         w \in {"SAVED", "ROLLED_BACK"} => ~closed' /\ SomeLive(lines'),
         w \in {"SHIPPED", "RECEIVED"} => closed',
         w = "CANCELLED" => ~SomeLive(lines')
  PROVE  TripTables' /\ TripOK'
<1> DEFINE T == [what : Words, at : Nat]
<1> PICK m : m = [what |-> w, at |-> now]
  OBVIOUS
<1>1. m \in T /\ told \in Seq(T) /\ told' = Append(told, m) /\ now' = now /\ now \in Nat /\ m.what = w
  BY DEF Done, TripTables
<1> HIDE DEF T
<1>2. told' \in Seq(T) /\ told' # <<>> /\ told'[Len(told')] = m
  BY <1>1, AppendProperties
<1>3. Last(told)' = m
  BY <1>2 DEF Last
<1>4. TripTables'
  BY <1>1, <1>2 DEF TripTables, T
<1>5. TripOK'
  BY <1>1, <1>2, <1>3 DEF TripOK
<1> QED
  BY <1>4, <1>5

(* What TripOK says of a trip before an operation. *)
LEMMA BeforeIs ==
  ASSUME TripTables, TripOK
  PROVE  /\ Live # {} <=> SomeLive(lines)
         /\ Fresh => ~closed
         /\ IsNote => ~closed
         /\ (\E i \in Live : lines[i].status = "PENDING") => ~closed
<1>1. Live # {} <=> SomeLive(lines)
  BY DEF Live, SomeLive
<1>2. Fresh => ~SomeLive(lines)
  BY DEF Fresh, SomeLive
<1>3. \A i \in Live : i \in DOMAIN lines /\ lines[i].live
  BY DEF Live
<1>4. (\E i \in Live : lines[i].status = "PENDING") => ~closed
  BY <1>3 DEF TripOK, Moved
<1>5. IsNote => \E i \in Live : lines[i].status = "PENDING"
  BY DEF IsNote
<1> QED
  BY <1>1, <1>2, <1>4, <1>5 DEF TripOK

LEMMA ForwardStep ==
  ASSUME IsFiniteSet(Orders), TripTables, TripOK, ForwardNext
  PROVE  TripTables' /\ TripOK'
<1> DEFINE C == Change(lines, Orders, Dropped)
<1>1. C \in Seq(Row) /\ ~SomeLive(C) /\ Planned(C) /\ Moved(C)
  BY AllDropped DEF SomeLive, Planned, Moved
<1> HIDE DEF C
<1>2. lines \in Seq(Row) /\ invoices \in Seq(Voucher) /\ closed \in BOOLEAN /\ now \in Nat
  BY DEF TripTables
<1>3. CASE Tick
  <2>1. now' = now + 1 /\ UNCHANGED <<lines, invoices, closed, told>>
    BY <1>3 DEF Tick, tables
  <2> QED
    BY <2>1 DEF TripTables, TripOK, Last
<1>4. CASE \E o \in Orders : ReceiveElsewhere(o) \/ EditOrder(o)
  <2>1. UNCHANGED <<now, lines, invoices, closed, told>>
    BY <1>4 DEF ReceiveElsewhere, EditOrder
  <2> QED
    BY <2>1 DEF TripTables, TripOK, Last
<1>5. CASE CancelNote
  <2>1. Done("CANCELLED") /\ lines' = C /\ UNCHANGED <<invoices, closed>> /\ ~closed
    BY <1>5, BeforeIs DEF CancelNote, C
  <2>2. ~SomeLive(invoices) /\ "CANCELLED" \in Words
    BY <2>1 DEF TripOK, Words
  <2> QED
    BY <1>1, <1>2, <2>1, <2>2, OneMore
<1>6. ASSUME NEW S \in Items,
             \/ SaveNote(S) \/ ConfirmNote(S) \/ IntakeDraft(S)
             \/ Intake(S) \/ SaveReceipt(S) \/ Receive(S)
      PROVE  TripTables' /\ TripOK'
  <2>1. S \in SUBSET Orders /\ S # {} /\ IsFiniteSet(S)
    BY FS_Subset DEF Items
  <2> DEFINE L(kind, status) == Lines(S, kind, status)
  <2>2. ASSUME NEW kind \in {"OUTBOUND", "INBOUND"}, NEW status \in {"PENDING", "IN_TRANSIT", "COMPLETED"}
        PROVE  /\ L(kind, status) \in Seq(Row) /\ SomeLive(L(kind, status))
               /\ status = "PENDING" => Planned(L(kind, status))
               /\ status # "PENDING" => Moved(L(kind, status))
    BY <2>1, LinesAre
  <2>3. ASSUME NEW kind \in {"OUTBOUND", "INBOUND"}
        PROVE  /\ Invoices(S, kind) \in Seq(Voucher)
               /\ invoices \o Invoices(S, kind) \in Seq(Voucher)
    BY <1>2, <2>1, VouchersAre, ConcatProperties
  <2> HIDE DEF L
  <2>4. CASE SaveNote(S)
    <3>1. /\ Done("SAVED") /\ lines' = C \o L("OUTBOUND", "PENDING")
          /\ UNCHANGED <<invoices, closed>> /\ ~closed
      BY <2>4, BeforeIs DEF SaveNote, C, L
    <3>2. /\ C \o L("OUTBOUND", "PENDING") \in Seq(Row) /\ SomeLive(C \o L("OUTBOUND", "PENDING"))
          /\ Planned(C \o L("OUTBOUND", "PENDING"))
      BY <1>1, <2>2, ConcatRows
    <3>3. ~SomeLive(invoices) /\ "SAVED" \in Words
      BY <3>1 DEF TripOK, Words
    <3> QED
      BY <1>2, <3>1, <3>2, <3>3, OneMore
  <2>5. CASE ConfirmNote(S)
    <3>1. /\ Done("SHIPPED") /\ lines' = C \o L("OUTBOUND", "IN_TRANSIT")
          /\ invoices' = invoices \o Invoices(S, "OUTBOUND") /\ closed' = TRUE
      BY <2>5 DEF ConfirmNote, C, L
    <3>2. /\ C \o L("OUTBOUND", "IN_TRANSIT") \in Seq(Row) /\ SomeLive(C \o L("OUTBOUND", "IN_TRANSIT"))
          /\ Moved(C \o L("OUTBOUND", "IN_TRANSIT"))
      BY <1>1, <2>2, ConcatRows
    <3>3. "SHIPPED" \in Words /\ invoices' \in Seq(Voucher)
      BY <2>3, <3>1 DEF Words
    <3> QED
      BY <3>1, <3>2, <3>3, OneMore
  <2>6. CASE IntakeDraft(S)
    <3>1. /\ Done("SAVED") /\ lines' = L("INBOUND", "PENDING")
          /\ UNCHANGED <<invoices, closed>> /\ ~closed
      BY <2>6, BeforeIs DEF IntakeDraft, L
    <3>2. ~SomeLive(invoices) /\ "SAVED" \in Words
      BY <3>1 DEF TripOK, Words
    <3> QED
      BY <1>2, <2>2, <3>1, <3>2, OneMore
  <2>7. CASE Intake(S)
    <3>1. /\ Done("RECEIVED") /\ lines' = L("INBOUND", "COMPLETED")
          /\ invoices' = Invoices(S, "INBOUND") /\ closed' = TRUE
      BY <2>7 DEF Intake, L
    <3>2. "RECEIVED" \in Words /\ invoices' \in Seq(Voucher)
      BY <2>3, <3>1 DEF Words
    <3> QED
      BY <2>2, <3>1, <3>2, OneMore
  <2>8. CASE SaveReceipt(S)
    <3> DEFINE N == Listed(S, "PENDING", Touched)
    <3>1. Done("SAVED") /\ lines' = N /\ UNCHANGED <<invoices, closed>> /\ ~closed
      BY <2>8 DEF SaveReceipt
    <3>2. ~SomeLive(invoices) /\ Planned(lines) /\ "SAVED" \in Words
      BY <3>1 DEF TripOK, Words
    <3>3. N \in Seq(Row) /\ SomeLive(N) /\ Planned(N)
      BY <2>1, <3>2, NoteListed
    <3> HIDE DEF N
    <3> QED
      BY <1>2, <3>1, <3>2, <3>3, OneMore
  <2>9. CASE Receive(S)
    <3> DEFINE N == Listed(S, "COMPLETED", Received)
    <3>1. /\ Done("RECEIVED") /\ lines' = N /\ closed' = TRUE
          /\ invoices' = invoices \o Invoices(S, "INBOUND")
      BY <2>9 DEF Receive
    <3>2. N \in Seq(Row) /\ SomeLive(N) /\ Moved(N)
      BY <2>1, NoteListed
    <3>3. "RECEIVED" \in Words /\ invoices' \in Seq(Voucher)
      BY <2>3, <3>1 DEF Words
    <3> HIDE DEF N
    <3> QED
      BY <3>1, <3>2, <3>3, OneMore
  <2> QED
    BY <1>6, <2>4, <2>5, <2>6, <2>7, <2>8, <2>9
<1> QED
  BY <1>3, <1>4, <1>5, <1>6 DEF ForwardNext

LEMMA CancelReceiptStep ==
  ASSUME TripTables, TripOK, CancelReceipt
  PROVE  TripTables' /\ TripOK'
<1> PICK C : C = [i \in DOMAIN lines |-> IF lines[i].live /\ lines[i].status = "PENDING"
                                       THEN [lines[i] EXCEPT !.live = FALSE] ELSE lines[i]]
  OBVIOUS
<1>1. Done("CANCELLED") /\ lines' = C /\ UNCHANGED <<invoices, closed>> /\ ~closed
  BY BeforeIs DEF CancelReceipt
<1>2. ~SomeLive(invoices) /\ Planned(lines) /\ "CANCELLED" \in Words
  BY <1>1 DEF TripOK, Words
<1>3. ASSUME NEW i \in DOMAIN lines PROVE C[i] \in Row /\ ~C[i].live
  <2>1. lines[i] \in Row /\ now \in Nat
    BY ElementOfSeq, LenProperties DEF TripTables
  <2>2. lines[i].live => lines[i].status = "PENDING"
    BY <1>2 DEF Planned
  <2> QED
    BY <2>1, <2>2 DEF Row
<1>4. C \in Seq(Row) /\ DOMAIN C = DOMAIN lines
  <2>1. DOMAIN C = DOMAIN lines /\ C = [i \in DOMAIN lines |-> C[i]]
    OBVIOUS
  <2> QED
    BY <1>3, <2>1, RowsOf DEF TripTables
<1>5. ~SomeLive(C) /\ Planned(C)
  BY <1>3, <1>4 DEF SomeLive, Planned
<1>6. invoices' \in Seq(Voucher) /\ closed' \in BOOLEAN
  BY <1>1 DEF TripTables
<1> QED
  BY <1>1, <1>2, <1>4, <1>5, <1>6, OneMore

LEMMA TripRolledBack ==
  ASSUME TripTables, TripOK, Rollback
  PROVE  TripTables' /\ TripOK'
<1> PICK B : B = [i \in DOMAIN invoices |-> [invoices[i] EXCEPT !.live = FALSE]]
  OBVIOUS
<1> DEFINE C == Change(lines, Orders, Reopened)
<1>1. Done("ROLLED_BACK") /\ lines' = C /\ invoices' = B /\ closed' = FALSE /\ SomeLive(lines)
  BY BeforeIs DEF Rollback
<1>2. C \in Seq(Row) /\ Planned(C) /\ SomeLive(C)
  BY <1>1, AllReopened
<1>3. ASSUME NEW i \in DOMAIN invoices PROVE B[i] \in Voucher /\ ~B[i].live
  <2>1. invoices[i] \in Voucher
    BY ElementOfSeq, LenProperties DEF TripTables
  <2> QED
    BY <2>1 DEF Voucher
<1>4. B \in Seq(Voucher) /\ ~SomeLive(B)
  <2>1. DOMAIN B = DOMAIN invoices /\ B = [i \in DOMAIN invoices |-> B[i]]
    OBVIOUS
  <2> QED
    BY <1>3, <2>1, RowsOf DEF TripTables, SomeLive
<1> HIDE DEF C
<1>5. "ROLLED_BACK" \in Words
  BY DEF Words
<1> QED
  BY <1>1, <1>2, <1>4, <1>5, OneMore

LEMMA InitTrip == Init => TripTables /\ TripOK
<1> SUFFICES ASSUME Init PROVE TripTables /\ TripOK
  OBVIOUS
<1>1. now = 0 /\ lines = <<>> /\ invoices = <<>> /\ closed = FALSE /\ told = <<>>
  BY DEF Init
<1>2. TripTables
  BY <1>1, EmptySeq DEF TripTables
<1>3. Planned(<<>>) /\ ~SomeLive(<<>>)
  BY DEF Planned, SomeLive
<1> QED
  BY <1>1, <1>2, <1>3 DEF TripOK

LEMMA TripStep ==
  ASSUME IsFiniteSet(Orders), TripTables, TripOK, [Next]_vars
  PROVE  TripTables' /\ TripOK'
<1>1. CASE UNCHANGED vars
  <2>1. UNCHANGED <<now, lines, invoices, closed, told>>
    BY <1>1 DEF vars, tables
  <2> QED
    BY <2>1 DEF TripTables, TripOK, Last
<1> QED
  BY <1>1, ForwardStep, CancelReceiptStep, TripRolledBack DEF Next

(* The state getTripHistory shows is what the last operation left, through  *)
(* saves, receipts, dispatches, cancellations and rollbacks in any order:   *)
(* it is derived from lines, invoices and the stop, which the handlers of   *)
(* warehouse.service change separately.                                     *)
THEOREM ShownStatusIsTrue ==
  ASSUME IsFiniteSet(Orders)
  PROVE  Spec \/ ReadsSpec => []StatusIsTrue
<1>1. TripTables /\ TripOK => StatusIsTrue
  <2> SUFFICES ASSUME TripTables, TripOK, told # <<>> PROVE StatusIsTrue
    BY DEF StatusIsTrue
  <2>1. Last(told).what \in Words
    <3> DEFINE T == [what : Words, at : Nat]
    <3>1. told \in Seq(T)
      BY DEF TripTables
    <3>2. \A x \in T : x.what \in Words
      OBVIOUS
    <3> HIDE DEF T
    <3>3. Len(told) \in 1 .. Len(told)
      BY <3>1, EmptySeq
    <3>4. told[Len(told)] \in T
      BY <3>1, <3>3, ElementOfSeq
    <3> QED
      BY <3>2, <3>4 DEF Last
  <2>2. Live = {i \in DOMAIN lines : lines[i].live} /\ (Live # {} <=> SomeLive(lines))
    BY BeforeIs DEF Live
  <2>3. ~SomeLive(lines) => Status = "CANCELLED"
    BY <2>2 DEF Status
  <2>4. closed => Status = "COMPLETED"
    BY <2>2 DEF Status, TripOK
  <2>5. ~closed /\ SomeLive(lines) => Status = "PENDING"
    <3> SUFFICES ASSUME ~closed, SomeLive(lines) PROVE Status = "PENDING"
      OBVIOUS
    <3>1. LiveInvoices = {}
      BY DEF TripOK, SomeLive, LiveInvoices
    <3>2. \A i \in Live : lines[i].status = "PENDING"
      BY <2>2 DEF TripOK, Planned
    <3> QED
      BY <2>2, <3>1, <3>2 DEF Status
  <2> QED
    BY <2>1, <2>3, <2>4, <2>5 DEF TripOK, StatusIsTrue, Words
<1>2. ReadsSpec => Init /\ [][Next]_vars
  <2>1. ReadsInit => Init
    BY DEF ReadsInit, HandsInit
  <2>2. [ReadsNext]_readsVars => [Next]_vars
    BY PartsStep DEF HandsNext, Next
  <2> QED
    BY <2>1, <2>2, PTL DEF ReadsSpec
<1>3. TripTables /\ TripOK /\ [Next]_vars => (TripTables /\ TripOK)'
  BY TripStep
<1> QED
  BY <1>1, <1>2, <1>3, InitTrip, PTL DEF Spec


-----------------------------------------------------------------------------
(* What the rows tell of the times at which the trip was worked on. *)
TimesOf(what) == {told[i].at : i \in {j \in DOMAIN told : told[j].what = what}}
LaterSaves == {told[i].at : i \in {j \in DOMAIN told : j > 1 /\ told[j].what = "SAVED"}}
NoteTimes(rows) == {rows[i].born : i \in {j \in DOMAIN rows : rows[j].note \/ rows[j].status = "PENDING"}}
VoucherTimes(rows) == {rows[i].at : i \in {j \in DOMAIN rows : rows[j].live}}
AllOf(rows, kind) == \A i \in DOMAIN rows : rows[i].kind = kind
TouchedIn(rows, times) == \A i \in DOMAIN rows : rows[i].touched \in times
ToldTimes == {told[i].at : i \in DOMAIN told}

(* People leave three ticks between two operations, and only the last one   *)
(* is not a save.                                                           *)
AtPace ==
  /\ \A i, j \in DOMAIN told : i < j => told[j].at >= told[i].at + 3
  /\ \A i \in DOMAIN told : told[i].at <= now
  /\ \A i \in DOMAIN told : i < Len(told) => told[i].what = "SAVED"
  /\ told = <<>> <=> lines = <<>>
LogsTold ==
  /\ LogTimes("CANCELLED") = TimesOf("CANCELLED")
  /\ LogTimes("ROLLED_BACK") = {} /\ TimesOf("ROLLED_BACK") = {}
  /\ VoucherTimes(invoices) = TimesOf("SHIPPED") \cup TimesOf("RECEIVED")
OutboundTold ==
  /\ AllOf(lines, "OUTBOUND")
  /\ NoteTimes(lines) = TimesOf("SAVED")
  /\ TimesOf("RECEIVED") = {} /\ LogTimes("SAVED") = {}
InboundTold ==
  /\ AllOf(lines, "INBOUND")
  /\ told # <<>> => lines[1].born = told[1].at
  /\ LogTimes("SAVED") = LaterSaves
  /\ TouchedIn(lines, ToldTimes)
  /\ told # <<>> /\ ~closed => upserted \in ToldTimes
  /\ TimesOf("SHIPPED") = {} /\ TimesOf("CANCELLED") = {}
HistoryOK == AtPace /\ LogsTold /\ (OutboundTold \/ InboundTold)

(* The lines of a note all carry the time of the note. *)
LEMMA LinesTold ==
  ASSUME TripTables, NEW S \in SUBSET Orders, IsFiniteSet(S), NEW kind \in {"OUTBOUND", "INBOUND"},
         NEW status \in {"PENDING", "IN_TRANSIT", "COMPLETED"}
  PROVE  /\ AllOf(Lines(S, kind, status), kind)
         /\ TouchedIn(Lines(S, kind, status), {now})
         /\ S # {} => Lines(S, kind, status) # <<>> /\ Lines(S, kind, status)[1].born = now
         /\ status # "PENDING" => NoteTimes(Lines(S, kind, status)) = {}
         /\ status = "PENDING" /\ S # {} => NoteTimes(Lines(S, kind, status)) = {now}
<1> DEFINE s == SetToSeq(S)
           n == Cardinality(S)
           L == [i \in DOMAIN s |-> Line(s[i], kind, status)]
<1>1. n \in Nat /\ s \in [1 .. n -> S] /\ (S # {} => n > 0)
  BY SetToSeqIs, FS_EmptySet
<1>2. Lines(S, kind, status) = L
  BY DEF Lines
<1> HIDE DEF s, n
<1>3. ASSUME NEW i \in 1 .. n
      PROVE  /\ L[i].kind = kind /\ L[i].status = status /\ L[i].note = (status = "PENDING")
             /\ L[i].born = now /\ L[i].touched = now
  BY <1>1 DEF Line
<1>4. DOMAIN L = 1 .. n
  BY <1>1
<1> HIDE DEF L
<1>5. AllOf(L, kind) /\ TouchedIn(L, {now})
  BY <1>3, <1>4 DEF AllOf, TouchedIn
<1>6. S # {} => L # <<>> /\ L[1].born = now
  <2> SUFFICES ASSUME S # {} PROVE L # <<>> /\ L[1].born = now
    OBVIOUS
  <2>1. 1 \in 1 .. n /\ 1 \in DOMAIN L
    BY <1>1, <1>4
  <2>2. L[1].born = now
    BY <1>3, <2>1
  <2> QED
    BY <2>1, <2>2
<1>7. status # "PENDING" => NoteTimes(L) = {}
  BY <1>3, <1>4 DEF NoteTimes
<1>8. status = "PENDING" /\ S # {} => NoteTimes(L) = {now}
  <2> SUFFICES ASSUME status = "PENDING", S # {} PROVE NoteTimes(L) = {now}
    OBVIOUS
  <2>1. 1 \in 1 .. n
    BY <1>1
  <2>2. {j \in DOMAIN L : L[j].note \/ L[j].status = "PENDING"} = 1 .. n
    BY <1>3, <1>4
  <2>3. NoteTimes(L) = {L[i].born : i \in 1 .. n}
    BY <2>2 DEF NoteTimes
  <2> QED
    BY <1>3, <2>1, <2>3
<1> QED
  BY <1>2, <1>5, <1>6, <1>7, <1>8

LEMMA ConcatTold ==
  ASSUME NEW T, NEW a \in Seq(T), NEW b \in Seq(T)
  PROVE  /\ \A kind : AllOf(a, kind) /\ AllOf(b, kind) => AllOf(a \o b, kind)
         /\ \A times : TouchedIn(a, times) /\ TouchedIn(b, times) => TouchedIn(a \o b, times)
         /\ NoteTimes(a \o b) = NoteTimes(a) \cup NoteTimes(b)
         /\ VoucherTimes(a \o b) = VoucherTimes(a) \cup VoucherTimes(b)
         /\ a # <<>> => (a \o b)[1] = a[1] /\ a \o b # <<>>
         /\ b # <<>> => a \o b # <<>>
<1> DEFINE c == a \o b
           m == Len(a)
           n == Len(b)
<1>1. /\ c \in Seq(T) /\ m \in Nat /\ n \in Nat /\ DOMAIN a = 1 .. m /\ DOMAIN b = 1 .. n /\ DOMAIN c = 1 .. m + n
      /\ \A i \in 1 .. m : c[i] = a[i]
      /\ \A i \in 1 .. n : c[m + i] = b[i]
  BY ConcatProperties, LenProperties
<1>2. (a # <<>> => m > 0) /\ (b # <<>> => n > 0)
  BY <1>1, EmptySeq
<1> HIDE DEF c, m, n
<1>3. ASSUME NEW i \in 1 .. m + n
      PROVE  (i \in 1 .. m /\ c[i] = a[i]) \/ (\E k \in 1 .. n : c[i] = b[k])
  <2>1. CASE i \in 1 .. m
    BY <1>1, <2>1
  <2>2. CASE i \notin 1 .. m
    <3>1. i - m \in 1 .. n /\ m + (i - m) = i
      BY <1>1, <2>2
    <3> QED
      BY <1>1, <3>1
  <2> QED
    BY <2>1, <2>2
<1>4. (\A i \in 1 .. m : i \in 1 .. m + n) /\ (\A i \in 1 .. n : m + i \in 1 .. m + n)
  BY <1>1
<1>5. \A kind : AllOf(a, kind) /\ AllOf(b, kind) => AllOf(c, kind)
  <2> SUFFICES ASSUME NEW kind, AllOf(a, kind), AllOf(b, kind), NEW i \in 1 .. m + n PROVE c[i].kind = kind
    BY <1>1, Zenon DEF AllOf
  <2>1. (\A k \in 1 .. m : a[k].kind = kind) /\ (\A k \in 1 .. n : b[k].kind = kind)
    BY <1>1, Zenon DEF AllOf
  <2> QED
    BY <1>3, <2>1, Zenon
<1>6. \A times : TouchedIn(a, times) /\ TouchedIn(b, times) => TouchedIn(c, times)
  BY <1>1, <1>3 DEF TouchedIn
<1>7. NoteTimes(c) = NoteTimes(a) \cup NoteTimes(b)
  <2>1. ASSUME NEW i \in 1 .. m + n, (c[i].note \/ c[i].status = "PENDING")
        PROVE  c[i].born \in NoteTimes(a) \cup NoteTimes(b)
    BY <1>1, <1>3, <2>1 DEF NoteTimes
  <2>2. ASSUME NEW i \in 1 .. m, (a[i].note \/ a[i].status = "PENDING")
        PROVE  a[i].born \in NoteTimes(c)
    BY <1>1, <1>4, <2>2 DEF NoteTimes
  <2>3. ASSUME NEW i \in 1 .. n, (b[i].note \/ b[i].status = "PENDING")
        PROVE  b[i].born \in NoteTimes(c)
    <3>1. m + i \in DOMAIN c /\ c[m + i] = b[i]
      BY <1>1, <1>4
    <3> QED
      BY <2>3, <3>1 DEF NoteTimes
  <2>4. NoteTimes(c) \subseteq NoteTimes(a) \cup NoteTimes(b)
    BY <1>1, <2>1 DEF NoteTimes
  <2>5. NoteTimes(a) \subseteq NoteTimes(c)
    BY <1>1, <2>2 DEF NoteTimes
  <2>6. NoteTimes(b) \subseteq NoteTimes(c)
    BY <1>1, <2>3 DEF NoteTimes
  <2> QED
    BY <2>4, <2>5, <2>6
<1>8. VoucherTimes(c) = VoucherTimes(a) \cup VoucherTimes(b)
  <2>1. ASSUME NEW i \in 1 .. m + n, c[i].live
        PROVE  c[i].at \in VoucherTimes(a) \cup VoucherTimes(b)
    BY <1>1, <1>3, <2>1 DEF VoucherTimes
  <2>2. ASSUME NEW i \in 1 .. m, a[i].live
        PROVE  a[i].at \in VoucherTimes(c)
    BY <1>1, <1>4, <2>2 DEF VoucherTimes
  <2>3. ASSUME NEW i \in 1 .. n, b[i].live
        PROVE  b[i].at \in VoucherTimes(c)
    <3>1. m + i \in DOMAIN c /\ c[m + i] = b[i]
      BY <1>1, <1>4
    <3> QED
      BY <2>3, <3>1 DEF VoucherTimes
  <2>4. VoucherTimes(c) \subseteq VoucherTimes(a) \cup VoucherTimes(b)
    BY <1>1, <2>1 DEF VoucherTimes
  <2>5. VoucherTimes(a) \subseteq VoucherTimes(c)
    BY <1>1, <2>2 DEF VoucherTimes
  <2>6. VoucherTimes(b) \subseteq VoucherTimes(c)
    BY <1>1, <2>3 DEF VoucherTimes
  <2> QED
    BY <2>4, <2>5, <2>6
<1>9. m > 0 => c[1] = a[1] /\ c # <<>>
  <2> SUFFICES ASSUME m > 0 PROVE c[1] = a[1] /\ c # <<>>
    OBVIOUS
  <2>1. 1 \in 1 .. m /\ 1 \in DOMAIN c
    BY <1>1
  <2> QED
    BY <1>1, <2>1
<1>10. n > 0 => c # <<>>
  <2> SUFFICES ASSUME n > 0 PROVE c # <<>>
    OBVIOUS
  <2>1. m + 1 \in DOMAIN c
    BY <1>1
  <2> QED
    BY <2>1
<1> QED
  BY <1>2, <1>5, <1>6, <1>7, <1>8, <1>9, <1>10 DEF c

LEMMA DroppedTold ==
  ASSUME TripTables
  PROVE  /\ NoteTimes(Change(lines, Orders, Dropped)) = NoteTimes(lines)
         /\ \A kind : AllOf(lines, kind) => AllOf(Change(lines, Orders, Dropped), kind)
<1> DEFINE C == [i \in DOMAIN lines |-> IF lines[i].live /\ lines[i].order \in Orders
                                       THEN [lines[i] EXCEPT !.live = FALSE, !.touched = now] ELSE lines[i]]
<1>1. Change(lines, Orders, Dropped) = C
  BY DEF Change, Dropped
<1>2. ASSUME NEW i \in DOMAIN lines
      PROVE  /\ C[i].kind = lines[i].kind /\ C[i].note = lines[i].note
             /\ C[i].status = lines[i].status /\ C[i].born = lines[i].born
  <2>1. lines[i] \in Row /\ now \in Nat
    BY ElementOfSeq, LenProperties DEF TripTables
  <2> QED
    BY <2>1 DEF Row
<1>3. DOMAIN C = DOMAIN lines
  OBVIOUS
<1> HIDE DEF C
<1>4. {j \in DOMAIN C : C[j].note \/ C[j].status = "PENDING"}
      = {j \in DOMAIN lines : lines[j].note \/ lines[j].status = "PENDING"}
  BY <1>2, <1>3
<1>5. NoteTimes(C) = NoteTimes(lines)
  BY <1>2, <1>3, <1>4 DEF NoteTimes
<1>6. \A kind : AllOf(lines, kind) => AllOf(C, kind)
  BY <1>2, <1>3 DEF AllOf
<1> QED
  BY <1>1, <1>5, <1>6

LEMMA ListedTold ==
  ASSUME TripTables, NEW S \in SUBSET Orders, IsFiniteSet(S), AllOf(lines, "INBOUND"), lines # <<>>,
         NEW times, TouchedIn(lines, times), now \in times,
         NEW N, N = Listed(S, "PENDING", Touched) \/ N = Listed(S, "COMPLETED", Received)
  PROVE  /\ AllOf(N, "INBOUND") /\ TouchedIn(N, times)
         /\ N # <<>> /\ N[1].born = lines[1].born
<1> DEFINE D == [i \in DOMAIN lines |-> IF lines[i].live /\ lines[i].order \in Orders \ S
                                       THEN [lines[i] EXCEPT !.live = FALSE, !.touched = now] ELSE lines[i]]
           T == [i \in DOMAIN D |-> IF D[i].live /\ D[i].order \in S
                                   THEN [D[i] EXCEPT !.touched = now] ELSE D[i]]
           R == [i \in DOMAIN D |-> IF D[i].live /\ D[i].order \in S
                                   THEN [D[i] EXCEPT !.status = "COMPLETED", !.touched = now] ELSE D[i]]
           new(status) == Lines(S \ LiveOrders, "INBOUND", status)
<1>1. /\ Listed(S, "PENDING", Touched) = T \o new("PENDING")
      /\ Listed(S, "COMPLETED", Received) = R \o new("COMPLETED")
  BY DEF Listed, Change, Touched, Received, Dropped
<1>2. ASSUME NEW i \in DOMAIN lines
      PROVE  D[i] \in Row /\ D[i].kind = lines[i].kind /\ D[i].born = lines[i].born /\ D[i].touched \in times
  <2>1. lines[i] \in Row /\ now \in Nat /\ lines[i].touched \in times
    BY ElementOfSeq, LenProperties DEF TripTables, TouchedIn
  <2> QED
    BY <2>1 DEF Row
<1>3. DOMAIN D = DOMAIN lines /\ now \in Nat
  BY DEF TripTables
<1> HIDE DEF D
<1>4. ASSUME NEW i \in DOMAIN lines
      PROVE  /\ T[i] \in Row /\ T[i].kind = lines[i].kind /\ T[i].born = lines[i].born /\ T[i].touched \in times
             /\ R[i] \in Row /\ R[i].kind = lines[i].kind /\ R[i].born = lines[i].born /\ R[i].touched \in times
  BY <1>2, <1>3 DEF Row
<1>5. /\ DOMAIN T = DOMAIN lines /\ T = [i \in DOMAIN lines |-> T[i]]
      /\ DOMAIN R = DOMAIN lines /\ R = [i \in DOMAIN lines |-> R[i]]
  BY <1>3
<1> HIDE DEF T, R
<1>6. T \in Seq(Row) /\ R \in Seq(Row)
  BY <1>4, <1>5, RowsOf DEF TripTables
<1>7. AllOf(T, "INBOUND") /\ TouchedIn(T, times) /\ AllOf(R, "INBOUND") /\ TouchedIn(R, times)
  BY <1>4, <1>5 DEF AllOf, TouchedIn
<1>8. 1 \in DOMAIN lines /\ lines \in Seq(Row)
  <2>1. lines \in Seq(Row) /\ Len(lines) \in Nat /\ DOMAIN lines = 1 .. Len(lines) /\ Len(lines) # 0
    BY LenProperties, EmptySeq DEF TripTables
  <2> QED
    BY <2>1
<1>9. T # <<>> /\ T[1].born = lines[1].born /\ R # <<>> /\ R[1].born = lines[1].born
  BY <1>4, <1>5, <1>8
<1>10. ASSUME NEW status \in {"PENDING", "COMPLETED"}
       PROVE  new(status) \in Seq(Row) /\ AllOf(new(status), "INBOUND") /\ TouchedIn(new(status), times)
  <2>1. IsFiniteSet(S \ LiveOrders) /\ S \ LiveOrders \in SUBSET Orders
    BY FS_Subset
  <2>2. new(status) \in Seq(Row) /\ AllOf(new(status), "INBOUND") /\ TouchedIn(new(status), {now})
    BY <2>1, LinesAre, LinesTold
  <2> QED
    BY <2>2 DEF TouchedIn
<1> HIDE DEF new
<1>11. PICK X \in {T, R}, status \in {"PENDING", "COMPLETED"} : N = X \o new(status)
  BY <1>1
<1>12. X \in Seq(Row) /\ AllOf(X, "INBOUND") /\ TouchedIn(X, times) /\ X # <<>> /\ X[1].born = lines[1].born
  BY <1>6, <1>7, <1>9
<1> QED
  BY <1>10, <1>11, <1>12, ConcatTold

LEMMA VouchersTold ==
  ASSUME TripTables, NEW S \in SUBSET Orders, IsFiniteSet(S), S # {}, NEW kind \in {"OUTBOUND", "INBOUND"}
  PROVE  VoucherTimes(Invoices(S, kind)) = {now}
<1> DEFINE s == SetToSeq(S)
           n == Cardinality(S)
           L == [i \in DOMAIN s |-> [order |-> s[i], kind |-> kind, at |-> now, live |-> TRUE]]
<1>1. n \in Nat /\ s \in [1 .. n -> S] /\ n > 0
  BY SetToSeqIs, FS_EmptySet
<1>2. Invoices(S, kind) = L
  BY DEF Invoices
<1> HIDE DEF s, n
<1>3. DOMAIN L = 1 .. n /\ \A i \in 1 .. n : L[i].at = now /\ L[i].live = TRUE
  BY <1>1
<1> HIDE DEF L
<1>4. 1 \in 1 .. n
  BY <1>1
<1>5. {j \in DOMAIN L : L[j].live} = 1 .. n
  BY <1>3
<1>6. VoucherTimes(L) = {L[i].at : i \in 1 .. n}
  BY <1>5 DEF VoucherTimes
<1> QED
  BY <1>2, <1>3, <1>4, <1>6

LEMMA ToldIs ==
  ASSUME TripTables
  PROVE  /\ Len(told) \in Nat /\ DOMAIN told = 1 .. Len(told)
         /\ \A i \in DOMAIN told : told[i] \in [what : Words, at : Nat] /\ told[i].what \in Words /\ told[i].at \in Nat
         /\ told # <<>> => Len(told) \in DOMAIN told /\ 1 \in DOMAIN told /\ Last(told) = told[Len(told)]
<1> DEFINE T == [what : Words, at : Nat]
<1>1. told \in Seq(T) /\ \A x \in T : x.what \in Words /\ x.at \in Nat
  BY DEF TripTables
<1> HIDE DEF T
<1>2. Len(told) \in Nat /\ DOMAIN told = 1 .. Len(told) /\ \A i \in DOMAIN told : told[i] \in T
  BY <1>1, LenProperties, ElementOfSeq
<1>3. told # <<>> => Len(told) # 0
  BY <1>1, EmptySeq
<1> QED
  BY <1>1, <1>2, <1>3 DEF Last, T

(* The trip is worked on only while all that was done is a save. *)
LEMMA StillOpen ==
  ASSUME TripTables, TripOK, AtPace, LogsTold, Fresh \/ (~closed /\ SomeLive(lines))
  PROVE  /\ told = <<>> \/ Last(told).what = "SAVED"
         /\ \A w \in Words : w # "SAVED" => TimesOf(w) = {}
<1>1. told = <<>> \/ Last(told).what = "SAVED"
  <2> SUFFICES ASSUME told # <<>> PROVE Last(told).what = "SAVED"
    OBVIOUS
  <2>1. ~closed /\ SomeLive(lines)
    BY DEF AtPace, Fresh
  <2>2. Last(told).what \in Words /\ Last(told) = told[Len(told)] /\ Len(told) \in DOMAIN told
    BY ToldIs
  <2>3. Last(told).what # "ROLLED_BACK"
    <3>1. {told[i].at : i \in {j \in DOMAIN told : told[j].what = "ROLLED_BACK"}} = {}
      BY DEF LogsTold, TimesOf
    <3> QED
      BY <2>2, <3>1
  <2> QED
    BY <2>1, <2>2, <2>3 DEF TripOK, Words
<1>2. \A i \in DOMAIN told : told[i].what = "SAVED"
  <2> SUFFICES ASSUME NEW i \in DOMAIN told PROVE told[i].what = "SAVED"
    OBVIOUS
  <2>1. i \in 1 .. Len(told) /\ Len(told) \in Nat /\ told # <<>>
    BY ToldIs
  <2>2. CASE i < Len(told)
    BY <2>2 DEF AtPace
  <2>3. CASE i = Len(told)
    BY <1>1, <2>1, <2>3, ToldIs
  <2> QED
    BY <2>1, <2>2, <2>3
<1> QED
  BY <1>1, <1>2 DEF TimesOf

(* One more thing is done. *)
LEMMA ToldMore ==
  ASSUME TripTables, AtPace, NEW w \in Words, Done(w), lines' # <<>>,
         told = <<>> \/ Last(told).what = "SAVED",
         told # <<>> => now - Last(told).at >= 3
  PROVE  /\ AtPace'
         /\ \A x : TimesOf(x)' = TimesOf(x) \cup (IF x = w THEN {now} ELSE {})
         /\ LaterSaves' = LaterSaves \cup (IF w = "SAVED" /\ told # <<>> THEN {now} ELSE {})
         /\ ToldTimes' = ToldTimes \cup {now}
         /\ told' # <<>> /\ told'[1].at = IF told = <<>> THEN now ELSE told[1].at
         /\ now' = now
<1> DEFINE T == [what : Words, at : Nat]
<1> PICK m : m = [what |-> w, at |-> now]
  OBVIOUS
<1> PICK n : n = Len(told)
  OBVIOUS
<1>1. /\ m \in T /\ told \in Seq(T) /\ told' = Append(told, m) /\ now' = now /\ now \in Nat
      /\ m.what = w /\ m.at = now
  BY DEF Done, TripTables
<1>2. /\ n \in Nat /\ DOMAIN told = 1 .. n
      /\ told # <<>> => n # 0 /\ Last(told) = told[n]
      /\ told = <<>> => n = 0
  BY ToldIs
<1> HIDE DEF T
<1>3. /\ told' \in Seq(T) /\ told' # <<>> /\ Len(told') = n + 1 /\ DOMAIN told' = 1 .. n + 1
      /\ told'[n + 1] = m /\ \A i \in 1 .. n : told'[i] = told[i]
  BY <1>1, <1>2, AppendProperties, LenProperties
<1>4. \A i \in 1 .. n : told[i].at \in Nat /\ told[i].at <= now
  BY <1>2, ToldIs DEF AtPace
<1>5. \A i \in 1 .. n : told[i].at + 3 <= now
  <2> SUFFICES ASSUME NEW i \in 1 .. n PROVE told[i].at + 3 <= now
    OBVIOUS
  <2>1. n # 0 /\ n \in 1 .. n /\ told # <<>>
    BY <1>2
  <2>2. told[n].at \in Nat /\ now - told[n].at >= 3 /\ told[i].at \in Nat
    BY <1>2, <1>4, <2>1
  <2>3. CASE i = n
    BY <1>1, <2>2, <2>3
  <2>4. CASE i < n
    <3>1. told[n].at >= told[i].at + 3
      BY <1>2, <2>1, <2>4 DEF AtPace
    <3> QED
      BY <1>1, <2>2, <3>1
  <2> QED
    BY <1>2, <2>3, <2>4
<1>6. \A i \in 1 .. n + 1 : i \in 1 .. n \/ i = n + 1
  BY <1>2
<1>7. AtPace'
  <2>1. \A i, j \in 1 .. n + 1 : i < j => told'[j].at >= told'[i].at + 3
    <3> SUFFICES ASSUME NEW i \in 1 .. n + 1, NEW j \in 1 .. n + 1, i < j PROVE told'[j].at >= told'[i].at + 3
      OBVIOUS
    <3>1. i \in 1 .. n /\ told'[i] = told[i]
      BY <1>2, <1>3
    <3>2. CASE j = n + 1
      BY <1>1, <1>3, <1>4, <1>5, <3>1, <3>2
    <3>3. CASE j \in 1 .. n
      BY <1>2, <1>3, <3>1, <3>3 DEF AtPace
    <3> QED
      BY <1>6, <3>2, <3>3
  <2>2. \A i \in 1 .. n + 1 : told'[i].at <= now
    BY <1>1, <1>3, <1>4, <1>6
  <2>3. \A i \in 1 .. n + 1 : i < n + 1 => told'[i].what = "SAVED"
    <3> SUFFICES ASSUME NEW i \in 1 .. n PROVE told[i].what = "SAVED"
      BY <1>2, <1>3
    <3>1. CASE i < n
      BY <1>2, <3>1 DEF AtPace
    <3>2. CASE i = n
      BY <1>2, <3>2
    <3> QED
      BY <1>2, <3>1, <3>2
  <2> QED
    BY <1>1, <1>3, <2>1, <2>2, <2>3 DEF AtPace
<1>8. ASSUME NEW x PROVE TimesOf(x)' = TimesOf(x) \cup (IF x = w THEN {now} ELSE {})
  <2>1. TimesOf(x) = {told[i].at : i \in {j \in 1 .. n : told[j].what = x}}
    BY <1>2 DEF TimesOf
  <2>2. TimesOf(x)' = {told'[i].at : i \in {j \in 1 .. n + 1 : told'[j].what = x}}
    BY <1>3 DEF TimesOf
  <2>3. n + 1 \in 1 .. n + 1 /\ \A i \in 1 .. n : i \in 1 .. n + 1
    BY <1>2
  <2> DEFINE A == TimesOf(x) \cup (IF x = w THEN {now} ELSE {})
             B == TimesOf(x)'
  <2>4. ASSUME NEW i \in 1 .. n + 1, told'[i].what = x PROVE told'[i].at \in A
    <3>1. CASE i \in 1 .. n
      BY <1>3, <2>1, <2>4, <3>1, Zenon
    <3>2. CASE i = n + 1
      BY <1>1, <1>3, <2>4, <3>2, Zenon
    <3> QED
      BY <1>6, <3>1, <3>2
  <2>5. ASSUME NEW i \in 1 .. n, told[i].what = x PROVE told[i].at \in B
    <3>1. i \in 1 .. n + 1 /\ told'[i] = told[i]
      BY <1>3, <2>3
    <3>2. told'[i].what = x /\ told'[i].at = told[i].at
      BY <2>5, <3>1, Zenon
    <3>3. told'[i].at \in B
      BY <2>2, <3>1, <3>2, Zenon
    <3> HIDE DEF B
    <3> QED
      BY <3>2, <3>3, Zenon
  <2>6. x = w => now \in B
    BY <1>1, <1>3, <2>2, <2>3
  <2>7. B \subseteq A
    BY <2>2, <2>4, Zenon
  <2>8. A \subseteq B
    <3>1. TimesOf(x) \subseteq B
      BY <2>1, <2>5, Zenon
    <3> HIDE DEF B
    <3> QED
      BY <2>6, <3>1
  <2> QED
    BY <2>7, <2>8, Zenon
<1>9. LaterSaves' = LaterSaves \cup (IF w = "SAVED" /\ told # <<>> THEN {now} ELSE {})
  <2>1. LaterSaves = {told[i].at : i \in {j \in 1 .. n : j > 1 /\ told[j].what = "SAVED"}}
    BY <1>2 DEF LaterSaves
  <2>2. LaterSaves' = {told'[i].at : i \in {j \in 1 .. n + 1 : j > 1 /\ told'[j].what = "SAVED"}}
    BY <1>3 DEF LaterSaves
  <2>3. /\ n + 1 \in 1 .. n + 1 /\ \A i \in 1 .. n : i \in 1 .. n + 1
        /\ told # <<>> <=> n + 1 > 1
    BY <1>2
  <2> DEFINE A == LaterSaves \cup (IF w = "SAVED" /\ told # <<>> THEN {now} ELSE {})
             B == LaterSaves'
  <2>4. ASSUME NEW i \in 1 .. n + 1, i > 1, told'[i].what = "SAVED" PROVE told'[i].at \in A
    <3>1. CASE i \in 1 .. n
      BY <1>3, <2>1, <2>4, <3>1, Zenon
    <3>2. CASE i = n + 1
      BY <1>1, <1>3, <2>3, <2>4, <3>2, Zenon
    <3> QED
      BY <1>6, <3>1, <3>2
  <2>5. ASSUME NEW i \in 1 .. n, i > 1, told[i].what = "SAVED" PROVE told[i].at \in B
    BY <1>3, <2>2, <2>3, <2>5, Zenon
  <2>6. w = "SAVED" /\ told # <<>> => now \in B
    BY <1>1, <1>3, <2>2, <2>3, Zenon
  <2>7. B \subseteq A
    BY <2>2, <2>4, Zenon
  <2>8. A \subseteq B
    <3>1. LaterSaves \subseteq B
      BY <2>1, <2>5, Zenon
    <3> HIDE DEF B
    <3> QED
      BY <2>6, <3>1
  <2> QED
    BY <2>7, <2>8, Zenon
<1>10. ToldTimes' = ToldTimes \cup {now}
  <2>1. n + 1 \in 1 .. n + 1 /\ \A i \in 1 .. n : i \in 1 .. n + 1
    BY <1>2
  <2>2. ToldTimes = {told[i].at : i \in 1 .. n} /\ ToldTimes' = {told'[i].at : i \in 1 .. n + 1}
    BY <1>2, <1>3 DEF ToldTimes
  <2> DEFINE A == ToldTimes \cup {now}
             B == ToldTimes'
  <2>4. ASSUME NEW i \in 1 .. n + 1 PROVE told'[i].at \in A
    <3>1. CASE i \in 1 .. n
      BY <1>3, <2>2, <3>1, Zenon
    <3>2. CASE i = n + 1
      BY <1>1, <1>3, <3>2, Zenon
    <3> QED
      BY <1>6, <3>1, <3>2
  <2>5. ASSUME NEW i \in 1 .. n PROVE told[i].at \in B
    BY <1>3, <2>1, <2>2, Zenon
  <2>6. now \in B
    BY <1>1, <1>3, <2>1, <2>2, Zenon
  <2>7. B \subseteq A
    BY <2>2, <2>4, Zenon
  <2>8. A \subseteq B
    <3>1. ToldTimes \subseteq B
      BY <2>2, <2>5, Zenon
    <3> HIDE DEF B
    <3> QED
      BY <2>6, <3>1
  <2> QED
    BY <2>7, <2>8, Zenon
<1>11. told'[1].at = IF told = <<>> THEN now ELSE told[1].at
  <2>1. CASE told = <<>>
    BY <1>1, <1>2, <1>3, <2>1
  <2>2. CASE told # <<>>
    <3>1. 1 \in 1 .. n
      BY <1>2, <2>2
    <3> QED
      BY <1>3, <2>2, <3>1
  <2> QED
    BY <2>1, <2>2
<1> QED
  BY <1>1, <1>3, <1>7, <1>8, <1>9, <1>10, <1>11

LEMMA LogsMore ==
  ASSUME NEW S, NEW action, logs' = Logged(S, action), now' = now
  PROVE  /\ \A x : x # action => LogTimes(x)' = LogTimes(x)
         /\ S # {} => LogTimes(action)' = LogTimes(action) \cup {now}
<1>1. logs' = logs \cup {[action |-> action, order |-> o, at |-> now] : o \in S}
  BY DEF Logged
<1>2. ASSUME NEW x, x # action PROVE LogTimes(x)' = LogTimes(x)
  <2>1. {k \in logs' : k.action = x} = {k \in logs : k.action = x}
    BY <1>1, <1>2
  <2> QED
    BY <2>1 DEF LogTimes
<1>3. ASSUME S # {} PROVE LogTimes(action)' = LogTimes(action) \cup {now}
  <2>1. {k \in logs' : k.action = action}
        = {k \in logs : k.action = action} \cup {[action |-> action, order |-> o, at |-> now] : o \in S}
    BY <1>1
  <2>2. LogTimes(action)' = {l.at : l \in {k \in logs' : k.action = action}}
    BY DEF LogTimes
  <2>3. LogTimes(action) = {l.at : l \in {k \in logs : k.action = action}}
    BY DEF LogTimes
  <2> DEFINE A == {k \in logs : k.action = action}
             N == {[action |-> action, order |-> o, at |-> now] : o \in S}
  <2>4. {l.at : l \in N} = {now}
    <3>1. PICK o : o \in S
      BY <1>3
    <3>2. [action |-> action, order |-> o, at |-> now] \in N /\ \A l \in N : l.at = now
      BY <3>1
    <3> HIDE DEF N
    <3> QED
      BY <3>2
  <2> HIDE DEF A, N
  <2>5. {l.at : l \in A \cup N} = {l.at : l \in A} \cup {l.at : l \in N}
    OBVIOUS
  <2> QED
    BY <2>1, <2>2, <2>3, <2>4, <2>5 DEF A, N
<1> QED
  BY <1>2, <1>3

(* A note belongs to a dispatching or to a receiving hub. *)
LEMMA SideIs ==
  ASSUME TripTables, HistoryOK
  PROVE  /\ Fresh \/ Is("OUTBOUND") => OutboundTold
         /\ Fresh \/ Is("INBOUND") => InboundTold
<1>1. ASSUME Fresh PROVE OutboundTold /\ InboundTold
  <2>1. lines = <<>> /\ told = <<>> /\ DOMAIN lines = {} /\ DOMAIN told = {}
    BY <1>1 DEF HistoryOK, AtPace, Fresh
  <2>2. /\ NoteTimes(lines) = {} /\ LaterSaves = {} /\ \A w : TimesOf(w) = {}
        /\ \A kind : AllOf(lines, kind)
        /\ TouchedIn(lines, ToldTimes)
    BY <2>1 DEF NoteTimes, LaterSaves, TimesOf, AllOf, TouchedIn
  <2>3. LogTimes("SAVED") = {}
    BY <2>2 DEF HistoryOK, OutboundTold, InboundTold
  <2> QED
    BY <2>1, <2>2, <2>3 DEF OutboundTold, InboundTold
<1>2. Is("OUTBOUND") => OutboundTold
  BY DEF HistoryOK, InboundTold, AllOf, Is
<1>3. Is("INBOUND") => InboundTold
  BY DEF HistoryOK, OutboundTold, AllOf, Is
<1> QED
  BY <1>1, <1>2, <1>3

LEMMA DispatchToldStep ==
  ASSUME IsFiniteSet(Orders), TripTables, TripOK, HistoryOK, told # <<>> => now - Last(told).at >= 3,
         NEW S \in Items, SaveNote(S) \/ ConfirmNote(S)
  PROVE  HistoryOK'
<1> DEFINE C == Change(lines, Orders, Dropped)
           L(status) == Lines(S, "OUTBOUND", status)
<1>1. S \in SUBSET Orders /\ S # {} /\ IsFiniteSet(S)
  BY FS_Subset DEF Items
<1>2. OutboundTold /\ (Fresh \/ (~closed /\ SomeLive(lines)))
  BY SideIs, BeforeIs DEF SaveNote, ConfirmNote, IsNote
<1>3. (told = <<>> \/ Last(told).what = "SAVED") /\ (\A w \in Words : w # "SAVED" => TimesOf(w) = {})
  BY <1>2, StillOpen DEF HistoryOK
<1>4. C \in Seq(Row) /\ NoteTimes(C) = NoteTimes(lines) /\ AllOf(C, "OUTBOUND")
  BY <1>2, AllDropped, DroppedTold DEF OutboundTold
<1>5. ASSUME NEW status \in {"PENDING", "IN_TRANSIT"}
      PROVE  /\ L(status) \in Seq(Row) /\ AllOf(L(status), "OUTBOUND") /\ L(status) # <<>>
             /\ status = "PENDING" => NoteTimes(L(status)) = {now}
             /\ status # "PENDING" => NoteTimes(L(status)) = {}
  BY <1>1, LinesAre, LinesTold
<1> HIDE DEF C, L
<1>6. ASSUME NEW status \in {"PENDING", "IN_TRANSIT"}
      PROVE  /\ AllOf(C \o L(status), "OUTBOUND") /\ C \o L(status) # <<>>
             /\ NoteTimes(C \o L(status)) = NoteTimes(lines) \cup NoteTimes(L(status))
  BY <1>4, <1>5, ConcatTold
<1>7. AtPace /\ LogsTold
  BY DEF HistoryOK
<1>8. CASE SaveNote(S)
  <2>1. Done("SAVED") /\ lines' = C \o L("PENDING") /\ UNCHANGED <<invoices, logs>> /\ "SAVED" \in Words
    BY <1>8 DEF SaveNote, C, L, Words
  <2>2. AllOf(lines', "OUTBOUND") /\ lines' # <<>> /\ NoteTimes(lines') = NoteTimes(lines) \cup {now}
    BY <1>5, <1>6, <2>1
  <2>3. AtPace' /\ \A x : TimesOf(x)' = TimesOf(x) \cup (IF x = "SAVED" THEN {now} ELSE {})
    BY <1>3, <1>7, <2>1, <2>2, ToldMore
  <2>4. /\ TimesOf("SAVED")' = TimesOf("SAVED") \cup {now} /\ TimesOf("SHIPPED")' = TimesOf("SHIPPED")
        /\ TimesOf("RECEIVED")' = TimesOf("RECEIVED") /\ TimesOf("CANCELLED")' = TimesOf("CANCELLED")
        /\ TimesOf("ROLLED_BACK")' = TimesOf("ROLLED_BACK")
    BY <2>3
  <2>5. \A x : LogTimes(x)' = LogTimes(x)
    BY <2>1 DEF LogTimes
  <2>6. LogsTold'
    BY <1>7, <2>1, <2>4, <2>5 DEF LogsTold
  <2>7. OutboundTold'
    BY <1>2, <2>2, <2>4, <2>5 DEF OutboundTold
  <2> QED
    BY <2>3, <2>6, <2>7 DEF HistoryOK
<1>9. CASE ConfirmNote(S)
  <2>1. /\ Done("SHIPPED") /\ lines' = C \o L("IN_TRANSIT") /\ UNCHANGED logs /\ "SHIPPED" \in Words
        /\ invoices' = invoices \o Invoices(S, "OUTBOUND")
    BY <1>9 DEF ConfirmNote, C, L, Words
  <2>2. AllOf(lines', "OUTBOUND") /\ lines' # <<>> /\ NoteTimes(lines') = NoteTimes(lines)
    BY <1>5, <1>6, <2>1
  <2>3. AtPace' /\ \A x : TimesOf(x)' = TimesOf(x) \cup (IF x = "SHIPPED" THEN {now} ELSE {})
    BY <1>3, <1>7, <2>1, <2>2, ToldMore
  <2>4. /\ TimesOf("SHIPPED")' = TimesOf("SHIPPED") \cup {now} /\ TimesOf("SAVED")' = TimesOf("SAVED")
        /\ TimesOf("RECEIVED")' = TimesOf("RECEIVED") /\ TimesOf("CANCELLED")' = TimesOf("CANCELLED")
        /\ TimesOf("ROLLED_BACK")' = TimesOf("ROLLED_BACK")
    BY <2>3
  <2>5. \A x : LogTimes(x)' = LogTimes(x)
    BY <2>1 DEF LogTimes
  <2>6. VoucherTimes(invoices') = VoucherTimes(invoices) \cup {now}
    <3>1. invoices \in Seq(Voucher) /\ Invoices(S, "OUTBOUND") \in Seq(Voucher)
      BY <1>1, VouchersAre DEF TripTables
    <3> QED
      BY <1>1, <2>1, <3>1, VouchersTold, ConcatTold
  <2>7. LogsTold'
    BY <1>7, <2>4, <2>5, <2>6 DEF LogsTold
  <2>8. OutboundTold'
    BY <1>2, <2>2, <2>4, <2>5 DEF OutboundTold
  <2> QED
    BY <2>3, <2>7, <2>8 DEF HistoryOK
<1> QED
  BY <1>8, <1>9

LEMMA CancelToldStep ==
  ASSUME TripTables, TripOK, HistoryOK, told # <<>> => now - Last(told).at >= 3, CancelNote
  PROVE  HistoryOK'
<1> DEFINE C == Change(lines, Orders, Dropped)
<1>1. OutboundTold /\ ~closed /\ SomeLive(lines)
  BY SideIs, BeforeIs DEF CancelNote, IsNote
<1>2. (told = <<>> \/ Last(told).what = "SAVED") /\ (\A w \in Words : w # "SAVED" => TimesOf(w) = {})
  BY <1>1, StillOpen DEF HistoryOK
<1>3. NoteTimes(C) = NoteTimes(lines) /\ AllOf(C, "OUTBOUND") /\ C # <<>>
  <2>1. DOMAIN C = DOMAIN lines
    BY DEF Change
  <2>2. DOMAIN lines # {}
    BY <1>1 DEF SomeLive
  <2>3. C # <<>>
    BY <2>1, <2>2
  <2> QED
    BY <1>1, <2>3, DroppedTold DEF OutboundTold
<1> HIDE DEF C
<1>4. AtPace /\ LogsTold
  BY DEF HistoryOK
<1>5. Done("CANCELLED") /\ lines' = C /\ UNCHANGED invoices /\ logs' = Logged(LiveOrders, "CANCELLED") /\ "CANCELLED" \in Words
  BY DEF CancelNote, C, Words
<1>6. /\ AtPace' /\ now' = now
      /\ \A x : TimesOf(x)' = TimesOf(x) \cup (IF x = "CANCELLED" THEN {now} ELSE {})
  BY <1>2, <1>3, <1>4, <1>5, ToldMore
<1>7. /\ TimesOf("CANCELLED")' = TimesOf("CANCELLED") \cup {now} /\ TimesOf("SAVED")' = TimesOf("SAVED")
      /\ TimesOf("RECEIVED")' = TimesOf("RECEIVED") /\ TimesOf("SHIPPED")' = TimesOf("SHIPPED")
      /\ TimesOf("ROLLED_BACK")' = TimesOf("ROLLED_BACK")
  BY <1>6
<1>8. LiveOrders # {}
  BY <1>1 DEF LiveOrders, Live, SomeLive
<1>9. /\ LogTimes("CANCELLED")' = LogTimes("CANCELLED") \cup {now}
      /\ LogTimes("SAVED")' = LogTimes("SAVED") /\ LogTimes("ROLLED_BACK")' = LogTimes("ROLLED_BACK")
  BY <1>5, <1>6, <1>8, LogsMore
<1>10. LogsTold'
  BY <1>4, <1>5, <1>7, <1>9 DEF LogsTold
<1>11. OutboundTold'
  BY <1>1, <1>3, <1>5, <1>7, <1>9 DEF OutboundTold
<1> QED
  BY <1>6, <1>10, <1>11 DEF HistoryOK

LEMMA ReceiptToldStep ==
  ASSUME IsFiniteSet(Orders), TripTables, TripOK, HistoryOK, told # <<>> => now - Last(told).at >= 3,
         NEW S \in Items, IntakeDraft(S) \/ Intake(S) \/ SaveReceipt(S) \/ Receive(S)
  PROVE  HistoryOK'
<1> DEFINE L(status) == Lines(S, "INBOUND", status)
           N == Listed(S, "PENDING", Touched)
           R == Listed(S, "COMPLETED", Received)
<1>1. S \in SUBSET Orders /\ S # {} /\ IsFiniteSet(S)
  BY FS_Subset DEF Items
<1>2. InboundTold /\ (Fresh \/ (~closed /\ SomeLive(lines)))
  BY SideIs, BeforeIs DEF IntakeDraft, Intake, SaveReceipt, Receive
<1>3. (told = <<>> \/ Last(told).what = "SAVED") /\ (\A w \in Words : w # "SAVED" => TimesOf(w) = {})
  BY <1>2, StillOpen DEF HistoryOK
<1>4. AtPace /\ LogsTold /\ (Fresh <=> told = <<>>)
  BY DEF HistoryOK, AtPace, Fresh
<1>5. {"SAVED", "RECEIVED"} \subseteq Words
  BY DEF Words
<1>6. PICK times : times = ToldTimes \cup {now}
  OBVIOUS
<1>7. ASSUME NEW status \in {"PENDING", "COMPLETED"}
      PROVE  /\ AllOf(L(status), "INBOUND") /\ L(status) # <<>> /\ TouchedIn(L(status), times)
             /\ L(status)[1].born = now
  <2>1. TouchedIn(L(status), {now})
    BY <1>1, LinesTold
  <2> QED
    BY <1>1, <1>6, <2>1, LinesTold DEF TouchedIn
<1>8. ASSUME NEW X, X = N \/ X = R, lines # <<>>
      PROVE  AllOf(X, "INBOUND") /\ X # <<>> /\ TouchedIn(X, times) /\ X[1].born = lines[1].born
  <2>1. TouchedIn(lines, times) /\ AllOf(lines, "INBOUND") /\ now \in times
    BY <1>2, <1>6 DEF InboundTold, TouchedIn
  <2> QED
    BY <1>1, <1>8, <2>1, ListedTold
<1>9. VoucherTimes(Invoices(S, "INBOUND")) = {now} /\ Invoices(S, "INBOUND") \in Seq(Voucher)
  BY <1>1, VouchersTold, VouchersAre
<1> HIDE DEF L, N, R
<1>10. lines # <<>> => told # <<>> /\ lines[1].born = told[1].at
  BY <1>2, <1>4 DEF InboundTold, AtPace
<1>11. ASSUME Done("SAVED"), AllOf(lines', "INBOUND"), lines' # <<>>, TouchedIn(lines', times),
              lines'[1].born = IF told = <<>> THEN now ELSE told[1].at, upserted' = now, UNCHANGED invoices,
              LogTimes("SAVED")' = LogTimes("SAVED") \cup (IF told # <<>> THEN {now} ELSE {}),
              LogTimes("CANCELLED")' = LogTimes("CANCELLED"), LogTimes("ROLLED_BACK")' = LogTimes("ROLLED_BACK")
       PROVE  HistoryOK'
  <2>1. /\ AtPace' /\ now' = now /\ ToldTimes' = times /\ told' # <<>>
        /\ told'[1].at = IF told = <<>> THEN now ELSE told[1].at
        /\ LaterSaves' = LaterSaves \cup (IF told # <<>> THEN {now} ELSE {})
        /\ \A x : TimesOf(x)' = TimesOf(x) \cup (IF x = "SAVED" THEN {now} ELSE {})
    BY <1>3, <1>4, <1>5, <1>6, <1>11, ToldMore
  <2>2. /\ TimesOf("SHIPPED")' = TimesOf("SHIPPED") /\ TimesOf("RECEIVED")' = TimesOf("RECEIVED")
        /\ TimesOf("CANCELLED")' = TimesOf("CANCELLED") /\ TimesOf("ROLLED_BACK")' = TimesOf("ROLLED_BACK")
    BY <2>1
  <2>3. LogsTold'
    BY <1>4, <1>11, <2>2 DEF LogsTold
  <2>4. InboundTold'
    BY <1>2, <1>6, <1>11, <2>1, <2>2 DEF InboundTold
  <2> QED
    BY <2>1, <2>3, <2>4 DEF HistoryOK
<1>12. ASSUME Done("RECEIVED"), AllOf(lines', "INBOUND"), lines' # <<>>, TouchedIn(lines', times),
              lines'[1].born = IF told = <<>> THEN now ELSE told[1].at, upserted' = now, UNCHANGED logs,
              VoucherTimes(invoices') = VoucherTimes(invoices) \cup {now}
       PROVE  HistoryOK'
  <2>1. /\ AtPace' /\ now' = now /\ ToldTimes' = times /\ told' # <<>>
        /\ told'[1].at = IF told = <<>> THEN now ELSE told[1].at
        /\ LaterSaves' = LaterSaves
        /\ \A x : TimesOf(x)' = TimesOf(x) \cup (IF x = "RECEIVED" THEN {now} ELSE {})
    BY <1>3, <1>4, <1>5, <1>6, <1>12, ToldMore
  <2>2. /\ TimesOf("SHIPPED")' = TimesOf("SHIPPED") /\ TimesOf("RECEIVED")' = TimesOf("RECEIVED") \cup {now}
        /\ TimesOf("CANCELLED")' = TimesOf("CANCELLED") /\ TimesOf("ROLLED_BACK")' = TimesOf("ROLLED_BACK")
    BY <2>1
  <2>3. \A x : LogTimes(x)' = LogTimes(x)
    BY <1>12 DEF LogTimes
  <2>4. LogsTold'
    BY <1>4, <1>12, <2>2, <2>3 DEF LogsTold
  <2>5. InboundTold'
    BY <1>2, <1>6, <1>12, <2>1, <2>2, <2>3 DEF InboundTold
  <2> QED
    BY <2>1, <2>4, <2>5 DEF HistoryOK
<1>13. CASE IntakeDraft(S)
  <2>1. /\ Done("SAVED") /\ lines' = L("PENDING") /\ UNCHANGED <<invoices, logs>> /\ told = <<>>
        /\ upserted' = now
    BY <1>4, <1>13 DEF IntakeDraft, L
  <2>2. \A x : LogTimes(x)' = LogTimes(x)
    BY <2>1 DEF LogTimes
  <2>3. AllOf(lines', "INBOUND") /\ lines' # <<>> /\ TouchedIn(lines', times) /\ lines'[1].born = now
    BY <1>7, <2>1
  <2> QED
    BY <1>11, <2>1, <2>2, <2>3
<1>14. CASE Intake(S)
  <2>1. /\ Done("RECEIVED") /\ lines' = L("COMPLETED") /\ UNCHANGED logs /\ told = <<>> /\ upserted' = now
        /\ invoices' = Invoices(S, "INBOUND")
    BY <1>4, <1>14 DEF Intake, L
  <2>2. AllOf(lines', "INBOUND") /\ lines' # <<>> /\ TouchedIn(lines', times) /\ lines'[1].born = now
    BY <1>7, <2>1
  <2>3. VoucherTimes(invoices) = {}
    BY <1>3, <1>4, <1>5 DEF LogsTold, Words
  <2> QED
    BY <1>9, <1>12, <2>1, <2>2, <2>3
<1>15. CASE SaveReceipt(S)
  <2>1. /\ Done("SAVED") /\ lines' = N /\ UNCHANGED invoices /\ logs' = Logged(S, "SAVED") /\ now' = now
        /\ upserted' = now
    BY <1>15 DEF SaveReceipt, N, Done
  <2>2. lines # <<>>
    BY <1>15 DEF SaveReceipt, Is
  <2>3. /\ AllOf(lines', "INBOUND") /\ lines' # <<>> /\ TouchedIn(lines', times)
        /\ told # <<>> /\ lines'[1].born = told[1].at
    BY <1>8, <1>10, <2>1, <2>2
  <2>4. /\ LogTimes("SAVED")' = LogTimes("SAVED") \cup {now}
        /\ LogTimes("CANCELLED")' = LogTimes("CANCELLED") /\ LogTimes("ROLLED_BACK")' = LogTimes("ROLLED_BACK")
    BY <1>1, <2>1, LogsMore
  <2> QED
    BY <1>11, <2>1, <2>3, <2>4
<1>16. CASE Receive(S)
  <2>1. /\ Done("RECEIVED") /\ lines' = R /\ UNCHANGED logs /\ invoices' = invoices \o Invoices(S, "INBOUND")
        /\ upserted' = now
    BY <1>16 DEF Receive, R
  <2>2. lines # <<>>
    BY <1>16 DEF Receive, Is
  <2>3. /\ AllOf(lines', "INBOUND") /\ lines' # <<>> /\ TouchedIn(lines', times)
        /\ told # <<>> /\ lines'[1].born = told[1].at
    BY <1>8, <1>10, <2>1, <2>2
  <2>4. VoucherTimes(invoices') = VoucherTimes(invoices) \cup {now}
    <3>1. invoices \in Seq(Voucher)
      BY DEF TripTables
    <3> QED
      BY <1>9, <2>1, <3>1, ConcatTold
  <2> QED
    BY <1>12, <2>1, <2>3, <2>4
<1> QED
  BY <1>13, <1>14, <1>15, <1>16

LEMMA ToldStep ==
  ASSUME IsFiniteSet(Orders), TripTables, TripOK, HistoryOK, ForwardNext,
         told' # told /\ told # <<>> => now - Last(told).at >= 3
  PROVE  HistoryOK'
<1>1. ASSUME UNCHANGED <<lines, invoices, logs, closed, upserted, told>>, now' = now \/ now' = now + 1
      PROVE  HistoryOK'
  <2>1. /\ \A x : TimesOf(x)' = TimesOf(x) /\ LogTimes(x)' = LogTimes(x)
        /\ LaterSaves' = LaterSaves /\ ToldTimes' = ToldTimes
    BY <1>1 DEF TimesOf, LogTimes, LaterSaves, ToldTimes
  <2>2. \A i \in DOMAIN told : told[i].at <= now'
    <3>1. \A i \in DOMAIN told : told[i].at \in Nat /\ told[i].at <= now
      BY ToldIs DEF HistoryOK, AtPace
    <3> QED
      BY <1>1, <3>1 DEF TripTables
  <2>3. AtPace'
    BY <1>1, <2>2 DEF HistoryOK, AtPace
  <2>4. LogsTold'
    BY <1>1, <2>1 DEF HistoryOK, LogsTold
  <2>5. (OutboundTold => OutboundTold') /\ (InboundTold => InboundTold')
    BY <1>1, <2>1 DEF OutboundTold, InboundTold
  <2> QED
    BY <2>3, <2>4, <2>5 DEF HistoryOK
<1>2. CASE Tick
  <2>1. UNCHANGED <<lines, invoices, logs, closed, upserted, told>> /\ now' = now + 1
    BY <1>2 DEF Tick, tables
  <2> QED
    BY <1>1, <2>1
<1>3. CASE \E o \in Orders : ReceiveElsewhere(o) \/ EditOrder(o)
  <2>1. UNCHANGED <<lines, invoices, logs, closed, upserted, told, now>>
    BY <1>3 DEF ReceiveElsewhere, EditOrder
  <2> QED
    BY <1>1, <2>1
<1>4. ASSUME NEW w \in Words, Done(w) PROVE told # <<>> => now - Last(told).at >= 3
  <2> DEFINE m == [what |-> w, at |-> now]
  <2>1. told' = Append(told, m) /\ told \in Seq([what : Words, at : Nat]) /\ m \in [what : Words, at : Nat]
    BY <1>4 DEF Done, TripTables
  <2> HIDE DEF m
  <2>2. told' # told
    <3>1. Len(told') = Len(told) + 1 /\ Len(told) \in Nat
      BY <2>1, AppendProperties, LenProperties
    <3> QED
      BY <3>1
  <2> QED
    BY <2>2
<1>5. CASE CancelNote
  <2>1. told # <<>> => now - Last(told).at >= 3
    BY <1>4, <1>5 DEF CancelNote, Words
  <2> QED
    BY <1>5, <2>1, CancelToldStep
<1>6. ASSUME NEW S \in Items,
             \/ SaveNote(S) \/ ConfirmNote(S) \/ IntakeDraft(S)
             \/ Intake(S) \/ SaveReceipt(S) \/ Receive(S)
      PROVE  HistoryOK'
  <2>1. Done("SAVED") \/ Done("SHIPPED") \/ Done("RECEIVED")
    BY <1>6 DEF SaveNote, ConfirmNote, IntakeDraft, Intake, SaveReceipt, Receive
  <2>2. told # <<>> => now - Last(told).at >= 3
    BY <1>4, <2>1 DEF Words
  <2> QED
    BY <1>6, <2>2, DispatchToldStep, ReceiptToldStep
<1> QED
  BY <1>2, <1>3, <1>5, <1>6 DEF ForwardNext

-----------------------------------------------------------------------------
(* What getTripHistory makes of it. *)

(* Steps more than a window apart are batches of their own. *)
LEMMA BatchesApart ==
  ASSUME NEW times \in SUBSET Nat, \A t, u \in times : u < t => t - u > BatchWindow
  PROVE  Batches(times) = times
<1> DEFINE Are(starts) == \A t \in times : t \in starts <=> \A u \in starts : u < t => t - u > BatchWindow
<1>1. times \in SUBSET times /\ Are(times)
  OBVIOUS
<1>2. ASSUME NEW starts \in SUBSET times, Are(starts) PROVE starts = times
  BY <1>2
<1>3. Batches(times) = CHOOSE starts \in SUBSET times : Are(starts)
  BY DEF Batches
<1> HIDE DEF Are
<1> QED
  BY <1>1, <1>2, <1>3

LEMMA EarliestIs ==
  ASSUME NEW t \in Nat
  PROVE  Earliest({t}) = t
BY DEF Earliest

LEMMA NoBatches == Batches({}) = {}
BY BatchesApart

(* Times of things told are apart, whatever is selected. *)
LEMMA ToldApart ==
  ASSUME TripTables, AtPace, NEW I \in SUBSET DOMAIN told
  PROVE  Batches({told[i].at : i \in I}) = {told[i].at : i \in I}
<1> DEFINE times == {told[i].at : i \in I}
<1>1. times \in SUBSET Nat
  BY ToldIs
<1>2. ASSUME NEW i \in I, NEW j \in I, told[j].at < told[i].at
      PROVE  told[i].at - told[j].at > BatchWindow
  <2>1. i \in Nat /\ j \in Nat /\ i \in DOMAIN told /\ j \in DOMAIN told /\ told[i].at \in Nat /\ told[j].at \in Nat
    BY ToldIs
  <2>2. i = j \/ i < j \/ j < i
    BY <2>1
  <2>3. ~(i < j) /\ i # j
    BY <1>2, <2>1 DEF AtPace
  <2>4. told[i].at >= told[j].at + 3
    BY <2>1, <2>2, <2>3 DEF AtPace
  <2> QED
    BY <2>1, <2>4 DEF BatchWindow
<1>3. \A t, u \in times : u < t => t - u > BatchWindow
  BY <1>2
<1> HIDE DEF times
<1>4. Batches(times) = times
  BY <1>1, <1>3, BatchesApart
<1> QED
  BY <1>4 DEF times

(* All that was done, word by word. *)
LEMMA ToldByWord ==
  ASSUME TripTables
  PROVE  ToSet(told) = UNION {Step(w, TimesOf(w)) : w \in Words}
<1>1. ToSet(told) = {told[i] : i \in DOMAIN told}
  BY DEF ToSet
<1>2. ASSUME NEW i \in DOMAIN told PROVE told[i] \in Step(told[i].what, TimesOf(told[i].what)) /\ told[i].what \in Words
  <2>1. told[i] \in [what : Words, at : Nat] /\ told[i].what \in Words
    BY ToldIs
  <2>2. told[i] = [what |-> told[i].what, at |-> told[i].at]
    BY <2>1
  <2>3. told[i].at \in TimesOf(told[i].what)
    BY DEF TimesOf
  <2> QED
    BY <2>1, <2>2, <2>3 DEF Step
<1>3. ASSUME NEW w \in Words, NEW x \in Step(w, TimesOf(w)) PROVE x \in ToSet(told)
  <2>1. PICK i \in DOMAIN told : told[i].what = w /\ x = [what |-> w, at |-> told[i].at]
    BY DEF Step, TimesOf
  <2>2. told[i] \in [what : Words, at : Nat]
    BY ToldIs
  <2>3. x = told[i]
    BY <2>1, <2>2
  <2> QED
    BY <1>1, <2>3
<1> QED
  BY <1>1, <1>2, <1>3

(* The times at which draft orders of the note were changed. *)
Elsewhere == IF LogTimes("SAVED") = {} THEN {changed[o] : o \in NoteOrders \cap draft} ELSE {}

LEMMA ReceiptsTold ==
  ASSUME TripTables, AtPace, LogsTold, InboundTold, told # <<>>
  PROVE  /\ TimesOf("SAVED") \subseteq Created \cup Edited
         /\ Created \cup Edited \subseteq TimesOf("SAVED") \cup Elsewhere
         /\ Receipts = TimesOf("RECEIVED")
<1> PICK n : n = Len(told)
  OBVIOUS
<1>1. n \in Nat /\ n # 0 /\ DOMAIN told = 1 .. n /\ \A i \in 1 .. n : told[i].at \in Nat
  BY ToldIs, EmptySeq
<1>2. Born = told[1].at /\ 1 \in 1 .. n
  BY <1>1 DEF InboundTold, Born
<1>3. InvoiceTimes = TimesOf("RECEIVED")
  BY DEF InvoiceTimes, LiveInvoices, VoucherTimes, LogsTold, InboundTold
<1>4. \A i \in 1 .. n : told[i].what = "RECEIVED" => i = n
  <2> SUFFICES ASSUME NEW i \in 1 .. n, told[i].what # "SAVED" PROVE i = n
    OBVIOUS
  <2>1. ~(i < n)
    BY <1>1 DEF AtPace
  <2> QED
    BY <1>1, <2>1
<1>5. TimesOf("RECEIVED") = IF told[n].what = "RECEIVED" THEN {told[n].at} ELSE {}
  <2>1. n \in 1 .. n
    BY <1>1
  <2> QED
    BY <1>1, <1>4, <2>1 DEF TimesOf
<1>6. Receipts = TimesOf("RECEIVED")
  <2> DEFINE I == {j \in DOMAIN told : told[j].what = "RECEIVED"}
  <2>1. I \in SUBSET DOMAIN told
    OBVIOUS
  <2>2. Batches({told[i].at : i \in I}) = {told[i].at : i \in I}
    BY <2>1, ToldApart
  <2> QED
    BY <1>3, <2>2 DEF Receipts, TimesOf
<1>7. \A i \in 1 .. n : told[i].what \in {"SAVED", "RECEIVED"}
  <2> SUFFICES ASSUME NEW i \in 1 .. n PROVE told[i].what \in {"SAVED", "RECEIVED"}
    OBVIOUS
  <2>1. told[i].what \in Words /\ told[i].at \in TimesOf(told[i].what)
    BY <1>1, ToldIs DEF TimesOf
  <2> QED
    BY <2>1 DEF InboundTold, LogsTold, Words
<1>8. Created = IF told[1].what = "SAVED" THEN {told[1].at} ELSE {}
  <2>1. CASE told[1].what = "RECEIVED"
    <3>1. n = 1 /\ InvoiceTimes = {told[1].at} /\ told[1].at \in Nat
      BY <1>1, <1>2, <1>3, <1>4, <1>5, <2>1
    <3>2. Earliest(InvoiceTimes) = told[1].at
      BY <3>1, EarliestIs
    <3> QED
      BY <1>2, <2>1, <3>1, <3>2 DEF Created, AtOnce
  <2>2. CASE told[1].what = "SAVED" /\ told[n].what = "RECEIVED"
    <3>1. 1 < n /\ n \in 1 .. n
      BY <1>1, <2>2
    <3>2. told[n].at >= told[1].at + 3 /\ told[n].at \in Nat /\ told[1].at \in Nat
      BY <1>1, <1>2, <3>1 DEF AtPace
    <3>3. InvoiceTimes = {told[n].at} /\ Earliest({told[n].at}) = told[n].at
      BY <1>3, <1>5, <2>2, <3>2, EarliestIs
    <3>4. ~(Earliest(InvoiceTimes) - Born <= AtOnce)
      BY <1>2, <3>2, <3>3 DEF AtOnce
    <3> QED
      BY <1>2, <2>2, <3>4 DEF Created
  <2>3. CASE told[1].what = "SAVED" /\ told[n].what # "RECEIVED"
    BY <1>2, <1>3, <1>5, <2>3 DEF Created
  <2> QED
    BY <1>2, <1>7, <2>1, <2>2, <2>3
<1>9. LaterSaves \subseteq Edited /\ Edited \subseteq LaterSaves \cup Elsewhere
  <2>1. CASE LaterSaves # {}
    <3> DEFINE I == {j \in DOMAIN told : j > 1 /\ told[j].what = "SAVED"}
    <3>1. I \in SUBSET DOMAIN told
      OBVIOUS
    <3>2. Batches({told[i].at : i \in I}) = {told[i].at : i \in I}
      BY <3>1, ToldApart
    <3>3. LogTimes("SAVED") = {told[i].at : i \in I}
      BY DEF InboundTold, LaterSaves
    <3>4. Edited = LaterSaves
      BY <2>1, <3>2, <3>3 DEF Edited, LaterSaves
    <3> QED
      BY <3>4
  <2>2. CASE LaterSaves = {}
    <3> DEFINE edits == {t \in ChangeTimes :
                  /\ t > Born + BatchWindow
                  /\ InvoiceTimes # {} => t < Earliest(InvoiceTimes) - BatchWindow}
    <3>1. ASSUME NEW i \in 1 .. n, told[i].at \in edits PROVE FALSE
      <4>1. told[i].at > Born + BatchWindow
        BY <3>1
      <4>2. i # 1
        BY <1>1, <1>2, <4>1 DEF BatchWindow
      <4>3. told[i].what # "SAVED"
        <5>1. i > 1 /\ i \in DOMAIN told
          BY <1>1, <4>2
        <5> QED
          BY <2>2, <5>1, Zenon DEF LaterSaves
      <4>4. i = n /\ told[n].what = "RECEIVED"
        BY <1>4, <1>7, <4>3
      <4>5. InvoiceTimes = {told[n].at} /\ Earliest({told[n].at}) = told[n].at /\ told[n].at \in Nat
        BY <1>1, <1>3, <1>5, <4>4, EarliestIs
      <4>6. told[n].at < Earliest(InvoiceTimes) - BatchWindow
        BY <3>1, <4>4, <4>5
      <4> QED
        BY <4>5, <4>6 DEF BatchWindow
    <3>2. LogTimes("SAVED") = {}
      BY <2>2 DEF InboundTold
    <3>3. ASSUME NEW t \in edits PROVE t \in Elsewhere
      <4>1. t \notin ToldTimes
        BY <1>1, <3>1 DEF ToldTimes
      <4>2. /\ t \notin {lines[i].touched : i \in DOMAIN lines}
            /\ ~closed => t # upserted
        BY <4>1 DEF InboundTold, TouchedIn
      <4>3. t \in ChangeTimes
        BY <3>3
      <4>4. t \in {changed[o] : o \in NoteOrders \cap draft}
        BY <4>2, <4>3, Zenon DEF ChangeTimes
      <4> QED
        BY <3>2, <4>4 DEF Elsewhere
    <3>4. Guessed = {t \in edits : \A u \in edits : u <= t}
      BY DEF Guessed
    <3> HIDE DEF edits
    <3>5. Guessed \subseteq Elsewhere
      BY <3>3, <3>4
    <3>6. Edited = Guessed
      BY <3>2 DEF Edited
    <3> QED
      BY <2>2, <3>5, <3>6
  <2> QED
    BY <2>1, <2>2
<1>10. TimesOf("SAVED") = (IF told[1].what = "SAVED" THEN {told[1].at} ELSE {}) \cup LaterSaves
  <2>1. \A i \in 1 .. n : i = 1 \/ i > 1
    BY <1>1
  <2> QED
    BY <1>1, <1>2, <2>1 DEF TimesOf, LaterSaves
<1> QED
  BY <1>6, <1>8, <1>9, <1>10

LEMMA DispatchesTold ==
  ASSUME TripTables, AtPace, LogsTold, OutboundTold
  PROVE  Notes = TimesOf("SAVED") /\ Shipments = TimesOf("SHIPPED")
<1>1. Notes = TimesOf("SAVED")
  <2> DEFINE I == {j \in DOMAIN told : told[j].what = "SAVED"}
  <2>1. I \in SUBSET DOMAIN told
    OBVIOUS
  <2>2. Batches({told[i].at : i \in I}) = {told[i].at : i \in I}
    BY <2>1, ToldApart
  <2>3. Notes = Batches(NoteTimes(lines))
    BY DEF Notes, NoteTimes
  <2> QED
    BY <2>2, <2>3 DEF OutboundTold, TimesOf
<1>2. InvoiceTimes = TimesOf("SHIPPED")
  BY DEF InvoiceTimes, LiveInvoices, VoucherTimes, LogsTold, OutboundTold
<1>3. ASSUME NEW i \in DOMAIN told, told[i].what = "SHIPPED" PROVE TimesOf("SHIPPED") = {told[i].at} /\ told[i].at \in Nat
  <2>1. ASSUME NEW j \in DOMAIN told, told[j].what = "SHIPPED" PROVE j = i
    <3>1. ~(i < Len(told)) /\ ~(j < Len(told))
      BY <1>3, <2>1 DEF AtPace
    <3> QED
      BY <3>1, ToldIs
  <2> QED
    BY <1>3, <2>1, ToldIs DEF TimesOf
<1>4. Shipments = TimesOf("SHIPPED")
  <2>1. CASE TimesOf("SHIPPED") = {}
    BY <1>2, <2>1 DEF Shipments
  <2>2. CASE TimesOf("SHIPPED") # {}
    <3>1. PICK i \in DOMAIN told : told[i].what = "SHIPPED"
      BY <2>2 DEF TimesOf
    <3>2. TimesOf("SHIPPED") = {told[i].at} /\ told[i].at \in Nat
      BY <1>3, <3>1
    <3>3. Earliest({told[i].at}) = told[i].at
      BY <3>2, EarliestIs
    <3> QED
      BY <1>2, <3>2, <3>3 DEF Shipments
  <2> QED
    BY <2>1, <2>2
<1> QED
  BY <1>1, <1>4

LEMMA TimelineTold ==
  ASSUME TripTables, HistoryOK
  PROVE  TimelineIsHistory
<1>1. AtPace /\ LogsTold /\ (Fresh <=> told = <<>>)
  BY DEF HistoryOK, AtPace, Fresh
<1>2. Special = Step("CANCELLED", TimesOf("CANCELLED"))
  <2> DEFINE I == {j \in DOMAIN told : told[j].what = "CANCELLED"}
  <2>1. I \in SUBSET DOMAIN told
    OBVIOUS
  <2>2. Batches({told[i].at : i \in I}) = {told[i].at : i \in I}
    BY <1>1, <2>1, ToldApart
  <2>3. Batches(LogTimes("CANCELLED")) = TimesOf("CANCELLED") /\ Batches(LogTimes("ROLLED_BACK")) = {}
    BY <1>1, <2>2, NoBatches DEF LogsTold, TimesOf
  <2>4. Step("ROLLED_BACK", {}) = {}
    BY DEF Step
  <2> QED
    BY <2>3, <2>4 DEF Special
<1>3. \A w : TimesOf(w) = {} => Step(w, TimesOf(w)) = {}
  BY DEF Step
<1>4. ToSet(told) = UNION {Step(w, TimesOf(w)) : w \in Words}
  BY ToldByWord
<1>5. ToSet(told) = Step("SAVED", TimesOf("SAVED")) \cup Step("SHIPPED", TimesOf("SHIPPED"))
                    \cup Step("CANCELLED", TimesOf("CANCELLED")) \cup Step("RECEIVED", TimesOf("RECEIVED"))
                    \cup Step("ROLLED_BACK", TimesOf("ROLLED_BACK"))
  BY <1>4 DEF Words
<1>6. Step("ROLLED_BACK", TimesOf("ROLLED_BACK")) = {}
  BY <1>1, <1>3 DEF LogsTold
<1>7. CASE Fresh
  <2>1. told = <<>> /\ \A w : TimesOf(w) = {}
    BY <1>1, <1>7 DEF TimesOf
  <2>2. Timeline = {}
    BY <1>2, <1>3, <1>7, <2>1 DEF Timeline
  <2> QED
    BY <1>3, <1>5, <2>1, <2>2 DEF TimelineIsHistory
<1>8. CASE ~Fresh /\ Is("INBOUND")
  <2>1. InboundTold /\ told # <<>>
    BY <1>1, <1>8, SideIs
  <2>2. Timeline = Special \cup (Step("SAVED", Created \cup Edited) \cup Step("RECEIVED", Receipts))
    BY <1>8 DEF Timeline
  <2>3. /\ TimesOf("SAVED") \subseteq Created \cup Edited
        /\ Created \cup Edited \subseteq TimesOf("SAVED") \cup Elsewhere
        /\ Receipts = TimesOf("RECEIVED")
    BY <1>1, <2>1, ReceiptsTold
  <2>4. Step("SHIPPED", TimesOf("SHIPPED")) = {}
    BY <1>3, <2>1 DEF InboundTold
  <2>5. EditsElsewhere = Elsewhere
    BY <1>8 DEF EditsElsewhere, Elsewhere
  <2>6. /\ Step("SAVED", TimesOf("SAVED")) \subseteq Step("SAVED", Created \cup Edited)
        /\ Step("SAVED", Created \cup Edited)
             \subseteq Step("SAVED", TimesOf("SAVED")) \cup Step("SAVED", EditsElsewhere)
    BY <2>3, <2>5 DEF Step
  <2> QED
    BY <1>2, <1>5, <1>6, <2>2, <2>3, <2>4, <2>6, Zenon DEF TimelineIsHistory
<1>9. CASE ~Fresh /\ ~Is("INBOUND")
  <2>1. OutboundTold
    <3>1. PICK i \in DOMAIN lines : TRUE
      <4>1. Len(lines) \in Nat /\ DOMAIN lines = 1 .. Len(lines) /\ Len(lines) # 0
        BY <1>9, LenProperties, EmptySeq DEF Fresh, TripTables
      <4> QED
        BY <4>1
    <3> QED
      BY <1>9, <3>1 DEF HistoryOK, InboundTold, AllOf, Is
  <2>2. Timeline = Special \cup (Step("SAVED", Notes) \cup Step("SHIPPED", Shipments))
    BY <1>9 DEF Timeline
  <2>3. Notes = TimesOf("SAVED") /\ Shipments = TimesOf("SHIPPED")
    BY <1>1, <2>1, DispatchesTold
  <2>4. Step("RECEIVED", TimesOf("RECEIVED")) = {}
    BY <1>3, <2>1 DEF OutboundTold
  <2> QED
    BY <1>2, <1>5, <1>6, <2>2, <2>3, <2>4 DEF TimelineIsHistory
<1> QED
  BY <1>7, <1>8, <1>9

(* Whatever the orders, the items of each note and the number of saves:     *)
(* worked on at the pace of people, a trip shows all of the history it had, *)
(* each step at its time, and beyond it at most a save at a time when a     *)
(* draft order of the note was changed elsewhere.  The rows are those the   *)
(* note handlers of warehouse.service write, read by getTripHistory.        *)
THEOREM ShownHistoryIsTrue ==
  ASSUME IsFiniteSet(Orders)
  PROVE  ReadsSpec => []HistoryIsTrue
<1> DEFINE Inv == TripTables /\ TripOK /\ (hands = "people" => HistoryOK)
<1>1. ReadsInit => Inv
  <2> SUFFICES ASSUME Init PROVE TripTables /\ TripOK /\ HistoryOK
    BY DEF ReadsInit, HandsInit
  <2>1. now = 0 /\ lines = <<>> /\ invoices = <<>> /\ logs = {} /\ closed = FALSE /\ told = <<>>
    BY DEF Init
  <2>2. TripTables /\ TripOK
    BY InitTrip
  <2>3. DOMAIN told = {} /\ DOMAIN lines = {} /\ DOMAIN invoices = {}
    BY <2>1
  <2>4. \A w : TimesOf(w) = {} /\ LogTimes(w) = {}
    BY <2>1, <2>3 DEF TimesOf, LogTimes
  <2>5. VoucherTimes(invoices) = {} /\ NoteTimes(lines) = {} /\ AllOf(lines, "OUTBOUND")
    BY <2>3 DEF VoucherTimes, NoteTimes, AllOf
  <2>6. AtPace
    BY <2>1, <2>3 DEF AtPace
  <2> QED
    BY <2>2, <2>4, <2>5, <2>6 DEF HistoryOK, LogsTold, OutboundTold
<1>2. Inv /\ [ReadsNext]_readsVars => Inv'
  <2> SUFFICES ASSUME Inv, [HandsNext]_<<vars, hands>> PROVE Inv'
    BY PartsStep
  <2>1. TripTables' /\ TripOK'
    BY TripStep DEF HandsNext, Next
  <2>2. CASE UNCHANGED <<vars, hands>>
    <3>1. UNCHANGED <<now, lines, invoices, logs, closed, upserted, told, hands>>
      BY <2>2 DEF vars, tables
    <3>2. /\ \A x : TimesOf(x)' = TimesOf(x) /\ LogTimes(x)' = LogTimes(x)
          /\ LaterSaves' = LaterSaves /\ ToldTimes' = ToldTimes
      BY <3>1 DEF TimesOf, LogTimes, LaterSaves, ToldTimes
    <3>3. HistoryOK => HistoryOK'
      BY <3>1, <3>2 DEF HistoryOK, AtPace, LogsTold, OutboundTold, InboundTold
    <3> QED
      BY <2>1, <3>1, <3>3
  <2>3. CASE HandsNext
    <3>1. hands' = "people" => HistoryOK'
      BY <2>3, ToldStep DEF HandsNext
    <3> QED
      BY <2>1, <3>1
  <2> QED
    BY <2>2, <2>3
<1>3. Inv => HistoryIsTrue
  BY TimelineTold DEF HistoryIsTrue
<1> QED
  BY <1>1, <1>2, <1>3, PTL DEF ReadsSpec
=============================================================================
