----------------------------- MODULE MCStatsCache -----------------------------
(***************************************************************************)
(* Figures of the warehouse, the trips and the notices.  A behaviour is one *)
(* of three: outages and restarts, slow readers and writers that delete     *)
(* nothing; the same with two statistics and readers that take less than    *)
(* half a minute; a Redis that answers, with writers that delete what they  *)
(* make stale and no commit between a query and its store.                  *)
(***************************************************************************)
EXTENDS StatsCache

CONSTANTS r1, r2, today

TwoReaders == {r1, r2}
OneRange == {today}
Figures == {"warehouse:kpi", "trips:stats", "notifications:stats"}

VARIABLE weather

Only(stats, versions, readers) ==
  /\ \A s \in Stats : data[s] <= IF s \in stats THEN versions ELSE 0
  /\ \A r \in Readers : req[r].at # "idle" => req[r].key[1] \in stats
  /\ Cardinality({r \in Readers : req[r].at # "idle"}) <= readers

WeatherInit == CacheInit /\ weather \in {"outages", "swift", "fair"}
WeatherNext ==
  /\ \/ weather = "outages" /\ CacheNext /\ Only({"warehouse:kpi"}, 2, 2)'
     \/ weather = "swift" /\ SwiftNext /\ Only({"warehouse:kpi", "notifications:stats"}, 1, 2)'
     \/ weather = "fair" /\ SweptNext /\ Only({"warehouse:kpi", "trips:stats"}, 2, 1)'
  /\ UNCHANGED weather

-----------------------------------------------------------------------------
(* Once nobody writes any more the dashboards catch up by themselves: every *)
(* value left in Redis is the database's, whatever deletions were lost,     *)
(* whatever restarts there were and however slow a reader was.              *)
FiguresCatchUp == weather = "outages" => FreshAgain

(* A stale figure is always about to go: its key is being deleted when      *)
(* nothing failed and nobody overlapped; and with queries shorter than half *)
(* a minute it is gone within a minute even when its deletion was lost or   *)
(* came before it was stored.                                               *)
StaleFiguresLeave ==
  CASE weather = "fair" -> StaleIsBeingDeleted
    [] weather = "swift" -> AtMostAMinuteOld
    [] OTHER -> TRUE
===============================================================================
