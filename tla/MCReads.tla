------------------------------- MODULE MCReads -------------------------------
(***************************************************************************)
(* The read side: the figures of the dashboards, or the history of a trip.  *)
(* The two share no table; a behaviour is about one of them, and the other's *)
(* tables stay as they were.                                                *)
(***************************************************************************)
EXTENDS MCStatsCache, MCTripTimeline

VARIABLE view
readsVars == <<cacheVars, weather, vars, hands, view>>

(* The two orders are alike: of a behaviour and the same with the orders    *)
(* swapped, one is enough.                                                  *)
FirstOf(S) == o2 \in S => o1 \in S

ReadsInit ==
  /\ WeatherInit /\ HandsInit
  /\ \/ view = "figures" /\ hands = "people" /\ draft = {} /\ coming = {}
     \/ /\ view = "history" /\ weather = "outages"
        /\ FirstOf(draft)
        /\ (o1 \in draft <=> o2 \in draft) => FirstOf(coming)

ReadsNext ==
  /\ \/ view = "figures" /\ WeatherNext /\ UNCHANGED <<vars, hands>>
     \/ view = "history" /\ HandsNext /\ UNCHANGED <<cacheVars, weather>>
  /\ UNCHANGED view

(* Fairness of StatsCache, where the figures are looked at.                 *)
Looked(A) == view = "figures" /\ A
ReadsFairness ==
  /\ \A r \in Readers : WF_cacheVars(Looked(Query(r))) /\ WF_cacheVars(Looked(Set(r)))
  /\ \A k \in Keys : WF_cacheVars(Looked(Delete(k)))
  /\ WF_cacheVars(Looked(HalfMinute))

ReadsSpec == ReadsInit /\ [][ReadsNext]_readsVars /\ ReadsFairness
===============================================================================
