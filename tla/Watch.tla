------------------------------- MODULE Watch -------------------------------
(***************************************************************************)
(* Client Watch (ds4-gateway/client-watch.mjs): what clients say of their  *)
(* own state, in heartbeats that may be repeated and overtake each other,  *)
(* beside what the gateway knows of their last request.  The table is      *)
(* bounded and forgets, so it may be incomplete; it must not be wrong.     *)
(***************************************************************************)
EXTENDS Naturals, Sequences

CONSTANTS WatchId,
          WatchedRequest,   \* 1..n, each of a client that gives a watch id
          OfWatch,          \* the client of each
          MaxWatched,       \* maxEntries
          MaxBeats          \* bound: heartbeats a client sends

VARIABLES watch,    \* the entries, by lastSeen
          beats,    \* the states a client has sent, numbered
          watchStage     \* what has become of each request
watchVars == <<watch, beats, watchStage>>

ClientState == {"waiting_for_model", "done"}   \* the other states are shown like done
OverStage == {"complete", "incomplete", "failed", "cancelled", "rejected"}
NoWatched == 0
WatchInit == /\ watch = <<>> /\ beats = [i \in WatchId |-> <<>>]
             /\ watchStage = [r \in WatchedRequest |-> "none"]

Entry(w, i) == CHOOSE k \in 1..Len(w) : w[k].id = i
Known(w, i) == \E k \in 1..Len(w) : w[k].id = i

(* cleanup: what is past its time goes, then the least recently seen.      *)
Cleanup(w) == LET live == SelectSeq(w, LAMBDA e : e.age < 2) IN
    IF Len(live) <= MaxWatched THEN live
    ELSE SubSeq(live, Len(live) - MaxWatched + 1, Len(live))

NewEntry(i, st, n, seen) == [id |-> i, state |-> st, seq |-> n, seen |-> seen, age |-> 0,
                             req |-> NoWatched, reqState |-> "none"]

(* heartbeat: an accepted one makes the entry the most recently seen.      *)
StaleBeat(e, n) == e.seen /\ n <= e.seq
Heartbeat(w, i, n, st) == LET e == w[Entry(w, i)] IN
    CASE ~Known(w, i) -> Append(w, NewEntry(i, st, n, TRUE))
      [] Known(w, i) /\ StaleBeat(e, n) -> w
      [] OTHER -> Append(SelectSeq(w, LAMBDA x : x.id # i),
                         [e EXCEPT !.state = st, !.seq = n, !.seen = TRUE, !.age = 0])

(* observeRequest: only the client's last request is followed.             *)
FollowsAny(e, r) == e.req # NoWatched                                  \* mutant
WatchFollows(e, r) == e.req = r
ObserveRequest(w, r, st) ==
    LET i == OfWatch[r]
        v == IF Known(w, i) THEN w ELSE Append(w, NewEntry(i, "waiting_for_model", 0, FALSE))
        k == Entry(v, i) IN
    CASE st = "received" -> [v EXCEPT ![k].req = r, ![k].reqState = st]
      [] st # "received" /\ WatchFollows(v[k], r) -> [v EXCEPT ![k].reqState = st]
      [] OTHER -> v

----------------------------------------------------------------------------
(* A client goes on and says so; what it sent arrives at any time, again,  *)
(* or never.                                                               *)
Beats(i) ==
    /\ Len(beats[i]) < MaxBeats
    /\ \E st \in ClientState : beats' = [beats EXCEPT ![i] = Append(@, st)]
    /\ UNCHANGED <<watch, watchStage>>
BeatArrives(i) ==
    /\ \E n \in 1..Len(beats[i]) : watch' = Cleanup(Heartbeat(Cleanup(watch), i, n, beats[i][n]))
    /\ UNCHANGED <<beats, watchStage>>

(* The gateway's calls: on arrival, when a request is queued or parked,    *)
(* dispatched, rejected or cancelled, and when its exchange is settled.    *)
After(st) == CASE st = "none" -> {"received"}
               [] st = "received" -> {"queued", "rejected"}
               [] st = "queued" -> {"queued", "dispatched", "rejected", "cancelled"}
               [] st = "dispatched" -> {"complete", "incomplete", "failed", "cancelled"}
               [] OTHER -> {}
RequestMoves(r) ==
    /\ \E st \in After(watchStage[r]) :
         /\ st = "received" => \A q \in WatchedRequest : q < r => watchStage[q] # "none"
         /\ watchStage' = [watchStage EXCEPT ![r] = st]
         /\ watch' = Cleanup(ObserveRequest(Cleanup(watch), r, st))
    /\ UNCHANGED beats
(* A request with an unknown model route is answered 400 and not reported. *)
RouteUnknown(r) ==
    /\ watchStage[r] = "received" /\ watchStage' = [watchStage EXCEPT ![r] = "unrouted"]
    /\ UNCHANGED <<watch, beats>>

(* Time passes for the entries that were seen least recently.              *)
WatchAges ==
    /\ \E k \in 1..Len(watch) :
         /\ watch[k].age < 2
         /\ watch' = [j \in 1..Len(watch) |-> IF j <= k /\ watch[j].age < 2
                                              THEN [watch[j] EXCEPT !.age = @ + 1] ELSE watch[j]]
    /\ UNCHANGED <<beats, watchStage>>

WatchNext ==
    \/ WatchAges
    \/ \E i \in WatchId : Beats(i) \/ BeatArrives(i)
    \/ \E r \in WatchedRequest : RequestMoves(r) \/ RouteUnknown(r)

----------------------------------------------------------------------------
(* diagnosis, of an entry that snapshot shows.                             *)
Diagnosis(e) == CASE e.age > 0 -> "heartbeat_stale_unknown"
                  [] e.state # "waiting_for_model" -> e.state
                  [] e.req = NoWatched -> "waiting_to_reach_dsg"
                  [] e.reqState \in {"received", "queued"} -> "waiting_inside_dsg"
                  [] e.reqState = "dispatched" -> "model_response_active"
                  [] OTHER -> "client_processing_after_dsg"

(* Whatever is repeated, overtaken or forgotten: an entry shows the state  *)
(* its client sent with that number; the request it shows is the client's  *)
(* last one, as it stands in the gateway; so a diagnosis of work in the    *)
(* gateway, at the model or after it is true.  An unrouted request is the  *)
(* exception the code has: it stays "received".                            *)
WatchTrue == \A k \in 1..Len(watch) : LET e == watch[k] IN
    /\ e.seen => e.state = beats[e.id][e.seq]
    /\ e.req # NoWatched =>
         /\ OfWatch[e.req] = e.id
         /\ e.reqState = watchStage[e.req] \/ (e.reqState = "received" /\ watchStage[e.req] = "unrouted")
         /\ \A r \in WatchedRequest : (r > e.req /\ OfWatch[r] = e.id) => watchStage[r] = "none"
    /\ Diagnosis(e) = "model_response_active" => watchStage[e.req] = "dispatched"
    /\ Diagnosis(e) = "client_processing_after_dsg" => watchStage[e.req] \in OverStage
    /\ \A j \in 1..Len(watch) : watch[j].id = e.id => j = k
(* And the table is bounded.                                               *)
WatchSound == WatchTrue /\ Len(watch) <= MaxWatched
=============================================================================
