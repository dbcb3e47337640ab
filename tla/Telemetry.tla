------------------------------ MODULE Telemetry ------------------------------
(***************************************************************************)
(* Rates read from a worker's endpoint (ds4-gateway/endpoint-telemetry.mjs)*)
(* and the notebook that carries them over a restart of the dashboard      *)
(* (monitoring-history.mjs).  A worker id has one definition at a time; a  *)
(* sample of an earlier one may still be under way.  The engine behind a   *)
(* definition counts tokens, restarts, and may become another software.    *)
(*                                                                         *)
(* Of the counters the generated tokens are kept, of the rows the decode   *)
(* rates.  The time limits are multiples of one tick.                      *)
(***************************************************************************)
EXTENDS Naturals, Sequences
LOCAL INSTANCE FiniteSetsExt
LOCAL INSTANCE SequencesExt

CONSTANTS Definition,      \* keys the worker id may have: 1, 2
          MaxClock,        \* bound: time
          MaxCount,        \* bound: tokens of an engine
          MaxUpsets        \* bound: restarts, replacements and edits

VARIABLES tick, upsets,
          engine,      \* what serves behind the definitions
          meter,       \* EndpointTelemetry, for the one worker id
          probe,       \* its samples under way
          notebook     \* MonitoringHistory: what is loaded, and the file
telemetryVars == <<tick, upsets, engine, meter, probe, notebook>>

MetricSource == {"vllm", "omlx"}
Probe == {1, 2}          \* more are never under way with the bounds chosen
NoDefinition == 0
NoProbe == 0
PollTicks == 1
RetryTicks == 2
ValidTicks == 1          \* 30 s: the longest interval of a rate
HistoryTicks == 2        \* 15 min

(* A state; session, read and spans are what really happened: the session  *)
(* of the engine, the time of the reading, and whether the interval since  *)
(* the state before lies in one session.                                   *)
NoState == [source |-> "none", connected |-> FALSE, at |-> 0, session |-> 0, count |-> 0,
            read |-> 0, uptime |-> 0, interval |-> FALSE, spans |-> "none", retryAt |-> 0]
IdleProbe == [key |-> NoDefinition, at |-> "none", aborted |-> FALSE, known |-> "none",
              started |-> 0, value |-> NoState]
NoSaved == [key |-> NoDefinition, rows |-> <<>>]
FreshMeter == [closed |-> FALSE, key |-> NoDefinition, busy |-> NoProbe, state |-> NoState,
               rows |-> <<>>, cookies |-> {}]

TelemetryInit ==
    /\ tick = 0 /\ upsets = 0
    /\ \E s \in MetricSource : \E x \in {TRUE, s = "omlx"} :
         engine = [source |-> s, session |-> 1, count |-> 0, born |-> 0, exports |-> x]
    /\ meter = FreshMeter
    /\ probe = [n \in Probe |-> IdleProbe]
    /\ notebook = [loaded |-> NoSaved, disk |-> NoSaved]

Recent(rows, now) == SelectSeq(rows, LAMBDA r : r.time <= now /\ now - r.time < HistoryTicks)

----------------------------------------------------------------------------
(* The world: time, tokens, restarts, another software, edited definitions.*)
(* With it goes the timer of save: a failing one leaves the file.          *)
Saved == LET rows == Recent(meter.rows, tick) IN
    IF rows = <<>> THEN NoSaved ELSE [key |-> meter.key, rows |-> rows]
Ticks == /\ tick < MaxClock /\ tick' = tick + 1
         /\ notebook' \in {notebook} \cup
              (IF meter.closed THEN {} ELSE {[notebook EXCEPT !.disk = Saved]})
         /\ UNCHANGED <<upsets, engine, meter, probe>>
Generates == /\ engine.count < MaxCount
             /\ engine' = [engine EXCEPT !.count = @ + 1]
             /\ UNCHANGED <<tick, upsets, meter, probe, notebook>>
EngineRestarts ==
    /\ upsets + 2 <= MaxUpsets /\ upsets' = upsets + 2     \* bound: counts twice
    /\ \E s \in MetricSource : engine' = [engine EXCEPT !.session = @ + 1, !.count = 0,
                                                  !.born = tick, !.source = s]
    /\ UNCHANGED <<tick, meter, probe, notebook>>

(* sync of EndpointTelemetry, then of MonitoringHistory: what belongs to   *)
(* another definition goes, and a definition that appears gets its rows    *)
(* back from the notebook.                                                 *)
AbortPending(m, p) == IF m.busy = NoProbe THEN p ELSE [p EXCEPT ![m.busy].aborted = TRUE]
Forgotten(m) == [m EXCEPT !.state = NoState, !.rows = <<>>, !.cookies = {}, !.busy = NoProbe]
RestorableAny(k) == notebook.loaded.key # NoDefinition                      \* mutant
Restorable(k) == notebook.loaded.key = k
Sync(k) ==
    /\ ~meter.closed /\ k # meter.key
    /\ meter.key # NoDefinition => upsets < MaxUpsets
    /\ upsets' = IF meter.key = NoDefinition THEN upsets ELSE upsets + 1
    /\ LET kept == IF meter.key = NoDefinition THEN meter ELSE Forgotten(meter)
           back == k # NoDefinition /\ meter.key = NoDefinition /\ Restorable(k) IN
       /\ meter' = [kept EXCEPT !.key = k,
                        !.rows = IF back THEN Recent(notebook.loaded.rows, tick) ELSE @]
       /\ probe' = AbortPending(meter, probe)
       /\ notebook' = [notebook EXCEPT !.loaded = NoSaved]
    /\ UNCHANGED <<tick, engine>>

----------------------------------------------------------------------------
(* poll, and the start of sample.                                          *)
FirstAsked(st) == IF st.source = "omlx" THEN "omlx" ELSE "vllm"
PollBegins ==
    /\ ~meter.closed /\ meter.key # NoDefinition /\ meter.busy = NoProbe
    /\ tick >= meter.state.retryAt
    /\ \E n \in Probe :
         /\ probe[n].at = "none" /\ \A i \in Probe : i < n => probe[i].at # "none"
         /\ meter' = [meter EXCEPT !.busy = n]
         /\ probe' = [probe EXCEPT ![n] = [IdleProbe EXCEPT !.key = meter.key, !.at = "asks",
                          !.known = meter.state.source, !.started = tick,
                          !.value = [NoState EXCEPT !.source = FirstAsked(meter.state)]]]
    /\ UNCHANGED <<tick, upsets, engine, notebook>>

(* The endpoint answers a read, or it has no such page.                    *)
EngineAnswers(n) == LET p == probe[n]  e == engine IN
    /\ p.at \in {"asks", "asksOther"}
    /\ probe' = [probe EXCEPT ![n] =
           IF e.source # p.value.source
           THEN [p EXCEPT !.at = IF p.at = "asks" THEN "wrong" ELSE "wrongToo"]
           ELSE [p EXCEPT !.at = "heard", !.value.session = e.session, !.value.count = e.count,
                          !.value.read = IF e.source = "omlx" THEN tick ELSE 0,
                          !.value.uptime = IF e.source = "omlx" THEN tick - e.born ELSE 0]]
    /\ UNCHANGED <<tick, upsets, engine, meter, notebook>>

(* vllmSnapshot, omlxSnapshot: a rate or a number of tokens only of an     *)
(* interval that is valid, in which the counter has not gone back.         *)
ValidInterval(b) == b.source # "none" /\ b.connected /\ tick > b.at /\ tick - b.at <= ValidTicks
Epoch(g) == IF engine.exports THEN g.session ELSE 0      \* generation_tokens_created
SameSessionAny(b, g) == TRUE                                             \* mutant
SameSession(b, g) == IF g.source = "vllm" THEN Epoch(g) = Epoch(b) ELSE g.uptime >= b.uptime
Spans(b, g) == CASE b.session = g.session -> "one session"
                 [] b.session # g.session /\ b.uptime <= g.read - b.read -> "young session"
                 [] OTHER -> "two sessions"
Snapshot(b0, g) == LET b == IF b0.source = g.source THEN b0 ELSE NoState
                       valid == ValidInterval(b) /\ g.count >= b.count /\ SameSession(b, g) IN
    [g EXCEPT !.at = tick, !.connected = TRUE, !.interval = valid,
              !.spans = IF valid THEN Spans(b, g) ELSE "none"]

(* current(), and the end of sample.                                       *)
CurrentAlways(n) == TRUE                                                 \* mutant
CurrentRead(n) == ~meter.closed /\ meter.key = probe[n].key /\ meter.busy = n
Finished(m, n) == [m EXCEPT !.busy = IF @ = n THEN NoProbe ELSE @,
    !.cookies = IF m.closed \/ m.key # probe[n].key THEN @ \ {probe[n].key} ELSE @]
ReadEnds(n, m) == /\ meter' = Finished(m, n)
              /\ probe' = [probe EXCEPT ![n] = IdleProbe]
              /\ UNCHANGED <<tick, upsets, engine, notebook>>

(* While a sample is current the state is the one it found (before).       *)
Rate(v) == v.interval /\ v.count > meter.state.count
KeptRows(b, v) == IF b # "none" /\ b # v.source THEN <<>>
                  ELSE SelectSeq(Recent(meter.rows, v.at), LAMBDA r : r.source = v.source)
SampleStored(n, v, rate) == LET p == probe[n] IN
    ReadEnds(n, IF ~CurrentRead(n) THEN meter
            ELSE [meter EXCEPT !.state = [v EXCEPT !.retryAt = Max({p.started + PollTicks, tick})],
                     !.rows = KeptRows(p.known, v) \o
                         IF rate THEN <<[time |-> v.at, source |-> v.source, key |-> p.key]>> ELSE <<>>])

(* A vllm answer is stored at once; for oMLX its activity page is asked    *)
(* next, unless it failed a short time ago.                                *)
SampleHeard(n) == LET p == probe[n]  v == Snapshot(meter.state, p.value) IN
    /\ p.at = "heard"
    /\ IF v.source = "vllm" THEN SampleStored(n, v, Rate(v))
       ELSE \/ SampleStored(n, v, FALSE)
            \/ /\ probe' = [probe EXCEPT ![n].at = "activity", ![n].value = v]
               /\ UNCHANGED <<tick, upsets, engine, meter, notebook>>
(* activity: a cookie that does not serve is dropped, and a login stores a *)
(* new one unless the sample was aborted meanwhile.                        *)
ActivityKnown(n) == /\ probe[n].at = "activity" /\ \E r \in BOOLEAN : SampleStored(n, probe[n].value, r)
LogsIn(n) ==
    /\ probe[n].at = "activity" /\ ~probe[n].aborted
    /\ meter' = [meter EXCEPT !.cookies = @ \cup {probe[n].key}]
    /\ UNCHANGED <<tick, upsets, engine, probe, notebook>>
CookieFails(n) ==
    /\ probe[n].at = "activity"
    /\ meter' = [meter EXCEPT !.cookies = @ \ {probe[n].key}]
    /\ UNCHANGED <<tick, upsets, engine, probe, notebook>>

(* A wrong page: the other software is tried once.  Any failure of the     *)
(* first read has the same effect when nothing is known of the endpoint.   *)
Rediscovers(n) == LET p == probe[n] IN
    /\ p.at = "wrong" \/ (p.at = "asks" /\ p.known = "none")
    /\ probe' = [probe EXCEPT ![n].at = "asksOther",
                     ![n].value.source = IF @ = "vllm" THEN "omlx" ELSE "vllm"]
    /\ UNCHANGED <<tick, upsets, engine, meter, notebook>>
(* Timeouts, refusals, aborts, and no page at all.                         *)
SampleFails(n) == LET p == probe[n] IN
    /\ p.at \in {"asks", "asksOther", "wrongToo"} /\ (p.at = "asks" => p.known # "none")
    /\ ReadEnds(n, IF ~CurrentRead(n) THEN meter
               ELSE [meter EXCEPT !.state.connected = FALSE, !.state.retryAt = tick + RetryTicks])

----------------------------------------------------------------------------
(* close, then another process, or a crash: what the notebook holds is     *)
(* loaded, and samples of the old process are gone.                        *)
Closes ==
    /\ ~meter.closed /\ upsets < MaxUpsets /\ upsets' = upsets + 1
    /\ notebook' = [notebook EXCEPT !.disk = Saved]
    /\ meter' = [meter EXCEPT !.closed = TRUE, !.cookies = {}]
    /\ probe' = AbortPending(meter, probe)
    /\ UNCHANGED <<tick, engine>>
MonitorStarts ==
    /\ meter.closed \/ upsets < MaxUpsets
    /\ upsets' = IF meter.closed THEN upsets ELSE upsets + 1
    /\ meter' = FreshMeter /\ probe' = [n \in Probe |-> IdleProbe]
    /\ notebook' = [notebook EXCEPT !.loaded =
           [notebook.disk EXCEPT !.rows = Recent(notebook.disk.rows, tick)]]
    /\ UNCHANGED <<tick, engine>>

TelemetryNext ==
    \/ Ticks \/ Generates \/ EngineRestarts \/ PollBegins \/ Closes \/ MonitorStarts
    \/ \E k \in Definition \cup {NoDefinition} : Sync(k)
    \/ \E n \in Probe : \/ EngineAnswers(n) \/ SampleHeard(n) \/ ActivityKnown(n) \/ LogsIn(n)
                        \/ CookieFails(n) \/ Rediscovers(n) \/ SampleFails(n)

----------------------------------------------------------------------------
(* Rows shown are of the worker's present definition, through edits, late  *)
(* samples and restarts of the dashboard; they are in order and, once the  *)
(* endpoint is known, of one software.                                     *)
RowsOfWorker ==
    /\ \A i \in 1..Len(meter.rows) : LET r == meter.rows[i] IN
         /\ r.key = meter.key
         /\ meter.state.source # "none" => r.source = meter.state.source
         /\ \A j \in 1..(i - 1) : meter.rows[j].time <= r.time
    /\ meter.state # NoState => meter.key # NoDefinition
(* Tokens are counted within one session of the engine where it exports    *)
(* when its counters began; for oMLX, unless the earlier session was       *)
(* younger than the interval.                                              *)
IntervalsTrue == LET v == meter.state IN
    v.interval =>
        /\ v.source = "vllm" /\ engine.exports => v.spans = "one session"
        /\ v.source = "omlx" => v.spans # "two sessions"
(* A login is kept only for the present definition of a running dashboard. *)
LoginsOwned == meter.cookies \subseteq (IF meter.closed THEN {} ELSE {meter.key})
TelemetrySound == RowsOfWorker /\ IntervalsTrue /\ LoginsOwned
=============================================================================
