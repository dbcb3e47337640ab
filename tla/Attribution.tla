----------------------------- MODULE Attribution -----------------------------
(***************************************************************************)
(* EngineAttribution of ds4-gateway/attribution.mjs: the engine's prompt   *)
(* starts are associated with the gateway's request windows by time alone. *)
(* Rows of the two logs arrive in any order, again after a rescan, and with*)
(* contradictions; memory of both is pruned by age and by number.          *)
(***************************************************************************)
EXTENDS Naturals, FiniteSets, Sequences
LOCAL INSTANCE FiniteSetsExt
LOCAL INSTANCE SequencesExt

CONSTANTS AttrRequest, AttrStart,
          AttrTruth,        \* what may happen to the requests: sent, done and usage of each
          MaxOddRows        \* bound: rows that contradict the others of a request

Skew == 1              \* ATTRIBUTION_CLOCK_TOLERANCE_MS
MaxLead == 2           \* MAX_DISPATCH_LEAD_MS
WindowAge == 1         \* WINDOW_MS
OpenSpan == 3          \* MAX_OPEN_SPAN_MS
MaxHeld == 2           \* MAX_RECORDS
MaxOverlap == 2        \* MAX_OVERLAP_CANDIDATES

VARIABLES windows,     \* requests: gateway rows by request, in order of arrival (0: not seen)
          starts,      \* starts: engine samples in order of arrival, with their private guards
          latest,      \* the newest clock of any row
          owners,      \* rows: the request each held start is associated with
          rivals,      \* history: requests that were candidates of a held start together
          truth,       \* external: what happened to each request, which its rows report
          oddRows
attributionVars == <<windows, starts, latest, owners, rivals, truth, oddRows>>

NoWindow == [id |-> 0, nodes |-> {}, sent |-> 0, sentLast |-> 0, done |-> 0, doneLast |-> 0,
             usage |-> 0, conflict |-> FALSE, inverted |-> FALSE]
NoOwner == [request |-> 0, status |-> "abstained"]

AttributionInit ==
    /\ windows = <<>> /\ starts = <<>> /\ latest = 0 /\ oddRows = 0
    /\ truth \in AttrTruth
    /\ owners = [s \in AttrStart |-> NoOwner]
    /\ rivals = [s \in AttrStart |-> {}]

(* The record of a key, and the map with a record set.                     *)
Held(map, id) == \E i \in 1..Len(map) : map[i].id = id
Of(map, id) == CHOOSE row \in Range(map) : row.id = id
Put(map, row) ==
    IF Held(map, row.id) THEN [i \in 1..Len(map) |-> IF map[i].id = row.id THEN row ELSE map[i]]
    ELSE Append(map, row)
Earlier(old, t) == IF old = 0 THEN t ELSE Min({old, t})
Later(old, t) == Max({old, t})

(* candidateWindows, of the unconflicted windows with a dispatch.          *)
Candidates(s, ws) == {w.id : w \in {x \in Range(ws) :
    /\ x.sent # 0 /\ 1 \in x.nodes
    /\ x.sent <= s.time + Skew /\ s.time <= x.sent + MaxLead
    /\ x.done = 0 \/ x.done + Skew >= s.time}}
Clean(ws) == SelectSeq(ws, LAMBDA w : w.sent # 0 /\ ~w.conflict)
(* conflictMayOverlap *)
ConflictMayOverlap(s, w) ==
    /\ w.conflict /\ 1 \in w.nodes
    /\ w.sent # 0 => w.sent <= s.time + Skew /\ w.sentLast + MaxLead >= s.time
    /\ w.inverted \/ w.done = 0 \/ w.doneLast + Skew >= s.time

----------------------------------------------------------------------------
(* captureOverlaps: two candidates at one time, and any contradictory one, *)
(* are remembered on the sample before anything is pruned.                 *)
CapturedNever(s, ws) == s                                                \* mutant
Captured(s, ws) ==
    LET c == Candidates(s, Clean(ws))
        room == MaxOverlap - Cardinality(s.overlap)
        new == c \ s.overlap
        kept == IF Cardinality(new) <= room THEN new
                ELSE CHOOSE k \in SUBSET new : Cardinality(k) = room
        doubt == [s EXCEPT !.doubted = @ \/ \E w \in Range(ws) : ConflictMayOverlap(s, w)] IN
    IF Cardinality(c) < 2 THEN doubt
    ELSE [doubt EXCEPT !.overlap = @ \cup kept, !.overflow = @ \/ Cardinality(new) > room,
                       !.settled = @ /\ kept = {}]

(* prune: by age, protecting the windows of an unsettled overlap; then by  *)
(* number, the unprotected oldest first.                                   *)
Protected(ss, now) == UNION {s.overlap : s \in {x \in Range(ss) : ~x.settled /\ x.time + OpenSpan >= now}}
EvictOne(ws, keep) ==
    LET loose == {i \in 1..Len(ws) : ws[i].id \notin keep} IN
    RemoveAt(ws, IF loose = {} THEN 1 ELSE Min(loose))
PrunedWindows(ws, ss, now) == LET safe == Protected(ss, now) IN
    SelectSeq(ws, LAMBDA w : w.id \in safe
        \/ IF w.done # 0 THEN w.doneLast + WindowAge >= now ELSE w.sentLast + OpenSpan >= now)
PrunedStarts(ws, ss, now) ==
    SelectSeq(ss, LAMBDA s :
        /\ s.time + OpenSpan >= now
        /\ \/ s.time + WindowAge >= now
           \/ Candidates(s, ws) # {}
           \/ \E w \in Range(ws) : w.sent # 0 /\ ConflictMayOverlap(s, w))
Capped(ws, ss, now) == IF Len(ws) > MaxHeld THEN EvictOne(ws, Protected(ss, now)) ELSE ws
CappedStarts(ss) == IF Len(ss) > MaxHeld THEN Tail(ss) ELSE ss

(* result: the request of one start, before the starts are compared.       *)
Usable(w) == w.done # 0 /\ w.usage # 0
Result(s, ws) ==
    LET c == Candidates(s, ws)
        all == {w \in Range(ws) : w.id \in c}
        match == {w \in all : w.usage = s.prompt} IN
    CASE s.doubted \/ s.overflow \/ (Cardinality(s.overlap) > 1 /\ ~(s.overlap \subseteq c))
           \/ c = {} -> NoOwner
      [] OTHER ->
          IF Cardinality(c) > 1
          THEN IF (\A w \in all : Usable(w)) /\ Cardinality(match) = 1
               THEN [request |-> (CHOOSE w \in match : TRUE).id, status |-> "corroborated"] ELSE NoOwner
          ELSE LET w == CHOOSE x \in all : TRUE IN [request |-> w.id, status |-> "candidate"]
(* reconcile: a request of two starts is nobody's, and usage decides a     *)
(* unique window.                                                          *)
Decided(s, ss, ws) ==
    LET r == Result(s, ws)
        w == Of(ws, r.request) IN
    IF r.request = 0 \/ \E t \in Range(ss) \ {s} : Result(t, ws).request = r.request THEN NoOwner
    ELSE IF r.status = "corroborated" \/ ~Usable(w) THEN r
    ELSE IF w.usage = s.prompt THEN [r EXCEPT !.status = "corroborated"] ELSE NoOwner
Settled(s, ws) ==
    IF Cardinality(s.overlap) > 1 /\ ~s.overflow /\ ~s.settled
    THEN [s EXCEPT !.settled = \A q \in s.overlap : q \in Candidates(s, ws) /\ Of(ws, q).done # 0]
    ELSE s

(* (Bound by \E, what is held is computed once.)                            *)
Reconciled(ws0, ss0, now) ==
    \E ss1 \in {[i \in 1..Len(ss0) |-> Captured(ss0[i], ws0)]} :
    \E ws1 \in {PrunedWindows(ws0, ss1, now)} :
    \E ws2 \in {Capped(ws1, ss1, now)}, ss2 \in {CappedStarts(PrunedStarts(ws1, ss1, now))} :
    LET clean == Clean(ws2) IN
    /\ windows' = ws2
    /\ starts' = [i \in 1..Len(ss2) |-> Settled(ss2[i], clean)]
    /\ owners' = [s \in AttrStart |-> IF Held(ss2, s) THEN Decided(Of(ss2, s), ss2, clean) ELSE NoOwner]
    /\ rivals' = [s \in AttrStart |->
          IF ~Held(ss2, s) THEN {}
          ELSE LET c == Candidates(Of(ss2, s), Clean(ws0)) IN
               rivals[s] \cup IF Cardinality(c) > 1 THEN c ELSE {}]
    /\ latest' = now

----------------------------------------------------------------------------
(* acceptGateway *)
WindowOf(id) == IF Held(windows, id) THEN Of(windows, id) ELSE [NoWindow EXCEPT !.id = id]
Inverted(w) ==
    IF w.done # 0 /\ w.sentLast # 0 /\ w.done < w.sentLast
    THEN [w EXCEPT !.conflict = TRUE, !.inverted = TRUE] ELSE w
Sent(w, t, n) ==
    Inverted([w EXCEPT !.nodes = @ \cup {n}, !.sent = Earlier(@, t), !.sentLast = Later(@, t),
                       !.conflict = @ \/ w.nodes \notin {{}, {n}} \/ w.sent \notin {0, t}])
Done(w, t, u) ==
    Inverted([w EXCEPT !.nodes = @ \cup {1}, !.done = Earlier(@, t), !.doneLast = Later(@, t),
                       !.usage = IF w.done = 0 THEN u ELSE @,
                       !.conflict = @ \/ w.nodes \notin {{}, {1}}
                                      \/ (w.done # 0 /\ (w.done # t \/ w.usage # u))])
Rows(id) == LET w == WindowOf(id) IN
    {Sent(w, truth[id].sent, 1), Done(w, truth[id].done, truth[id].usage)}
OddRows(id) == LET w == WindowOf(id) IN
    {Sent(w, truth[id].sent + 1, 1), Sent(w, truth[id].sent, 2), Done(w, truth[id].done - 1, 1)}
Clock(w) == Later(w.sentLast, w.doneLast)
GatewayRow(id) ==
    /\ UNCHANGED <<truth, oddRows>>
    /\ \E w \in Rows(id) : Reconciled(Put(windows, w), starts, Later(latest, Clock(w)))
OddRow(id) ==
    /\ oddRows < MaxOddRows /\ oddRows' = oddRows + 1 /\ UNCHANGED truth
    /\ \E w \in OddRows(id) : Reconciled(Put(windows, w), starts, Later(latest, Clock(w)))
(* acceptEngine: a replay keeps the guards of the sample it repeats.       *)
EngineRow(id) ==
    /\ UNCHANGED <<truth, oddRows>>
    /\ LET s == IF Held(starts, id) THEN Of(starts, id)
                ELSE [id |-> id, time |-> id + 1, prompt |-> 1, doubted |-> FALSE, overlap |-> {},
                      overflow |-> FALSE, settled |-> FALSE] IN
       Reconciled(windows, Put(starts, s), Later(latest, s.time))

AttributionNext ==
    \/ \E id \in AttrRequest : GatewayRow(id) \/ OddRow(id)
    \/ \E id \in AttrStart : EngineRow(id)

----------------------------------------------------------------------------
(* Once several requests were possible owners of an engine start, forgetting*)
(* some of them, by age, number or contradiction, never makes another look *)
(* like the only one: the start is associated only while all of them are   *)
(* held, complete and unanimous.  No request owns two starts.              *)
AttributionSound ==
    \A s \in AttrStart : owners[s].request # 0 =>
        /\ \A q \in rivals[s] : Held(windows, q) /\ Usable(Of(windows, q)) /\ ~Of(windows, q).conflict
        /\ rivals[s] # {} => {q \in rivals[s] : Of(windows, q).usage = 1} = {owners[s].request}
        /\ \A z \in AttrStart \ {s} : owners[z].request # owners[s].request
=============================================================================
