------------------------------ MODULE Uploads ------------------------------
(***************************************************************************)
(* Request bodies read ahead while their request waits                     *)
(* (ds4-gateway/queued-request-body.mjs): what is captured is bounded per  *)
(* body and, by a budget, over all bodies, is shown to the preview once    *)
(* whole, and is handed to the upstream request before the rest.           *)
(*                                                                         *)
(* Callbacks run to their end; a microtask runs before the next one.  A    *)
(* chunk is one unit.  Of a stream of Node it is used that new data and    *)
(* the end of it are announced, the latter only after a read().            *)
(***************************************************************************)
EXTENDS Naturals, Sequences
LOCAL INSTANCE FiniteSetsExt
LOCAL INSTANCE SequencesExt

CONSTANTS Upload,
          MaxSize,     \* bound: units of a body
          BodyLimit,   \* THINKING_CAPTURE_BYTES
          BodyBudget   \* QueuedBodyBudget.limit

VARIABLE intake
uploadVars == <<intake>>

NoSeen == MaxSize + 1
FreshBody(n) == [size |-> n, arrived |-> 0, eof |-> FALSE, polled |-> FALSE, ended |-> FALSE,
             taken |-> 0, bytes |-> 0, given |-> 0, at |-> "none", demand |-> FALSE,
             over |-> FALSE, seen |-> NoSeen]
UploadsInit == \E n \in [Upload -> 0..MaxSize] :
    intake = [up |-> [u \in Upload |-> FreshBody(n[u])], used |-> 0, waiters |-> <<>>, scheduled |-> FALSE]

Up(u) == intake.up[u]
Available(s) == BodyBudget - s.used
Unwait(s, u) == [s EXCEPT !.waiters = Remove(@, u)]

(* release: who waits for the budget is woken in a microtask.              *)
ReleaseSilently(s, n) == [s EXCEPT !.used = @ - n]                 \* mutant
Release(s, n) == [s EXCEPT !.used = @ - n, !.scheduled = @ \/ s.waiters # <<>>]

(* read(0): lets the stream announce its end.                              *)
Poll(b) == [b EXCEPT !.polled = b.eof /\ b.taken = b.size]

Capture(s, u) == LET b == s.up[u]
                     n == Min({b.arrived - b.taken, BodyLimit - b.bytes, Available(s)}) IN
    IF b.at # "capturing" THEN s
    ELSE LET t == [Unwait(s, u) EXCEPT !.used = @ + n,
                     !.up[u] = Poll([b EXCEPT !.taken = @ + n, !.bytes = @ + n])] IN
         IF b.bytes + n < BodyLimit /\ Available(t) = 0
         THEN [t EXCEPT !.waiters = Append(@, u)] ELSE t

(* pull: n units are pushed before the output is full; what was captured   *)
(* goes first, then what the request still holds.                          *)
CanPush(b) == b.bytes + (b.arrived - b.taken)
Pull(s, u, n, full) == LET b == s.up[u]
                           k == Min({n, b.bytes})
                           c == [b EXCEPT !.bytes = @ - k, !.taken = @ + (n - k), !.given = @ + n]
                           done == n = CanPush(b) /\ ~full IN
    [Release(s, k) EXCEPT !.up[u] =
        CASE ~done -> [c EXCEPT !.demand = FALSE]
          [] done /\ b.ended -> [Poll(c) EXCEPT !.demand = FALSE, !.over = TRUE]
          [] OTHER -> Poll(c)]
Pulls(s, u) == LET n == CanPush(s.up[u]) IN
    IF ~s.up[u].demand THEN {s}
    ELSE IF n = 0 THEN {Pull(s, u, 0, FALSE)} ELSE {Pull(s, u, k, full) : k \in 1..n, full \in BOOLEAN}

(* The readable event.                                                     *)
BodyReadable(s, u) == IF s.up[u].at = "streaming" THEN Pulls(s, u) ELSE {Capture(s, u)}

----------------------------------------------------------------------------
Callback == ~intake.scheduled

(* The request waits for a worker, and reading ahead begins.               *)
Queues(u) ==
    /\ Callback /\ Up(u).at = "none"
    /\ intake' = Capture([intake EXCEPT !.up[u].at = "capturing"], u)

Arrives(u) ==
    /\ Callback /\ Up(u).arrived < Up(u).size /\ Up(u).at # "disposed"
    /\ intake' \in BodyReadable([intake EXCEPT !.up[u].arrived = @ + 1], u)

AllArrived(u) ==
    /\ Callback /\ Up(u).arrived = Up(u).size /\ ~Up(u).eof /\ Up(u).at # "disposed"
    /\ intake' \in BodyReadable([intake EXCEPT !.up[u].eof = TRUE], u)

(* end, and inspect: the preview sees the body if it was captured whole.   *)
UploadEnds(u) ==
    /\ Callback /\ Up(u).polled /\ ~Up(u).ended /\ Up(u).at \in {"capturing", "streaming"}
    /\ LET s == [intake EXCEPT !.up[u].ended = TRUE] IN
       IF Up(u).at = "streaming" THEN intake' \in Pulls(s, u)
       ELSE intake' = [s EXCEPT !.up[u].seen = Up(u).bytes]

(* stream, at the dispatch; the upstream request then asks for data.       *)
Streams(u) ==
    /\ Callback /\ Up(u).at = "capturing"
    /\ intake' = [Unwait(intake, u) EXCEPT !.up[u].at = "streaming"]
Reads(u) ==
    /\ Callback /\ Up(u).at = "streaming" /\ ~Up(u).demand /\ ~Up(u).over
    /\ intake' \in Pulls([intake EXCEPT !.up[u].demand = TRUE], u)

(* dispose: the job is cleaned up, cancelled, or its connection fails.     *)
Disposes(u) ==
    /\ Callback /\ Up(u).at \in {"capturing", "streaming"}
    /\ intake' = Release([Unwait(intake, u) EXCEPT !.up[u].at = "disposed", !.up[u].bytes = 0],
                         Up(u).bytes)

(* The microtask wakes those who wait, in the order they began to.         *)
Wakes ==
    /\ intake.scheduled
    /\ intake' = FoldLeft(Capture, [intake EXCEPT !.scheduled = FALSE], intake.waiters)

UploadsNext ==
    \/ Wakes
    \/ \E u \in Upload : \/ Queues(u) \/ Arrives(u) \/ AllArrived(u) \/ UploadEnds(u)
                         \/ Streams(u) \/ Reads(u) \/ Disposes(u)

----------------------------------------------------------------------------
(* Nothing of a body is lost, repeated or reordered on its way through the *)
(* buffer, the upstream is told of an end only when it has all, and the    *)
(* preview only sees whole bodies.                                         *)
BodiesWhole == \A u \in Upload : LET b == Up(u) IN
    /\ b.at # "disposed" => b.given + b.bytes = b.taken
    /\ b.over => b.given = b.size
    /\ b.seen \in {b.size, NoSeen}
(* The budget is exact, so it is never overdrawn and never leaks away.     *)
BudgetExact == /\ intake.used = MapThenSumSet(LAMBDA u : Up(u).bytes, Upload)
               /\ intake.used <= BodyBudget
(* Between callbacks a body that could be read ahead waits only for the    *)
(* budget, and is in the list that its release wakes.                      *)
NoneForgotten == Callback => \A u \in Upload : LET b == Up(u) IN
    (b.at = "capturing" /\ b.arrived > b.taken /\ b.bytes < BodyLimit)
        => intake.used = BodyBudget /\ Contains(intake.waiters, u)
UploadsSound == BodiesWhole /\ BudgetExact /\ NoneForgotten
=============================================================================
