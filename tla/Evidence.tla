------------------------------ MODULE Evidence -------------------------------
(***************************************************************************)
(* What the gateway writes down about its requests (ds4-gateway/           *)
(* dataset.mjs) and what the dashboard concludes from it about queued      *)
(* requests that were moved (HandoverEvidence, request-history.mjs).  Rows *)
(* are dropped at the bound of the queue, at the byte budget and after any *)
(* failed write, so the join meets requests with any of their rows missing.*)
(* How the reader finds whole rows in the files is in Readers: here it     *)
(* hands over each row of the file once and in order, and may start again  *)
(* anywhere.  Requests are those of one gateway process.                   *)
(***************************************************************************)
EXTENDS Naturals, Sequences, SequencesExt

CONSTANTS EvRequest, EvNode,    \* requests and workers
          MaxMoves,             \* bound: moves of all requests
          MaxPending,           \* maxPending
          Batch,                \* 32: rows of one write
          MaxStored,            \* maxBytes, in rows
          MaxJoined,            \* maxRecords
          MaxRescans            \* bound: rescans of the reader

VARIABLES life,       \* the requests themselves: their worker, moves, and how far they are
          ds,         \* the Dataset: queue, lines being written, error, closed and counters
          stored,     \* the rows in the file
          join        \* the reader: its place in the file, records, and rescans
evidenceVars == <<life, ds, stored, join>>

(* evidence(): of what the gateway knows, a row keeps these fields.        *)
EvidenceRow(kind, r, node, source) == [kind |-> kind, request |-> r, node |-> node, source |-> source]

EvidenceInit ==
    /\ life \in [EvRequest -> {[node |-> n, moves |-> <<>>, step |-> "queued"] : n \in EvNode}]
    /\ ds = [queue |-> <<>>, lines |-> <<>>, writing |-> FALSE, error |-> FALSE, closed |-> FALSE,
             recorded |-> 0, written |-> 0, dropped |-> 0]
    /\ stored = <<>> /\ join = [at |-> 0, records |-> <<>>, rescans |-> 0]

(* record: dropped at the bound, otherwise queued, and a writer is started *)
(* if none is at work.                                                     *)
Recorded(row) ==
    ds' = IF ds.closed THEN ds
          ELSE IF Len(ds.queue) >= MaxPending
               THEN [ds EXCEPT !.recorded = @ + 1, !.dropped = @ + 1]
               ELSE [ds EXCEPT !.recorded = @ + 1, !.queue = Append(@, row), !.writing = TRUE]

(* A queued request is moved, is dispatched where it then is, and ends.    *)
MovesRequest(r, to) ==
    /\ life[r].step = "queued" /\ to # life[r].node
    /\ FoldFunction(LAMBDA l, n : n + Len(l.moves), 0, life) < MaxMoves
    /\ life' = [life EXCEPT ![r].node = to, ![r].moves = Append(@, <<life[r].node, to>>)]
    /\ Recorded(EvidenceRow("queue_relocation", r, to, life[r].node))
    /\ UNCHANGED <<stored, join>>
DispatchesRequest(r) ==
    /\ life[r].step = "queued" /\ life' = [life EXCEPT ![r].step = "dispatched"]
    /\ Recorded(EvidenceRow("dispatch", r, life[r].node, "none"))
    /\ UNCHANGED <<stored, join>>
FinishesRequest(r) ==
    /\ life[r].step = "dispatched" /\ life' = [life EXCEPT ![r].step = "finished"]
    /\ Recorded(EvidenceRow("finish", r, life[r].node, "none"))
    /\ UNCHANGED <<stored, join>>

----------------------------------------------------------------------------
(* flush: one writer takes a batch at a time; after an error, and at the   *)
(* budget, batches are only counted.                                       *)
TakesBatch ==
    /\ ds.writing /\ ds.lines = <<>> /\ ds.queue # <<>>
    /\ LET n == Min({Batch, Len(ds.queue)})
           rest == SubSeq(ds.queue, n + 1, Len(ds.queue)) IN
       ds' = IF ds.error \/ Len(stored) + n > MaxStored
             THEN [ds EXCEPT !.queue = rest, !.error = TRUE, !.dropped = @ + n]
             ELSE [ds EXCEPT !.queue = rest, !.lines = SubSeq(ds.queue, 1, n)]
    /\ UNCHANGED <<life, stored, join>>
WritesBatch ==
    /\ ds.lines # <<>> /\ stored' = stored \o ds.lines
    /\ ds' = [ds EXCEPT !.lines = <<>>, !.written = @ + Len(ds.lines)]
    /\ UNCHANGED <<life, join>>
(* A write or sync fails; any of its rows may be in the file all the same. *)
BatchFailsUncounted ==                                                   \* mutant
    /\ ds.lines # <<>> /\ UNCHANGED stored
    /\ ds' = [ds EXCEPT !.lines = <<>>, !.error = TRUE]
    /\ UNCHANGED <<life, join>>
BatchFails ==
    /\ ds.lines # <<>> /\ \E n \in 0..Len(ds.lines) : stored' = stored \o SubSeq(ds.lines, 1, n)
    /\ ds' = [ds EXCEPT !.lines = <<>>, !.error = TRUE, !.dropped = @ + Len(ds.lines)]
    /\ UNCHANGED <<life, join>>
WriterEnds ==
    /\ ds.writing /\ ds.lines = <<>> /\ ds.queue = <<>>
    /\ ds' = [ds EXCEPT !.writing = FALSE]
    /\ UNCHANGED <<life, stored, join>>
ClosesDataset ==
    /\ ~ds.closed /\ ds' = [ds EXCEPT !.closed = TRUE]
    /\ UNCHANGED <<life, stored, join>>

----------------------------------------------------------------------------
(* accept: a move opens a record; rows of its request complete it in order *)
(* and at its destination, or it is given up.                              *)
RecordOf(js, r) == {i \in 1..Len(js) : js[i].request = r}
Opened(js, row) ==
    IF RecordOf(js, row.request) # {} THEN js
    ELSE LET more == Append(js, [request |-> row.request, source |-> row.source, destination |-> row.node,
                                 dispatch |-> FALSE, finish |-> FALSE]) IN
         IF Len(more) > MaxJoined THEN Tail(more) ELSE more
AcceptsAnyNode(js, row) ==                                               \* mutant
    IF row.kind = "queue_relocation" THEN Opened(js, row)
    ELSE [i \in 1..Len(js) |-> IF js[i].request # row.request THEN js[i]
                               ELSE [js[i] EXCEPT ![row.kind] = TRUE]]
Accepts(js, row) ==
    IF row.kind = "queue_relocation" THEN Opened(js, row)
    ELSE LET fits(j) == /\ j.destination = row.node /\ ~j.finish
                        /\ j.dispatch = (row.kind = "finish")
             given == {i \in RecordOf(js, row.request) : ~fits(js[i])} IN
         IF given # {} THEN RemoveAt(js, CHOOSE i \in given : TRUE)
         ELSE [i \in 1..Len(js) |-> IF js[i].request # row.request THEN js[i]
                                    ELSE [js[i] EXCEPT ![row.kind] = TRUE]]
ReadsRow ==
    /\ join.at < Len(stored)
    /\ join' = [join EXCEPT !.at = @ + 1, !.records = Accepts(@, stored[join.at + 1])]
    /\ UNCHANGED <<life, ds, stored>>
Rescans ==
    /\ join.rescans < MaxRescans
    /\ \E from \in 0..Len(stored) :
         join' = [at |-> from, records |-> <<>>, rescans |-> join.rescans + 1]
    /\ UNCHANGED <<life, ds, stored>>

EvidenceNext ==
    \/ TakesBatch \/ WritesBatch \/ BatchFails \/ WriterEnds \/ ClosesDataset \/ ReadsRow \/ Rescans
    \/ \E r \in EvRequest : \/ DispatchesRequest(r) \/ FinishesRequest(r)
                            \/ \E n \in EvNode : MovesRequest(r, n)

----------------------------------------------------------------------------
(* Every row is stored, waiting, being written or counted as dropped; a    *)
(* closed dataset whose writer has ended holds nothing back; and whatever  *)
(* rows are missing, a record tells of a move that was made, and of a      *)
(* dispatch and an end only where they happened after it.                  *)
EvidenceSound ==
    /\ ds.recorded = ds.written + ds.dropped + Len(ds.queue) + Len(ds.lines)
    /\ ds.closed /\ ~ds.writing => ds.queue = <<>> /\ ds.lines = <<>>
    /\ \A j \in Range(join.records) : LET l == life[j.request] IN
         /\ <<j.source, j.destination>> \in Range(l.moves)
         /\ j.dispatch => l.node = j.destination /\ l.step # "queued"
         /\ j.finish => j.dispatch /\ l.step = "finished"
=============================================================================
