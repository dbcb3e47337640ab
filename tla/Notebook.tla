------------------------------ MODULE Notebook -------------------------------
(***************************************************************************)
(* Genie's private journals: GenieMemory (ds4-gateway/genie-memory.mjs)    *)
(* and GenieProviderLedger (genie-provider-ledger.mjs).  Each is a file of *)
(* rows that is only ever appended to, under a lock file, by a process that*)
(* remembers how long the file was.  Two dashboards may share it; either   *)
(* may be killed between two system calls, the machine may lose power, and *)
(* a write may stop half way.                                              *)
(***************************************************************************)
EXTENDS Naturals, Sequences, FiniteSets, Functions

CONSTANTS Keeper,         \* the processes
          NoteId,         \* notes, whose revisions follow one another
          ReceiptId,      \* receipts, which are written once
          MaxRows, MaxMisfortunes      \* bounds: rows, crashes and failed writes

VARIABLES file,        \* rows, whether the last is torn, how many are synced, whether writer.lock exists
          memo,        \* what each process holds: rows known, error, step of its append
          promised,    \* history: rows whose saving was acknowledged
          misfortunes
notebookVars == <<file, memo, promised, misfortunes>>

Off == [up |-> FALSE, error |-> FALSE, known |-> <<>>, step |-> "idle", row |-> <<>>]
NotebookInit ==
    /\ file = [rows |-> <<>>, torn |-> FALSE, synced |-> 0, lock |-> FALSE]
    /\ memo = [p \in Keeper |-> Off] /\ promised = {} /\ misfortunes = 0

(* load: a journal that does not end in a whole row is not used.           *)
KnownRows == IF file.torn THEN <<>> ELSE file.rows
Loads(p) ==
    /\ ~memo[p].up
    /\ memo' = [memo EXCEPT ![p] = [Off EXCEPT !.up = TRUE, !.error = file.torn, !.known = KnownRows]]
    /\ UNCHANGED <<file, promised, misfortunes>>

Revision(rows, id) == Cardinality({i \in 1..Len(rows) : rows[i].id = id})
Fails(p) == memo' = [memo EXCEPT ![p] = [@ EXCEPT !.error = TRUE, !.step = "idle", !.row = <<>>]]

----------------------------------------------------------------------------
(* append: the row is valid for what the process knows.  An operator names *)
(* the revision he edits, an observation follows the last one, and a       *)
(* receipt already saved is not written again.                             *)
Begins(p, id, revision) ==
    /\ memo[p].up /\ ~memo[p].error /\ memo[p].step = "idle" /\ Len(file.rows) < MaxRows
    /\ memo' = [memo EXCEPT ![p].step = "lock", ![p].row = <<[id |-> id, revision |-> revision]>>]
    /\ UNCHANGED <<file, promised, misfortunes>>
EditsNote(p, id, expected) ==
    expected = Revision(memo[p].known, id) /\ Begins(p, id, expected + 1)
Observes(p, id) == Begins(p, id, Revision(memo[p].known, id) + 1)
SavesReceipt(p, id) == Revision(memo[p].known, id) = 0 /\ Begins(p, id, 1)
(* O_EXCL: a lock that exists, left behind or not, is a failed write.      *)
Locks(p) ==
    /\ memo[p].step = "lock"
    /\ IF file.lock THEN Fails(p) /\ UNCHANGED file
       ELSE file' = [file EXCEPT !.lock = TRUE] /\ memo' = [memo EXCEPT ![p].step = "check"]
    /\ UNCHANGED <<promised, misfortunes>>
(* The file must be what the process last left it.                         *)
SameAnything(p) == TRUE                                                  \* mutant
SameFile(p) == ~file.torn /\ Len(file.rows) = Len(memo[p].known)
Checks(p) ==
    /\ memo[p].step = "check"
    /\ IF SameFile(p) THEN memo' = [memo EXCEPT ![p].step = "write"] /\ UNCHANGED file
       ELSE Fails(p) /\ file' = [file EXCEPT !.lock = FALSE]
    /\ UNCHANGED <<promised, misfortunes>>
Writes(p) ==
    /\ memo[p].step = "write"
    /\ \/ /\ file' = [file EXCEPT !.rows = @ \o memo[p].row]
          /\ memo' = [memo EXCEPT ![p].step = "sync"] /\ UNCHANGED misfortunes
       \/ /\ misfortunes < MaxMisfortunes /\ misfortunes' = misfortunes + 1
          /\ file' = [file EXCEPT !.torn = TRUE, !.lock = FALSE] /\ Fails(p)
    /\ UNCHANGED promised
(* fsync, or its failure, which leaves the row in place but unpromised.    *)
Syncs(p) ==
    /\ memo[p].step = "sync"
    /\ \/ /\ file' = [file EXCEPT !.synced = Len(file.rows), !.lock = FALSE]
          /\ memo' = [memo EXCEPT ![p] =
                 [@ EXCEPT !.step = "idle", !.row = <<>>, !.known = memo[p].known \o memo[p].row]]
          /\ promised' = promised \cup Range(memo[p].row) /\ UNCHANGED misfortunes
       \/ /\ misfortunes < MaxMisfortunes /\ misfortunes' = misfortunes + 1
          /\ file' = [file EXCEPT !.lock = FALSE] /\ Fails(p) /\ UNCHANGED promised

(* A process is killed where it stands: its lock stays.                    *)
Killed(p) ==
    /\ memo[p].up /\ misfortunes < MaxMisfortunes /\ misfortunes' = misfortunes + 1
    /\ memo' = [memo EXCEPT ![p] = Off]
    /\ \E cut \in {FALSE, memo[p].step = "write"} : file' = [file EXCEPT !.torn = @ \/ cut]
    /\ UNCHANGED promised
PowerLost ==
    /\ misfortunes < MaxMisfortunes /\ misfortunes' = misfortunes + 1
    /\ memo' = [p \in Keeper |-> Off]
    /\ \E n \in file.synced..Len(file.rows) : \E cut \in {FALSE, n < Len(file.rows)} :
         file' = [file EXCEPT !.rows = SubSeq(@, 1, n), !.torn = @ \/ cut]
    /\ UNCHANGED promised
(* The owner inspects and repairs, as the error asks, with nobody writing. *)
Repairs ==
    /\ file.torn \/ file.lock
    /\ \A p \in Keeper : ~memo[p].up
    /\ file' = [file EXCEPT !.torn = FALSE, !.lock = FALSE, !.synced = Len(file.rows)]
    /\ UNCHANGED <<memo, promised, misfortunes>>

NotebookNext ==
    \/ PowerLost \/ Repairs
    \/ \E p \in Keeper :
         \/ Loads(p) \/ Locks(p) \/ Checks(p) \/ Writes(p) \/ Syncs(p) \/ Killed(p)
         \/ \E id \in NoteId : Observes(p, id) \/ \E r \in 0..MaxRows : EditsNote(p, id, r)
         \/ \E id \in ReceiptId : SavesReceipt(p, id)

----------------------------------------------------------------------------
(* What was acknowledged is in the file for ever; the revisions of a note  *)
(* are 1, 2, 3 in the order of the file whichever process wrote them, so no*)
(* edit was made to a version its editor had not seen; a receipt is there  *)
(* once; and nothing follows a torn row.                                   *)
NotebookSound ==
    /\ promised \subseteq Range(file.rows)
    /\ \A i \in 1..Len(file.rows) :
         file.rows[i].revision = Revision(SubSeq(file.rows, 1, i), file.rows[i].id)
    /\ \A id \in ReceiptId : Revision(file.rows, id) <= 1
    /\ \A p \in Keeper : memo[p].step = "sync" => ~file.torn
=============================================================================
