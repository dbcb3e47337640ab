----------------------------- MODULE Operations -----------------------------
(***************************************************************************)
(* Proposals, owner approvals and single-attempt runners of the server     *)
(* operations on one worker (server-operations.mjs, operation-runner.mjs,  *)
(* operation_runner.py), with the measurements of hourglass-runs.mjs and   *)
(* hourglass-maintenance.mjs on top of the same store.                     *)
(*                                                                         *)
(* The receipts in an operation's folder are written once (link) and       *)
(* outlive the dashboard; a runner is a process of its own, whose claim    *)
(* file selects it and whose file lock shows that it lives.                *)
(***************************************************************************)
EXTENDS Integers, FiniteSets

CONSTANTS Op,          \* operation IDs, all on one worker
          MaxMishaps   \* bound: crashes, deaths and record changes

OperationsGiven == "none" \notin Op

VARIABLES store,       \* proposalKind of the store: "serving" or "hourglass"
          up,          \* the dashboard runs
          files,       \* receipts in the folder of an operation
          rec,         \* revision of the worker's approved record
          reviewed,    \* record revision the operation was prepared for
          preparing, launching,  \* the dashboard's promises
          changing,    \* changeSerial in progress: the operation and the others
                       \* still to observe
          runner,      \* the process of the operation
          returner,    \* the process of its owner-approved return
          flock,       \* holder of runner.lock
          outcome,     \* state of runner-result.json
          returned,    \* state of reconcile-result.json
          row,         \* HourglassRuns: state of the measurement's row
          review,      \* HourglassRuns: the reviewed measurement, in memory only
          execs,       \* history: executions begun
          mishaps

operationVars == <<store, up, files, rec, reviewed, preparing, launching, changing,
                   runner, returner, flock, outcome, returned, row, review, execs, mishaps>>

Final == {"completed", "restored", "failed_unchanged"}
NoChange == [op |-> "none", left |-> {}]
Mishap == mishaps < MaxMishaps /\ mishaps' = mishaps + 1

OperationsInit ==
  /\ store \in {"serving", "hourglass"}
  /\ up = TRUE
  /\ files = [o \in Op |-> {}]
  /\ rec = 0
  /\ reviewed = [o \in Op |-> 0]
  /\ preparing = {} /\ launching = {}
  /\ changing = NoChange
  /\ runner = [o \in Op |-> "none"]
  /\ returner = [o \in Op |-> "none"]
  /\ flock = [o \in Op |-> "free"]
  /\ outcome = [o \in Op |-> "none"]
  /\ returned = [o \in Op |-> "none"]
  /\ row = [o \in Op |-> "none"]
  /\ review = "none"
  /\ execs = [o \in Op |-> [run |-> 0, return |-> 0]]
  /\ mishaps = 0

Write(o, names) == files' = [files EXCEPT ![o] = @ \cup names]
Has(o, names) == names \subseteq files[o]
Lacks(o, names) == names \cap files[o] = {}

-----------------------------------------------------------------------------
(* The dashboard's store.                                                  *)

\* A measurement that has started and not ended; HourglassRuns.busy.
Active(o) == row[o] \in {"submitting", "uncertain", "owned"}
Engaged == preparing # {} \/ \E o \in Op : row[o] = "submitting"

\* propose: an operation ID is prepared once.  A measurement is prepared when none
\* is active, and replaces the review of the one before.
Propose(o) ==
  /\ up /\ files[o] = {}
  /\ store = "hourglass" => ~Engaged /\ \A p \in Op : ~Active(p)
  /\ Write(o, {"proposal"})
  /\ reviewed' = [reviewed EXCEPT ![o] = rec]
  /\ preparing' = preparing \cup {o}
  /\ review' = "none"
  /\ UNCHANGED <<store, up, rec, launching, changing, runner, returner, flock, outcome, returned, row, execs, mishaps>>

\* The preparation process answers with a plan, or fails or is stopped.
Preparation == {{"plan", "prepared"}, {"prepare-failed"}}

\* finishPreparation
FinishPreparation(o) ==
  /\ up /\ o \in preparing
  /\ preparing' = preparing \ {o}
  /\ \E names \in Preparation :
       /\ Write(o, names)
       /\ review' = IF store = "hourglass" /\ "prepared" \in names THEN o ELSE "none"
  /\ UNCHANGED <<store, up, rec, reviewed, launching, changing, runner, returner, flock, outcome, returned, row, execs, mishaps>>

\* status: a later receipt decides, whatever came before it.
Status(o) ==
  IF Has(o, {"declined"}) THEN "declined"
  ELSE IF Has(o, {"intent"}) THEN IF Has(o, {"launched"}) THEN "submitted" ELSE "launch_uncertain"
  ELSE IF Has(o, {"approved"}) THEN "approved_unsubmitted"
  ELSE IF Has(o, {"prepare-failed"}) THEN "prepare_failed"
  ELSE IF Has(o, {"prepared"}) THEN "awaiting_approval"
  ELSE IF o \in preparing THEN "preparing" ELSE "preparation_interrupted"

\* Mutation: an operation without a result and without a live lock changed nothing.
ReportedUnlocked(o) ==
  IF outcome[o] # "none" THEN outcome[o]
  ELSE IF flock[o] # "free" THEN "running" ELSE "failed_unchanged"

\* operation_runner.observe: the outcome of the run, or of its return.
Reported(o) ==
  LET run == IF outcome[o] # "none" THEN outcome[o]
             ELSE IF flock[o] # "free" THEN "running" ELSE "requires_reconciliation"
  IN IF run = "requires_reconciliation" /\ Has(o, {"reconcile-started"})
     THEN IF returned[o] # "none" THEN returned[o]
          ELSE IF flock[o] # "free" THEN "running" ELSE run
     ELSE run

\* Mutation: an approved operation can still be declined.
DeclineApproved(o) ==
  /\ up /\ changing = NoChange
  /\ Has(o, {"prepared"}) /\ Lacks(o, {"declined"})
  /\ row[o] = "none"
  /\ Write(o, {"declined"})
  /\ UNCHANGED <<store, up, rec, reviewed, preparing, launching, changing, runner, returner, flock, outcome, returned, row, review, execs, mishaps>>

\* changeSerial, decline: an approved operation cannot be declined any more.
Decline(o) ==
  /\ up /\ changing = NoChange
  /\ Has(o, {"prepared"}) /\ Lacks(o, {"declined", "approved", "intent"})
  /\ row[o] = "none"
  /\ Write(o, {"declined"})
  /\ UNCHANGED <<store, up, rec, reviewed, preparing, launching, changing, runner, returner, flock, outcome, returned, row, review, execs, mishaps>>

\* changeSerial up to its awaits: the record is still the reviewed one.
Approvable(o) == Has(o, {"prepared"}) /\ Lacks(o, {"declined", "intent"}) /\ rec = reviewed[o]

Others(o) == {p \in Op \ {o} : Status(p) \in {"submitted", "launch_uncertain", "approved_unsubmitted"}}

\* A serving change is approved by the owner; a measurement by its started row.
Requested(o) == IF store = "serving" THEN TRUE ELSE row[o] = "submitting"

BeginApprove(o) ==
  /\ up /\ changing = NoChange /\ Requested(o)
  /\ Approvable(o)
  /\ changing' = [op |-> o, left |-> Others(o)]
  /\ UNCHANGED <<store, up, files, rec, reviewed, preparing, launching, runner, returner, flock, outcome, returned, row, review, execs, mishaps>>

\* A refused approval: a measurement whose store holds no launch intent was
\* certainly not started.
RefusedRow(o) ==
  IF row[o] # "submitting" THEN row
  ELSE [row EXCEPT ![o] = IF Has(o, {"intent"}) THEN "uncertain" ELSE "rejected"]

RefuseApproval(o) ==
  /\ up /\ changing = NoChange /\ store = "hourglass" /\ Requested(o)
  /\ ~Approvable(o)
  /\ row' = RefusedRow(o)
  /\ UNCHANGED <<store, up, files, rec, reviewed, preparing, launching, changing, runner, returner, flock, outcome, returned, review, execs, mishaps>>

\* Mutation: an operation that was launched is not asked for its outcome.
ObserveOtherLaunched(p) ==
  /\ up /\ p \in changing.left
  /\ changing' = [changing EXCEPT !.left = @ \ {p}]
  /\ UNCHANGED <<store, up, files, rec, reviewed, preparing, launching, runner, returner, flock, outcome, returned, row, review, execs, mishaps>>

\* Every other operation of the worker must have ended.
ObserveOther(p) ==
  /\ up /\ p \in changing.left
  /\ IF Has(p, {"intent"}) /\ Reported(p) \in Final
     THEN changing' = [changing EXCEPT !.left = @ \ {p}] /\ UNCHANGED row
     ELSE changing' = NoChange /\ row' = RefusedRow(changing.op)
  /\ UNCHANGED <<store, up, files, rec, reviewed, preparing, launching, runner, returner, flock, outcome, returned, review, execs, mishaps>>

\* changeSerial after its awaits: approval, launch intent, launch.
CommitApproval ==
  LET o == changing.op
  IN /\ up /\ changing # NoChange /\ changing.left = {}
     /\ changing' = NoChange
     /\ IF Lacks(o, {"declined", "intent"})
        THEN Write(o, {"approved", "intent"}) /\ launching' = launching \cup {o}
        ELSE UNCHANGED <<files, launching>>
     /\ row' = IF row[o] = "submitting" THEN [row EXCEPT ![o] = "owned"] ELSE row
     /\ UNCHANGED <<store, up, rec, reviewed, preparing, runner, returner, flock, outcome, returned, review, execs, mishaps>>

\* launchAction: one process, or a launch without a receipt.
Launch(o) ==
  /\ up /\ o \in launching
  /\ launching' = launching \ {o}
  /\ \/ Write(o, {"launched"}) /\ runner' = [runner EXCEPT ![o] = "spawned"]
     \/ Write(o, {"launch-uncertain"}) /\ UNCHANGED runner
  /\ UNCHANGED <<store, up, rec, reviewed, preparing, changing, returner, flock, outcome, returned, row, review, execs, mishaps>>

\* The receipts a commit that is cut short may have left, in the order they are
\* written.
Committed ==
  IF changing # NoChange /\ changing.left = {} /\ Lacks(changing.op, {"declined", "intent"})
  THEN {{}, {"approved"}, {"approved", "intent"}} ELSE {{}}

\* The dashboard stops: its promises are gone, a commit may be half written, and
\* any launch may have spawned its process.
Crash ==
  /\ Mishap /\ up
  /\ up' = FALSE
  /\ \E names \in Committed :
       \E spawned \in SUBSET (launching \cup (IF "intent" \in names THEN {changing.op} ELSE {})) :
         /\ runner' = [o \in Op |-> IF o \in spawned THEN "spawned" ELSE runner[o]]
         /\ files' = [o \in Op |-> IF o = changing.op THEN files[o] \cup names ELSE files[o]]
  /\ preparing' = {} /\ launching' = {} /\ changing' = NoChange /\ review' = "none"
  /\ UNCHANGED <<store, rec, reviewed, returner, flock, outcome, returned, row, execs>>

\* Mutation: an unfinished start is taken for one that never happened.
RestartRejecting ==
  /\ ~up
  /\ up' = TRUE
  /\ row' = [o \in Op |-> IF row[o] = "submitting" THEN "rejected" ELSE row[o]]
  /\ UNCHANGED <<store, files, rec, reviewed, preparing, launching, changing, runner, returner, flock, outcome, returned, review, execs, mishaps>>

\* The constructors replay nothing; an unfinished start becomes uncertain.
Restart ==
  /\ ~up
  /\ up' = TRUE
  /\ row' = [o \in Op |-> IF row[o] = "submitting" THEN "uncertain" ELSE row[o]]
  /\ UNCHANGED <<store, files, rec, reviewed, preparing, launching, changing, runner, returner, flock, outcome, returned, review, execs, mishaps>>

\* Somebody publishes or edits the worker's record.
RecordChanges ==
  /\ Mishap
  /\ rec' = rec + 1
  /\ UNCHANGED <<store, up, files, reviewed, preparing, launching, changing, runner, returner, flock, outcome, returned, row, review, execs>>

-----------------------------------------------------------------------------
(* operation_runner.py: run                                                *)

\* approved_plan: the exact approval, never declined, of the current record.
ApprovedPlan(o) ==
  Has(o, {"prepared", "approved", "intent"}) /\ Lacks(o, {"declined"}) /\ rec = reviewed[o]

\* The exclusive claim selects the only executor.
Claim(o) ==
  /\ runner[o] = "spawned"
  /\ IF Lacks(o, {"runner-started"}) /\ ApprovedPlan(o)
     THEN Write(o, {"runner-started"}) /\ runner' = [runner EXCEPT ![o] = "claimed"]
     ELSE UNCHANGED files /\ runner' = [runner EXCEPT ![o] = "gone"]
  /\ UNCHANGED <<store, up, rec, reviewed, preparing, launching, changing, returner, flock, outcome, returned, row, review, execs, mishaps>>

\* The lock is waited for: a brief observer cannot discard the attempt.
Execute(o) ==
  /\ runner[o] = "claimed" /\ flock[o] = "free"
  /\ flock' = [flock EXCEPT ![o] = "runner"]
  /\ runner' = [runner EXCEPT ![o] = "executing"]
  /\ execs' = [execs EXCEPT ![o].run = @ + 1]
  /\ UNCHANGED <<store, up, files, rec, reviewed, preparing, launching, changing, returner, outcome, returned, row, review, mishaps>>

\* An explicit terminal outcome, or the reconciliation state of an exception.
SaveResult(o) ==
  /\ runner[o] = "executing"
  /\ \E state \in {"completed", "failed_unchanged", "requires_reconciliation"} :
       outcome' = [outcome EXCEPT ![o] = state]
  /\ runner' = [runner EXCEPT ![o] = "finished"]
  /\ UNCHANGED <<store, up, files, rec, reviewed, preparing, launching, changing, returner, flock, returned, row, review, execs, mishaps>>

Exit(o) ==
  /\ runner[o] = "finished"
  /\ runner' = [runner EXCEPT ![o] = "gone"]
  /\ flock' = [flock EXCEPT ![o] = "free"]
  /\ UNCHANGED <<store, up, files, rec, reviewed, preparing, launching, changing, returner, outcome, returned, row, review, execs, mishaps>>

\* The process is killed: the kernel releases its lock.
RunnerDies(o) ==
  /\ Mishap /\ runner[o] \in {"spawned", "claimed", "executing", "finished"}
  /\ runner' = [runner EXCEPT ![o] = "gone"]
  /\ flock' = [flock EXCEPT ![o] = IF @ = "runner" THEN "free" ELSE @]
  /\ UNCHANGED <<store, up, files, rec, reviewed, preparing, launching, changing, returner, outcome, returned, row, review, execs>>

\* observe holds the lock for the moment it tries it.
ObserverLocks(o) ==
  /\ Has(o, {"intent"}) /\ flock[o] = "free"
  /\ flock' = [flock EXCEPT ![o] = "observer"]
  /\ UNCHANGED <<store, up, files, rec, reviewed, preparing, launching, changing, runner, returner, outcome, returned, row, review, execs, mishaps>>

ObserverDone(o) ==
  /\ flock[o] = "observer"
  /\ flock' = [flock EXCEPT ![o] = "free"]
  /\ UNCHANGED <<store, up, files, rec, reviewed, preparing, launching, changing, runner, returner, outcome, returned, row, review, execs, mishaps>>

-----------------------------------------------------------------------------
(* The owner's return of a worker whose measurement was interrupted.       *)

\* Mutation: the claim of a runner that has no lock yet is not looked at.
StoppedUnlocked(o) == Has(o, {"runner-started"})

\* reconciliation: the original runner has stopped, by its result or its PID.
Stopped(o) == Has(o, {"runner-started"}) /\ (outcome[o] # "none" \/ runner[o] = "gone")

Returnable(o) == Stopped(o) /\ ApprovedPlan(o) /\ Lacks(o, {"reconcile-started"})

\* inspect_reconciliation: no readmission began, so the run has not completed.
Inspectable(o) == Returnable(o) /\ outcome[o] \in {"none", "requires_reconciliation"}

\* startReturn: the review is inspected again, then approval and intent are saved
\* once and one process is launched; an earlier approval may be the same one.
ApproveReturn(o) ==
  /\ up /\ store = "hourglass" /\ Active(o) /\ ~Engaged
  /\ Lacks(o, {"reconcile-intent"})
  /\ flock[o] = "free" /\ Inspectable(o)
  /\ \/ /\ Write(o, {"reconcile-approved", "reconcile-intent"})
        /\ returner' = [returner EXCEPT ![o] = "spawned"]
        /\ UNCHANGED <<up, preparing, launching, changing, review, mishaps>>
     \/ /\ Mishap
        /\ Write(o, {"reconcile-approved"}) /\ UNCHANGED returner
        /\ up' = FALSE /\ preparing' = {} /\ launching' = {} /\ changing' = NoChange /\ review' = "none"
  /\ UNCHANGED <<store, rec, reviewed, runner, flock, outcome, returned, row, execs>>

\* The return tries the lock once: even a brief observer makes it give up.
ReturnLocks(o) ==
  /\ returner[o] = "spawned"
  /\ IF flock[o] = "free"
     THEN /\ flock' = [flock EXCEPT ![o] = "returner"]
          /\ returner' = [returner EXCEPT ![o] = "checking"]
     ELSE UNCHANGED flock /\ returner' = [returner EXCEPT ![o] = "gone"]
  /\ UNCHANGED <<store, up, files, rec, reviewed, preparing, launching, changing, runner, outcome, returned, row, review, execs, mishaps>>

ReturnStarts(o) ==
  /\ returner[o] = "checking"
  /\ IF Returnable(o) /\ Has(o, {"reconcile-approved", "reconcile-intent"})
     THEN /\ Write(o, {"reconcile-started"})
          /\ returner' = [returner EXCEPT ![o] = "returning"]
          /\ execs' = [execs EXCEPT ![o].return = @ + 1]
          /\ UNCHANGED flock
     ELSE /\ returner' = [returner EXCEPT ![o] = "gone"]
          /\ flock' = [flock EXCEPT ![o] = "free"]
          /\ UNCHANGED <<files, execs>>
  /\ UNCHANGED <<store, up, rec, reviewed, preparing, launching, changing, runner, outcome, returned, row, review, mishaps>>

ReturnEnds(o) ==
  /\ returner[o] = "returning"
  /\ \/ /\ \E state \in {"completed", "requires_reconciliation"} :
             returned' = [returned EXCEPT ![o] = state]
        /\ UNCHANGED mishaps
     \/ Mishap /\ UNCHANGED returned
  /\ returner' = [returner EXCEPT ![o] = "gone"]
  /\ flock' = [flock EXCEPT ![o] = "free"]
  /\ UNCHANGED <<store, up, files, rec, reviewed, preparing, launching, changing, runner, outcome, row, review, execs>>

-----------------------------------------------------------------------------
(* HourglassRuns                                                           *)

\* start: the reviewed measurement, saved before its approval is asked for.
StartMeasurement(o) ==
  /\ up /\ store = "hourglass" /\ review = o /\ ~Engaged
  /\ row[o] = "none" /\ \A p \in Op : ~Active(p)
  /\ row' = [row EXCEPT ![o] = "submitting"]
  /\ review' = "none"
  /\ UNCHANGED <<store, up, files, rec, reviewed, preparing, launching, changing, runner, returner, flock, outcome, returned, execs, mishaps>>

\* refresh: the measurement's row follows the result of the return, or of the run
\* when no return began.
Refresh(o) ==
  LET result == IF returned[o] # "none" THEN returned[o]
                ELSE IF Has(o, {"reconcile-started"}) THEN "none" ELSE outcome[o]
      next == IF result = "completed" THEN "done" ELSE "owned"
  IN /\ up /\ ~Engaged /\ row[o] \in {"uncertain", "owned"} /\ row[o] # next
     /\ row' = [row EXCEPT ![o] = next]
     /\ UNCHANGED <<store, up, files, rec, reviewed, preparing, launching, changing, runner, returner, flock, outcome, returned, review, execs, mishaps>>

OperationsNext ==
  \/ \E o \in Op :
       \/ Propose(o) \/ FinishPreparation(o) \/ Decline(o) \/ BeginApprove(o)
       \/ RefuseApproval(o) \/ ObserveOther(o) \/ Launch(o)
       \/ Claim(o) \/ Execute(o) \/ SaveResult(o) \/ Exit(o) \/ RunnerDies(o)
       \/ ObserverLocks(o) \/ ObserverDone(o)
       \/ ApproveReturn(o) \/ ReturnLocks(o) \/ ReturnStarts(o) \/ ReturnEnds(o)
       \/ StartMeasurement(o) \/ Refresh(o)
  \/ CommitApproval \/ Crash \/ Restart \/ RecordChanges

-----------------------------------------------------------------------------
AtWork(o) == runner[o] \in {"claimed", "executing"} \/ returner[o] = "returning"

\* An approved operation is executed at most once and returned at most once, over
\* crashes of the dashboard at any point, launches without a receipt, repeated
\* approvals and dead runners; one that was declined is never executed.
ExecutedOnce ==
  \A o \in Op :
    /\ execs[o].run <= 1 /\ execs[o].return <= 1
    /\ execs[o].run > 0 => Has(o, {"approved"}) /\ Lacks(o, {"declined"})

\* Two operations of one store never work on the worker at once, a return
\* included: an approval waits for the end of every operation before it, although
\* it observes them across awaits, one by one.
OneOperationAtWork ==
  \A o, p \in Op : (o # p /\ AtWork(o) /\ AtWork(p)) => FALSE

\* A return never runs beside the run it returns, not even beside a runner that
\* has claimed the operation and does not hold the lock yet.
ReturnAlone ==
  \A o \in Op : returner[o] = "returning" => runner[o] \in {"finished", "gone"}

\* A final state is only reported of an operation whose processes do nothing more.
FinalIsOver ==
  \A o \in Op : (Has(o, {"intent"}) /\ Reported(o) \in Final) => ~AtWork(o)

\* A measurement's row is final only when the operation is: a row that is rejected
\* or done lets the owner start the next one.
RowHonest ==
  \A o \in Op : row[o] \in {"rejected", "done"} =>
    /\ runner[o] \in {"none", "finished", "gone"} /\ o \notin launching
    /\ returner[o] # "returning"

\* An operation is executed at most once, as approved, and beside nothing else: not
\* beside another operation and not beside its own return; and what the owner reads as
\* its end, of the operation or in a measurement's row, is one.
ExecutedAlone ==
  ExecutedOnce /\ OneOperationAtWork /\ ReturnAlone /\ FinalIsOver /\ RowHonest
=============================================================================
