----------------------------- MODULE MediaQueue -----------------------------
(***************************************************************************)
(* The durable media queue (media-jobs.mjs), the batches that are started  *)
(* on a worker (media-execution.mjs) and what their detached runners write *)
(* (media-runner.mjs, the job loop of media-cycle.mjs).                    *)
(*                                                                         *)
(* The core owns the queue and only ever saves assignments to it; a runner *)
(* owns the receipts of its operation.  What the core shows of a job is    *)
(* its saved row overlaid with those receipts.  MediaCycle models what the *)
(* runner does to the machine.                                             *)
(***************************************************************************)
EXTENDS Integers, FiniteSets, Sequences

CONSTANTS MediaJob,    \* idempotency keys, each the key of one request
          Urgent,      \* the jobs of higher priority
          Host,        \* enrolled workers
          MaxDeaths    \* bound: runners that die, cores that stop at a launch

MediaGiven == Urgent \subseteq MediaJob /\ MaxDeaths \in Nat /\ "none" \notin MediaJob

VARIABLES queued,      \* jobs in the queue file
          assigned,    \* saved execution: the head of the operation, or "none"
          op,          \* receipts in the folder of an operation, by its head
          sent,        \* history: native submissions of a job
          deaths

mediaVars == <<queued, assigned, op, sent, deaths>>

Terminal == {"returned", "failed_returned", "failed_unchanged"}
NoOperation == [host |-> "none", ids |-> <<>>, log |-> FALSE, phase |-> "none",
                rows |-> [j \in MediaJob |-> "none"], pc |-> "none", at |-> 0]

MediaInit ==
  /\ queued = {}
  /\ assigned = [j \in MediaJob |-> "none"]
  /\ op = [h \in MediaJob |-> NoOperation]
  /\ sent = [j \in MediaJob |-> 0]
  /\ deaths = 0

Death == deaths < MaxDeaths /\ deaths' = deaths + 1

-----------------------------------------------------------------------------
(* What the core shows.                                                    *)

\* get: the row in the runner's receipts, once there are any.
Row(j) == IF assigned[j] = "none" THEN "queued" ELSE op[assigned[j]].rows[j]

\* Mutation: the later jobs of a batch are released before the batch ended.
ReleasedEarly(j) == assigned[j] \notin {"none", j} /\ Row(j) = "queued"

\* Only unsubmitted jobs are released, and only once the operation ended well.
Released(j) == assigned[j] # "none" /\ Row(j) = "queued" /\ op[assigned[j]].phase \in Terminal

\* The job has no execution, or has been released from it.
Waiting(j) == j \in queued /\ Row(j) = "queued" /\ (assigned[j] = "none" \/ Released(j))

\* Mutation: a launch that was not confirmed does not occupy its worker.
BusyConfirmed(w) ==
  \E j \in queued : /\ ~Waiting(j) /\ op[assigned[j]].host = w
                    /\ op[assigned[j]].phase \notin Terminal \cup {"launch_uncertain"}

\* createMediaExecution: some job's execution on the worker is not over.
Busy(w) ==
  \E j \in queued : /\ ~Waiting(j) /\ op[assigned[j]].host = w
                    /\ op[assigned[j]].phase \notin Terminal

-----------------------------------------------------------------------------
(* The core.                                                               *)

\* enqueue: a repeated key returns the job it made.
Enqueue(j) ==
  /\ j \notin queued
  /\ queued' = queued \cup {j}
  /\ UNCHANGED <<assigned, op, sent, deaths>>

\* The batches an owner or the Genie may choose: distinct waiting jobs of one
\* priority.
Batches ==
  {ids \in {<<j>> : j \in MediaJob} \cup {<<j, k>> : j, k \in MediaJob} :
     /\ \A i \in 1..Len(ids) : Waiting(ids[i]) /\ (ids[i] \in Urgent) = (ids[1] \in Urgent)
     /\ Len(ids) = 2 => ids[1] # ids[2]}

\* start: plan, receipts and ownership are saved before the launch, whose folder
\* must be fresh (runner.log) and whose acknowledgement may be lost.  A later
\* request for an assigned job only reads its execution.
Start(w, ids) ==
  LET h == ids[1]
      launch(phase, pc) ==
        op' = [op EXCEPT ![h] =
          [host |-> w, ids |-> ids, log |-> TRUE, phase |-> phase, pc |-> pc, at |-> 1,
           rows |-> [j \in MediaJob |-> IF \E i \in 1..Len(ids) : ids[i] = j THEN "queued" ELSE "none"]]]
  IN /\ ids \in Batches /\ ~Busy(w)
     /\ assigned' = [j \in MediaJob |-> IF \E i \in 1..Len(ids) : ids[i] = j THEN h ELSE assigned[j]]
     /\ \/ launch("launch_uncertain", "none") /\ UNCHANGED deaths
        \/ /\ ~op[h].log
           /\ \/ launch("starting", "checking") /\ UNCHANGED deaths
              \/ launch("launch_uncertain", "checking") /\ UNCHANGED deaths
              \/ launch("starting", "none") /\ Death
     /\ UNCHANGED <<queued, sent>>

-----------------------------------------------------------------------------
(* The runner of the operation h.                                          *)

Current(h) == op[h].ids[op[h].at]
Step(h, from, changes) == op[h].pc = from /\ op' = [op EXCEPT ![h] = changes]
RowSet(h, j, state) == [op[h].rows EXCEPT ![j] = state]

\* Everything before the first job: the window is acquired, the LLM stopped and
\* the media engine started.
MachineTaken(h) ==
  /\ Step(h, "checking", [op[h] EXCEPT !.pc = "taken", !.phase = "starting_media"])
  /\ UNCHANGED <<queued, assigned, sent, deaths>>

\* mediaBatchCanContinue: no waiting job is more urgent than the next one.
CanContinue(h) == \A j \in MediaJob : (Waiting(j) /\ j \in Urgent) => Current(h) \in Urgent

\* A later job of the batch: the queue is asked first, and no answer is a no.
NextJob(h) ==
  /\ op[h].pc = "taken"
  /\ \/ /\ op[h].at = 1 \/ CanContinue(h)
        /\ Step(h, "taken", [op[h] EXCEPT !.pc = "ready"])
     \/ /\ op[h].at > 1
        /\ Step(h, "taken", [op[h] EXCEPT !.pc = "returning"])
  /\ UNCHANGED <<queued, assigned, sent, deaths>>

\* dispatch: the job is saved as submitting, then sent once.
Submit(h) ==
  /\ Step(h, "ready", [op[h] EXCEPT !.pc = "sending", !.phase = "generating",
                                    !.rows = RowSet(h, Current(h), "submitting")])
  /\ UNCHANGED <<queued, assigned, sent, deaths>>

Receive(h) ==
  /\ op[h].pc = "sending"
  /\ \/ /\ sent' = [sent EXCEPT ![Current(h)] = @ + 1]
        /\ \E state \in {"submitted", "uncertain"} :
             Step(h, "sending", [op[h] EXCEPT !.pc = "observing", !.rows = RowSet(h, Current(h), state)])
     \/ /\ Step(h, "sending", [op[h] EXCEPT !.pc = "failing", !.rows = RowSet(h, Current(h), "failed")])
        /\ UNCHANGED sent
  /\ UNCHANGED <<queued, assigned, deaths>>

\* The observed end of the native job, or its lost trace.
Observe(h) ==
  /\ op[h].pc = "observing"
  /\ \/ /\ op[h].at < Len(op[h].ids)
        /\ Step(h, "observing", [op[h] EXCEPT !.pc = "taken", !.at = @ + 1,
                                              !.rows = RowSet(h, Current(h), "completed")])
     \/ /\ op[h].at = Len(op[h].ids)
        /\ Step(h, "observing", [op[h] EXCEPT !.pc = "returning", !.rows = RowSet(h, Current(h), "completed")])
     \/ Step(h, "observing", [op[h] EXCEPT !.pc = "failing", !.rows = RowSet(h, Current(h), "failed")])
     \/ /\ Row(Current(h)) # "uncertain"
        /\ Step(h, "observing", [op[h] EXCEPT !.rows = RowSet(h, Current(h), "uncertain")])
  /\ UNCHANGED <<queued, assigned, sent, deaths>>

\* Mutation: the error leaves the unsent job as it is.
FailedRowsKept(h) == op[h].rows

\* catch: the job at hand fails although it was never sent.
FailedRows(h) == IF op[h].rows[Current(h)] = "queued" THEN RowSet(h, Current(h), "failed") ELSE op[h].rows

\* An error before the job is sent.
CycleFails(h) ==
  /\ \/ Step(h, "checking", [op[h] EXCEPT !.pc = "unchanged", !.rows = FailedRows(h)])
     \/ \E from \in {"checking", "taken", "ready"} :
          Step(h, from, [op[h] EXCEPT !.pc = "failing", !.rows = FailedRows(h)])
  /\ UNCHANGED <<queued, assigned, sent, deaths>>

\* finally: the LLM is back in service, or somebody has to look.
CycleEnds(h) ==
  /\ \/ Step(h, "unchanged", [op[h] EXCEPT !.pc = "ended", !.phase = "failed_unchanged"])
     \/ Step(h, "returning", [op[h] EXCEPT !.pc = "ended", !.phase = "returned"])
     \/ Step(h, "failing", [op[h] EXCEPT !.pc = "ended", !.phase = "failed_returned"])
     \/ \E from \in {"returning", "failing"} :
          Step(h, from, [op[h] EXCEPT !.pc = "ended", !.phase = "needs_attention"])
  /\ UNCHANGED <<queued, assigned, sent, deaths>>

\* The runner dies: its receipts stay as they are, whatever was sent.
RunnerDiesAt(h) ==
  /\ Death
  /\ \/ /\ op[h].pc \notin {"none", "ended", "sending"}
        /\ UNCHANGED sent
     \/ /\ op[h].pc = "sending"
        /\ \/ sent' = [sent EXCEPT ![Current(h)] = @ + 1]
           \/ UNCHANGED sent
  /\ op' = [op EXCEPT ![h].pc = "ended"]
  /\ UNCHANGED <<queued, assigned>>

MediaNext ==
  \/ \E j \in MediaJob : Enqueue(j)
  \/ \E w \in Host : \E ids \in Batches : Start(w, ids)
  \/ \E h \in MediaJob :
       MachineTaken(h) \/ NextJob(h) \/ Submit(h) \/ Receive(h) \/ Observe(h)
         \/ CycleFails(h) \/ CycleEnds(h) \/ RunnerDiesAt(h)

-----------------------------------------------------------------------------
\* A generation is submitted at most once, over every operation the job is assigned
\* to: a job that leaves a batch unsent is never sent by that batch any more.
GeneratedOnce == \A j \in MediaJob : sent[j] <= 1

\* Two runners never take the same worker, although the core knows of a runner only
\* what its receipts say and what is left of the assignments of its jobs.
OneMediaOperation ==
  \A g, h \in MediaJob :
    (g # h /\ op[g].host = op[h].host) =>
      op[g].pc \in {"none", "ended"} \/ op[h].pc \in {"none", "ended"}

\* A job that can be started has a folder no operation was launched from, so that
\* its start does not end in a launch that is uncertain for good.
FolderFresh == \A j \in MediaJob : Waiting(j) => ~op[j].log

\* A job is generated once, on a worker no other batch uses, and one that goes back to
\* the queue can be started again.
MediaOnce == GeneratedOnce /\ OneMediaOperation /\ FolderFresh
=============================================================================
