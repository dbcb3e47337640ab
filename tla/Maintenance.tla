----------------------------- MODULE Maintenance -----------------------------
(***************************************************************************)
(* The maintenance window of an operation on one worker: the observation   *)
(* before it, the lock, the wait for idle, the release and the conditional *)
(* readmission (operation_maintenance.py, media_maintenance.py), and the   *)
(* machine the operation works on: the containers of the worker's host.    *)
(*                                                                         *)
(* An operation is a process that may die at any step; its folder of       *)
(* receipts survives it.  at[j] is the step the process is about to take,  *)
(* disk[j] the receipts saved.  A control request that gets no answer      *)
(* raises in its caller, while the gateway may still serve it later.       *)
(***************************************************************************)
EXTENDS Pauses, Sequences

CONSTANTS Kind(_),     \* "serving", "trial", "hourglass" or "media"
          Target(_),   \* the worker of the job
          Scenarios    \* the sets of jobs that are started together

ASSUME MaintenanceAssumption ==
  /\ Operator \notin Job
  /\ \A j \in Job : Target(j) \in Worker /\ Kind(j) \in {"serving", "trial", "hourglass", "media"}

VARIABLES at,          \* the step the job's process is about to take
          disk,        \* the receipts in the job's folder
          base,        \* before.json: operator action and pause, with the history
          late,        \* jobs' control requests whose caller gave up
          run,         \* running containers of a worker's host
          name,        \* the container that has the serving name
          inc,         \* starts of the host's containers (StartedAt)
          started,     \* StartedAt as the job's checks remember it
          native,      \* direct work on the host: "direct" or a job's own
          bench,       \* native state of the job's measurement or generation
          submitted,   \* history: native submissions of the job
          record,      \* the worker's approved configuration record
          verified     \* history: containers that passed their checks since
                       \* an operation last stopped them

jobVars  == <<at, disk, base, late>>
hostVars == <<run, name, inc, started, native, bench, submitted, record, verified>>
lockVars == <<manual, drained, locks, lastMaint, receipts>>
gateRest == <<registered, endpoint, holds, granted, agent, load, overridden, pauses>>
gateVars == <<lockVars, head, gateRest>>

\* The language model answers at the worker's endpoint.
Answers(w) == name[w] \in run[w]
Up == {w \in Worker : Answers(w)}

MaintenanceInit ==
  /\ \E asked \in Scenarios : at = [j \in Job |-> IF j \in asked THEN "start" ELSE "ended"]
  /\ disk = [j \in Job |-> {}]
  /\ base = [j \in Job |-> [action |-> <<>>, paused |-> FALSE, pauses |-> pauses[Target(j)]]]
  /\ late = {}
  /\ run = [w \in Worker |-> {"prev"}]
  /\ name = [w \in Worker |-> "prev"]
  /\ inc = [w \in Worker |-> 0]
  /\ started = [j \in Job |-> 0]
  /\ native = [w \in Worker |-> {}]
  /\ bench = [j \in Job |-> "none"]
  /\ submitted = [j \in Job |-> 0]
  /\ record = [w \in Worker |-> "approved"]
  /\ verified = [w \in Worker |-> {"prev"}]

-----------------------------------------------------------------------------
(* Steps of a process.                                                     *)

Goto(j, s) == at' = [at EXCEPT ![j] = s]
Save(j, files) == disk' = [disk EXCEPT ![j] = @ \cup files]

\* The steps of a window that is being returned, and of a media cycle's finally.
Returning == {"release", "releasing", "resume", "resuming"}
Restoring == {"finally", "stop-media", "start-llm", "wait-llm", "proof"}

\* Where an exception takes the process: a serving operation tries to return an
\* unchanged server, a media cycle enters its finally block, and what fails
\* there, or in a measurement, is left for a person.
Handler(j) ==
  IF at[j] \in Returning \cup Restoring \cup {"catch"} THEN "ended"
  ELSE CASE Kind(j) = "media" -> "finally"
         [] Kind(j) = "hourglass" -> "ended"
         [] OTHER -> IF at[j] = "start" THEN "ended" ELSE "catch"

\* The process raises, having saved `files` before.
Raise(j, files) == Goto(j, Handler(j)) /\ Save(j, files)

-----------------------------------------------------------------------------
(* What the gateway and the host report.                                   *)

LockOf(j) == [worker |-> Target(j), id |-> j]

\* Mutation: another operation's lock is tolerated.
OwnedAmongOthers(j) ==
  LET w == Target(j)
  IN /\ {"before", "lock-result"} \subseteq disk[j]
     /\ w \in registered /\ drained[w] /\ Holds(w) = {}
     /\ LockOf(j) \in MaintenanceLocks(w)
     /\ head[w] = base[j].action /\ ManualPaused(w) = base[j].paused

\* owned(): the window is the job's alone and no operator decided otherwise.
Owned(j) ==
  LET w == Target(j)
  IN /\ {"before", "lock-result"} \subseteq disk[j]
     /\ w \in registered /\ drained[w] /\ Holds(w) = {}
     /\ MaintenanceLocks(w) = {LockOf(j)}
     /\ head[w] = base[j].action /\ ManualPaused(w) = base[j].paused

OwnedIdle(j) == Owned(j) /\ ~load[Target(j)]

\* wait_idle and _owned_idle: gateway and direct work have finished; the native
\* observation needs a server that answers.
Idle(j) == OwnedIdle(j) /\ Answers(Target(j)) /\ native[Target(j)] = {}

\* wait_idle keeps waiting for work to finish, and raises for everything else.
MustWait(j) ==
  /\ Owned(j) /\ Answers(Target(j))
  /\ load[Target(j)] \/ native[Target(j)] # {}

\* floor(): at least one other LLM keeps serving.
Floor(j) ==
  Available(Up) \ ({Target(j)} \cup {h.worker : h \in holds} \cup {l.worker : l \in locks}) # {}

\* minimum_other_llms of the lock request.
Minimum(j) == Kind(j) \in {"media", "trial"}

-----------------------------------------------------------------------------
(* acquire                                                                 *)

\* The baseline is observed once, and only of a worker nobody else holds.
Baseline(j) ==
  LET w == Target(j)
      free == w \in registered /\ Holds(w) = {} /\ MaintenanceLocks(w) = {}
                /\ (Kind(j) = "media" => Floor(j))
  IN /\ at[j] = "baseline"
     /\ IF "before" \in disk[j]
        THEN Goto(j, "lock") /\ UNCHANGED <<disk, base>>
        ELSE IF free
        THEN /\ base' = [base EXCEPT ![j] = [action |-> head[w], paused |-> ManualPaused(w),
                                             pauses |-> pauses[w]]]
             /\ Save(j, {"before"}) /\ Goto(j, "lock")
        ELSE Raise(j, {}) /\ UNCHANGED base
     /\ UNCHANGED <<gateVars, events, late, hostVars>>

\* A job without a result reads the receipt of the request it sent; a fresh job
\* sends its one request.
Lock(j) ==
  LET allowed == LockAllowed(Target(j), Minimum(j), Up)
  IN /\ at[j] = "lock"
     /\ IF "lock-result" \in disk[j]
        THEN Goto(j, "held") /\ UNCHANGED <<disk, lockVars>>
        ELSE IF "lock-intent" \in disk[j]
        THEN /\ IF <<j, "lock">> \in receipts
                THEN Save(j, {"lock-result"}) /\ Goto(j, "held")
                ELSE Raise(j, {})
             /\ UNCHANGED lockVars
        ELSE IF allowed
        THEN /\ MaintenanceLock(j, Target(j), Minimum(j), Up)
             /\ Save(j, {"lock-intent", "lock-result"}) /\ Goto(j, "held")
        ELSE Raise(j, {"lock-intent"}) /\ UNCHANGED lockVars
     /\ UNCHANGED <<gateRest, head, events, base, late, hostVars>>

\* acquire() ends with owned(); the next step depends on the job.
Held(j) ==
  /\ at[j] = "held"
  /\ IF ~Owned(j) THEN Raise(j, {})
     ELSE UNCHANGED disk /\ Goto(j, CASE "acceptance" \in disk[j] -> "observe"
                                      [] "rejection" \in disk[j] -> "settle"
                                      [] OTHER -> "idle")
  /\ UNCHANGED <<gateVars, events, base, late, hostVars>>

\* wait_idle before the job's own work.
WaitIdle(j) ==
  /\ at[j] = "idle"
  /\ ~MustWait(j)
  /\ UNCHANGED disk
  /\ IF Idle(j)
     THEN Goto(j, CASE Kind(j) = "hourglass" -> "submit"
                    [] Kind(j) = "media" -> "transition"
                    [] OTHER -> "cache")
     ELSE Goto(j, Handler(j))
  /\ UNCHANGED <<gateVars, events, base, late, hostVars>>

-----------------------------------------------------------------------------
(* release and resume_if_unchanged                                         *)

ReleaseRequest(j) == <<j, "release">>

\* release.before.json remembers whether an operator had paused the worker.
BeforeRelease(j) ==
  /\ at[j] = "release"
  /\ IF Target(j) \in registered
     THEN /\ Save(j, {IF ManualPaused(Target(j)) THEN "release-paused" ELSE "release-open"})
          /\ Goto(j, "releasing")
     ELSE Raise(j, {})
  /\ UNCHANGED <<gateVars, events, base, late, hostVars>>

Release(j) ==
  /\ at[j] = "releasing"
  /\ IF LockOf(j) \in locks
     THEN /\ MaintenanceRelease(j, ReleaseRequest(j))
          /\ Save(j, {"release-intent", "release-result"}) /\ Goto(j, "resume")
     ELSE Raise(j, {"release-intent"}) /\ UNCHANGED lockVars
  /\ UNCHANGED <<gateRest, head, events, base, late, hostVars>>

\* The worker is left to the operator when anyone decided anything meanwhile.
LeftToOperator(j) ==
  LET w == Target(j)
  IN \/ base[j].paused \/ "release-paused" \in disk[j]
     \/ head[w] # base[j].action
     \/ Holds(w) # {} \/ MaintenanceLocks(w) # {}

DecideResume(j) ==
  /\ at[j] = "resume"
  /\ IF Target(j) \notin registered THEN Raise(j, {})
     ELSE IF LeftToOperator(j) THEN Save(j, {"left"}) /\ Goto(j, "ended")
     ELSE Save(j, {"resume-intent"}) /\ Goto(j, "resuming")
  /\ UNCHANGED <<gateVars, events, base, late, hostVars>>

ResumeWorker(j) ==
  LET w == Target(j)
  IN /\ at[j] = "resuming"
     /\ IF ResumeAllowed(w, base[j].action, ReleaseRequest(j), Answers(w))
        THEN /\ ConditionalResume(w, base[j].action, ReleaseRequest(j), Answers(w))
             /\ Save(j, {"readmitted"}) /\ Goto(j, "ended")
        ELSE Raise(j, {}) /\ UNCHANGED <<manual, drained, head>>
     /\ UNCHANGED <<gateRest, locks, lastMaint, receipts, events, base, late, hostVars>>

-----------------------------------------------------------------------------
(* Requests without an answer.                                             *)

\* The request a step sends, and the intent it saves first.
RequestAt == [lock |-> "lock", releasing |-> "release", resuming |-> "resume"]
IntentAt == [lock |-> "lock-intent", releasing |-> "release-intent", resuming |-> "resume-intent"]

\* The connection gives up after 30 seconds; the request may still be queued.
Unanswered(j) ==
  /\ Event
  /\ at[j] \in DOMAIN RequestAt
  /\ at[j] = "lock" => "lock-intent" \notin disk[j]
  /\ late' = late \cup {<<j, RequestAt[at[j]]>>}
  /\ Raise(j, {IntentAt[at[j]]})
  /\ UNCHANGED <<gateVars, base, hostVars>>

\* The gateway serves a request whose caller is gone.
ServeLate(j, request) ==
  LET w == Target(j)
  IN /\ <<j, request>> \in late
     /\ late' = late \ {<<j, request>>}
     /\ CASE request = "lock" /\ LockAllowed(w, Minimum(j), Up) ->
               MaintenanceLock(j, w, Minimum(j), Up) /\ UNCHANGED head
          [] request = "release" /\ LockOf(j) \in locks ->
               MaintenanceRelease(j, ReleaseRequest(j)) /\ UNCHANGED head
          [] request = "resume" /\ ResumeAllowed(w, base[j].action, ReleaseRequest(j), Answers(w)) ->
               /\ ConditionalResume(w, base[j].action, ReleaseRequest(j), Answers(w))
               /\ UNCHANGED <<locks, lastMaint, receipts>>
          [] OTHER -> UNCHANGED <<lockVars, head>>
     /\ UNCHANGED <<gateRest, events, at, disk, base, hostVars>>

\* The steps of the window every kind of job takes.
WindowStep(j) ==
  \/ Baseline(j) \/ Lock(j) \/ Held(j) \/ WaitIdle(j)
  \/ BeforeRelease(j) \/ Release(j) \/ DecideResume(j) \/ ResumeWorker(j)
  \/ Unanswered(j)

-----------------------------------------------------------------------------
(***************************************************************************)
(* The containers of the worker's host as the operations drive them        *)
(* through Docker (docker_profile.py, docker_profile_remote.py,            *)
(* media-cycle.mjs): one command at a time, its intent saved before and    *)
(* its result after, so that a command without an answer is never sent     *)
(* again.  "prev" is the original LLM, "cand" the reviewed candidate,      *)
(* "media" the media engine.                                               *)
(***************************************************************************)

Stops  == [s \in {"stop-previous", "stop-candidate", "stop-llm", "stop-media"} |->
             CASE s = "stop-candidate" -> "cand" [] s = "stop-media" -> "media" [] OTHER -> "prev"]
Starts == [s \in {"start-candidate", "start-previous", "start-media", "start-llm"} |->
             CASE s = "start-candidate" -> "cand" [] s = "start-media" -> "media" [] OTHER -> "prev"]
Renames == [s \in {"retain-previous", "activate-name", "retain-candidate", "restore-name"} |->
              CASE s = "activate-name" -> "cand" [] s = "restore-name" -> "prev" [] OTHER -> "none"]

\* The command that follows an acknowledged one.
Follows == [s \in DOMAIN Stops \cup DOMAIN Starts \cup DOMAIN Renames |->
  CASE s = "stop-previous" -> "retain-previous"
    [] s = "retain-previous" -> "activate-name"
    [] s = "activate-name" -> "start-candidate"
    [] s = "start-candidate" -> "await"
    [] s = "stop-candidate" -> "retain-candidate"
    [] s = "retain-candidate" -> "restore-name"
    [] s = "restore-name" -> "start-previous"
    [] s = "start-previous" -> "await"
    [] s = "stop-llm" -> "start-media"
    [] s = "start-media" -> "engine"
    [] s = "stop-media" -> "start-llm"
    [] s = "start-llm" -> "wait-llm"]

\* What the Docker daemon does for a command.
Command(w, s) ==
  /\ run' = [run EXCEPT ![w] = IF s \in DOMAIN Stops THEN @ \ {Stops[s]}
                               ELSE IF s \in DOMAIN Starts THEN @ \cup {Starts[s]} ELSE @]
  /\ name' = [name EXCEPT ![w] = IF s \in DOMAIN Renames THEN Renames[s] ELSE @]
  /\ inc' = [inc EXCEPT ![w] = IF s \in DOMAIN Starts THEN @ + 1 ELSE @]
  /\ verified' = [verified EXCEPT ![w] = IF s \in DOMAIN Stops THEN @ \ {Stops[s]} ELSE @]

\* _step: intent, command, result.
DockerStep(j) ==
  /\ at[j] \in DOMAIN Follows
  /\ Command(Target(j), at[j])
  /\ Save(j, {at[j]}) /\ Goto(j, Follows[at[j]])
  /\ UNCHANGED <<gateVars, events, base, late, started, native, bench, submitted, record>>

\* The command gets no confirmed answer, whether the daemon did it or not.
DockerUnanswered(j) ==
  /\ Event
  /\ at[j] \in DOMAIN Follows
  /\ Command(Target(j), at[j]) \/ UNCHANGED <<run, name, inc, verified>>
  /\ Raise(j, {at[j]})
  /\ UNCHANGED <<gateVars, base, late, started, native, bench, submitted, record>>

\* A read-only observation fails, or a file of the job cannot be read.
ObservationFails(j) ==
  /\ Event
  /\ at[j] \notin {"ended", "dead", "observe", "wait-llm"} \cup DOMAIN Follows
  /\ Raise(j, {})
  /\ UNCHANGED <<gateVars, base, late, hostVars>>

\* The process of the job dies.
Die(j) ==
  /\ Event
  /\ at[j] \notin {"start", "ended", "dead"}
  /\ Goto(j, "dead")
  /\ UNCHANGED <<gateVars, disk, base, late, hostVars>>

-----------------------------------------------------------------------------
(* The host's own events.                                                  *)

\* A container exits, or its restart policy starts it anew.
ContainerExits(w) ==
  /\ Event
  /\ \E c \in run[w] :
       \/ run' = [run EXCEPT ![w] = @ \ {c}] /\ UNCHANGED inc
       \/ inc' = [inc EXCEPT ![w] = @ + 1] /\ UNCHANGED run
  /\ UNCHANGED <<gateVars, jobVars, name, started, native, bench, submitted, record, verified>>

\* Somebody uses the server directly, past the gateway.
DirectWork(w) ==
  /\ Event
  /\ run[w] # {} /\ "direct" \notin native[w]
  /\ native' = [native EXCEPT ![w] = @ \cup {"direct"}]
  /\ UNCHANGED <<gateVars, jobVars, run, name, inc, started, bench, submitted, record, verified>>

\* A native measurement or generation ends, with its last request still running.
NativeEnds(j) ==
  /\ bench[j] = "running"
  /\ bench' = [bench EXCEPT ![j] = "done"]
  /\ UNCHANGED <<gateVars, events, jobVars, run, name, inc, started, native, submitted, record, verified>>

NativeQuiet(w) ==
  /\ \E x \in native[w] :
       /\ x \in Job => bench[x] = "done"
       /\ native' = [native EXCEPT ![w] = @ \ {x}]
  /\ UNCHANGED <<gateVars, events, jobVars, run, name, inc, started, bench, submitted, record, verified>>

HostNext ==
  \/ \E w \in Worker : ContainerExits(w) \/ DirectWork(w) \/ NativeQuiet(w)
  \/ \E j \in Job : NativeEnds(j)
=============================================================================
