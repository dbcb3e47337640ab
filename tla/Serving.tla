------------------------------- MODULE Serving -------------------------------
(***************************************************************************)
(* An approved change of a worker's serving container                      *)
(* (serving_operation.py over docker_profile.py): the candidate is created *)
(* beside the original, takes its name, is qualified                       *)
(* (serving_qualification.py), its record is published                     *)
(* (serving_records.py) and the worker returned; a candidate that fails,   *)
(* or a trial that is over, gives the original its place back.             *)
(***************************************************************************)
EXTENDS Maintenance

-----------------------------------------------------------------------------
(***************************************************************************)
(* An approved Hourglass measurement of an unchanged server                *)
(* (hourglass_operation.py, hourglass_native.py), the same measurement of  *)
(* a candidate inside a serving trial (serving_trial.py), and the owner's  *)
(* return of a worker whose measurement ended without its process          *)
(* (hourglass_executor.py).                                                *)
(***************************************************************************)

\* check_target: the endpoint and the container the measurement was reviewed for.
CheckTarget(j) ==
  LET w == Target(j) IN endpoint[w] /\ Answers(w) /\ inc[w] = started[j]

\* Mutation: a measurement without a known outcome counts as not started.
BeginHourglassAnew(j) ==
  /\ Kind(j) = "hourglass" /\ at[j] = "start"
  /\ Goto(j, IF "readmission-intent" \notin disk[j] /\ CheckTarget(j) THEN "baseline" ELSE "ended")
  /\ UNCHANGED <<gateVars, events, disk, base, late, hostVars>>

\* The reading of the receipts that a run of the operation starts with: a new run
\* only continues what the receipts prove.
BeginHourglass(j) ==
  LET uncertain == "start-intent" \in disk[j] /\ disk[j] \cap {"acceptance", "rejection"} = {}
  IN /\ Kind(j) = "hourglass"
     /\ at[j] = "start"
     /\ Goto(j, IF "readmission-intent" \notin disk[j] /\ ~uncertain /\ CheckTarget(j)
                THEN "baseline" ELSE "ended")
     /\ UNCHANGED <<gateVars, events, disk, base, late, hostVars>>

\* The operation is started again on the folder of a dead process.
Rerun(j) ==
  /\ Event
  /\ at[j] = "dead" /\ Kind(j) # "media"
  /\ Goto(j, "start")
  /\ UNCHANGED <<gateVars, disk, base, late, hostVars>>

\* submit: a preflight of reads only proves a rejection; the one POST is accepted.
Submit(j) ==
  LET w == Target(j)
  IN /\ at[j] = "submit"
     /\ IF ~CheckTarget(j)
        THEN Raise(j, {}) /\ UNCHANGED <<native, bench, submitted>>
        ELSE \/ /\ Save(j, {"start-intent", "rejection"})
                /\ Goto(j, IF Kind(j) = "hourglass" THEN "settle" ELSE "restore")
                /\ UNCHANGED <<native, bench, submitted>>
             \/ /\ Save(j, {"start-intent", "acceptance"}) /\ Goto(j, "observe")
                /\ native' = [native EXCEPT ![w] = @ \cup {j}]
                /\ bench' = [bench EXCEPT ![j] = "running"]
                /\ submitted' = [submitted EXCEPT ![j] = @ + 1]
     /\ UNCHANGED <<gateVars, events, base, late, run, name, inc, started, record, verified>>

\* The POST is not answered, or its process dies waiting: accepted or not, it is
\* never sent again.
SubmitUnanswered(j) ==
  LET w == Target(j)
  IN /\ Event
     /\ at[j] = "submit" /\ CheckTarget(j)
     /\ Save(j, {"start-intent"}) /\ (Goto(j, Handler(j)) \/ Goto(j, "dead"))
     /\ \/ UNCHANGED <<native, bench>>
        \/ /\ native' = [native EXCEPT ![w] = @ \cup {j}]
           /\ bench' = [bench EXCEPT ![j] = "running"]
     /\ submitted' = [submitted EXCEPT ![j] = @ + 1]
     /\ UNCHANGED <<gateVars, base, late, run, name, inc, started, record, verified>>

\* The saved job is observed until it reports a terminal state; an observation
\* that fails is repeated, a window that changed hands raises.
ObserveMeasurement(j) ==
  /\ Kind(j) \in {"hourglass", "trial"}
  /\ at[j] = "observe"
  /\ IF ~Owned(j) THEN Raise(j, {})
     ELSE bench[j] = "done" /\ Goto(j, "settle") /\ UNCHANGED disk
  /\ UNCHANGED <<gateVars, events, base, late, hostVars>>

\* A terminal receipt does not prove that the last native request has finished.
Settle(j) ==
  /\ at[j] = "settle" /\ ~MustWait(j)
  /\ IF ~(Idle(j) /\ CheckTarget(j)) THEN Raise(j, {})
     ELSE IF Kind(j) = "hourglass"
     THEN Save(j, {"readmission-intent"}) /\ Goto(j, "release")
     ELSE UNCHANGED disk /\ Goto(j, "restore")
  /\ UNCHANGED <<gateVars, events, base, late, hostVars>>

\* reconcile: the owner approves the observed end of a measurement nobody
\* returned.  A readmission that began is never repeated.
Reconcile(j) ==
  /\ Event
  /\ Kind(j) = "hourglass" /\ at[j] \in {"ended", "dead"}
  /\ disk[j] \cap {"readmission-intent", "release-intent", "resume-intent"} = {}
  /\ "acceptance" \in disk[j] /\ bench[j] = "done"
  /\ CheckTarget(j) /\ Idle(j)
  /\ Save(j, {"readmission-intent"}) /\ Goto(j, "release")
  /\ UNCHANGED <<gateVars, base, late, hostVars>>

HourglassStep(j) ==
  \/ BeginHourglass(j) \/ Rerun(j) \/ Submit(j) \/ SubmitUnanswered(j)
  \/ ObserveMeasurement(j) \/ Settle(j) \/ Reconcile(j)

-----------------------------------------------------------------------------
(* The change of a serving container.                                      *)

IsServing(j) == Kind(j) \in {"serving", "trial"}

\* check_record and restoration_authority: the record is the one approved.
CheckRecord(j) == record[Target(j)] = "approved"

\* run: one attempt per folder; the record is checked before anything is saved.
BeginServing(j) ==
  /\ IsServing(j) /\ at[j] = "start"
  /\ IF "serving-intent" \notin disk[j] /\ CheckRecord(j)
     THEN Save(j, {"serving-intent"}) /\ Goto(j, "baseline")
     ELSE UNCHANGED disk /\ Goto(j, "ended")
  /\ UNCHANGED <<gateVars, events, base, late, hostVars>>

\* The original's cache capacity must be known before it is changed.
ObserveCache(j) ==
  /\ at[j] = "cache"
  /\ \/ CheckRecord(j) /\ Goto(j, "create") /\ UNCHANGED disk
     \/ Raise(j, {})
  /\ UNCHANGED <<gateVars, events, base, late, hostVars>>

\* The original serves under its name, since the start the plan recorded.
Unchanged(j) == LET w == Target(j) IN name[w] = "prev" /\ "prev" \in run[w] /\ inc[w] = 0

\* apply, up to the cutover: the candidate is created stopped, and everything is
\* checked again before the original is stopped.
Create(j) ==
  /\ at[j] = "create"
  /\ IF Unchanged(j) /\ Idle(j) THEN Save(j, {"create"}) /\ Goto(j, "cutover")
     ELSE Raise(j, {})
  /\ UNCHANGED <<gateVars, events, base, late, hostVars>>

Cutover(j) ==
  /\ at[j] = "cutover"
  /\ IF Unchanged(j) /\ Idle(j) THEN UNCHANGED disk /\ Goto(j, "stop-previous")
     ELSE Raise(j, {})
  /\ UNCHANGED <<gateVars, events, base, late, hostVars>>

-----------------------------------------------------------------------------
(* qualify: of the candidate, and of the original after restore().         *)

Which(j) == IF "start-previous" \in disk[j] THEN "prev" ELSE "cand"
Other(j) == IF Which(j) = "prev" THEN "cand" ELSE "prev"

\* qualified-candidate.json, qualified-previous.json
Proof(which) == IF which = "cand" THEN "passed-cand" ELSE "passed-prev"

\* observe: the container under test has the name, the other one is stopped.
Serves(j) ==
  LET w == Target(j) IN name[w] = Which(j) /\ Which(j) \in run[w] /\ Other(j) \notin run[w]
Stopped(j) ==
  LET w == Target(j) IN name[w] = Which(j) /\ run[w] \cap {"prev", "cand"} = {}

\* A container that stopped has failed; a candidate's failure restores the
\* original, the original's leaves the worker held.
Fail(j, files) ==
  IF Which(j) = "cand" THEN Save(j, files \cup {"failed-cand"}) /\ Goto(j, "restore")
  ELSE Raise(j, files \cup {"failed-prev"})

\* qualify waits for the API of the started container.
Await(j) ==
  LET w == Target(j)
  IN /\ at[j] = "await"
     /\ IF ~OwnedIdle(j) THEN Raise(j, {}) /\ UNCHANGED started
        ELSE IF Stopped(j) /\ CheckRecord(j) THEN Fail(j, {}) /\ UNCHANGED started
        ELSE IF Serves(j) /\ CheckRecord(j)
        THEN started' = [started EXCEPT ![j] = inc[w]] /\ Goto(j, "verify") /\ UNCHANGED disk
        ELSE Raise(j, {}) /\ UNCHANGED started
     /\ UNCHANGED <<gateVars, events, base, late, run, name, inc, native, bench, submitted, record, verified>>

\* The native checks, in order; the first that fails or is not answered ends
\* them, and none is repeated.
ApiCases == <<"models", "text", "tool", "tool-followup", "vision", "cold-A", "cold-B",
              "warm-A", "warm-B", "context-boundary", "context-overflow">>
EosCases == <<"reasoning-eos-guard", "content-eos-restored">>
\* A contract for two requests at once: both decode together, then both flows
\* take every check.
ConcurrencyCases == <<"concurrency-idle", "concurrency-decode", "concurrency-finished",
                      "pair-A", "pair-B">>
Suite(concurrency) ==
  <<"native-metrics-before">>
    \o (IF concurrency = 2 THEN ConcurrencyCases ELSE ApiCases \o EosCases)
    \o <<"native-metrics-after">>

\* verify: `done` checks of the suite succeed before one does not; `counters` are
\* the failure counters before and after.
NativePassed(suite, done, counters) == done = Len(suite) /\ counters[1] = counters[2]

\* The reviewed allowance binds the candidate only; the original may return with
\* whatever capacity its start gave it.
Capacity == {"unavailable", "below_allowance", "within_allowance"}
CapacityAccepted(which, capacity) == which = "cand" => capacity = "within_allowance"

\* The verdict: the checks passed, the record's required checks are covered, and
\* the same start of the same container served throughout, idle at the end.
Verdict(j) ==
  LET w == Target(j)
      same == Serves(j) /\ inc[w] = started[j]
  IN /\ at[j] = "verify" /\ ~MustWait(j)
     /\ \/ /\ OwnedIdle(j) /\ Stopped(j) /\ CheckRecord(j)
           /\ Fail(j, {}) /\ UNCHANGED verified
        \/ /\ Idle(j) /\ same /\ CheckRecord(j)
           /\ \E concurrency \in {1, 2}, missed \in {0, 1}, capacity \in Capacity,
                 counters \in {<<0, 0>>, <<0, 1>>} :
                LET suite == Suite(concurrency)
                IN
                IF NativePassed(suite, Len(suite) - missed, counters) /\ CapacityAccepted(Which(j), capacity)
                THEN /\ verified' = [verified EXCEPT ![w] = @ \cup {Which(j)}]
                     /\ Save(j, {Proof(Which(j))})
                     /\ Goto(j, IF Kind(j) = "trial" /\ Which(j) = "cand" THEN "measure" ELSE "publish")
                ELSE Fail(j, {}) /\ UNCHANGED verified
        \/ /\ ~(Idle(j) /\ same /\ CheckRecord(j)) /\ ~(OwnedIdle(j) /\ Stopped(j) /\ CheckRecord(j))
           /\ Raise(j, {}) /\ UNCHANGED verified
     /\ UNCHANGED <<gateVars, events, base, late, run, name, inc, started, native, bench, submitted, record>>

\* A trial measures the qualified candidate inside the same window.
Measure(j) ==
  /\ at[j] = "measure" /\ ~MustWait(j)
  /\ IF Idle(j) /\ CheckTarget(j) THEN UNCHANGED disk /\ Goto(j, "submit") ELSE Raise(j, {})
  /\ UNCHANGED <<gateVars, events, base, late, hostVars>>

\* restore: the retained original takes its name back.
Restore(j) ==
  LET w == Target(j)
      retained == "prev" \notin run[w] /\ name[w] = "cand"
      quiet == IF "cand" \in run[w] THEN Idle(j) ELSE OwnedIdle(j)
  IN /\ at[j] = "restore"
     /\ IF CheckRecord(j) /\ retained /\ quiet
        THEN /\ UNCHANGED disk
             /\ Goto(j, IF "cand" \in run[w] THEN "stop-candidate" ELSE "retain-candidate")
        ELSE Raise(j, {})
     /\ UNCHANGED <<gateVars, events, base, late, hostVars>>

-----------------------------------------------------------------------------
(* finish                                                                  *)

Passed(j) == Proof(Which(j)) \in disk[j]

\* qualified_current: what serves now is what passed.
QualifiedCurrent(j) ==
  OwnedIdle(j) /\ Passed(j) /\ Serves(j) /\ inc[Target(j)] = started[j]

\* Mutation: the record is left to a later step.
PublishDeferred(j) ==
  /\ at[j] = "publish"
  /\ IF CheckRecord(j) /\ QualifiedCurrent(j)
     THEN Save(j, {"published"}) /\ Goto(j, "finish") ELSE Raise(j, {})
  /\ UNCHANGED <<gateVars, events, base, late, hostVars>>

\* publish: one committed record per operation, of the container that passed.
Publish(j) ==
  LET w == Target(j)
  IN /\ at[j] = "publish"
     /\ IF CheckRecord(j) /\ QualifiedCurrent(j)
        THEN /\ record' = [record EXCEPT ![w] = Which(j)]
             /\ Save(j, {"published"}) /\ Goto(j, "finish")
        ELSE Raise(j, {}) /\ UNCHANGED record
     /\ UNCHANGED <<gateVars, events, base, late, run, name, inc, started, native, bench, submitted, verified>>

\* The record is replaced and its commit is not confirmed.
PublishUnconfirmed(j) ==
  /\ Event
  /\ at[j] = "publish" /\ CheckRecord(j) /\ QualifiedCurrent(j)
  /\ record' = [record EXCEPT ![Target(j)] = Which(j)]
  /\ Raise(j, {})
  /\ UNCHANGED <<gateVars, base, late, run, name, inc, started, native, bench, submitted, verified>>

Finish(j) ==
  /\ at[j] = "finish" /\ ~MustWait(j)
  /\ IF Idle(j) /\ QualifiedCurrent(j) THEN UNCHANGED disk /\ Goto(j, "release")
     ELSE Raise(j, {})
  /\ UNCHANGED <<gateVars, events, base, late, hostVars>>

\* Mutation: any idle server may be returned.
UnchangedReturnIdle(j) ==
  /\ at[j] = "catch" /\ ~MustWait(j)
  /\ UNCHANGED disk
  /\ Goto(j, IF CheckRecord(j) /\ Idle(j) THEN "release" ELSE "ended")
  /\ UNCHANGED <<gateVars, events, base, late, hostVars>>

\* unchanged_return: without an intent to stop the original the worker may be
\* returned as it was.
UnchangedReturn(j) ==
  /\ at[j] = "catch" /\ ~("stop-previous" \notin disk[j] /\ MustWait(j))
  /\ UNCHANGED disk
  /\ Goto(j, IF "stop-previous" \notin disk[j] /\ CheckRecord(j) /\ Unchanged(j) /\ Idle(j)
             THEN "release" ELSE "ended")
  /\ UNCHANGED <<gateVars, events, base, late, hostVars>>

ServingStep(j) ==
  \/ BeginServing(j) \/ ObserveCache(j) \/ Create(j) \/ Cutover(j) \/ Await(j)
  \/ Verdict(j) \/ Measure(j) \/ Restore(j) \/ Publish(j) \/ PublishUnconfirmed(j)
  \/ Finish(j) \/ UnchangedReturn(j)
=============================================================================
