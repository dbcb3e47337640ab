--------------------------- MODULE WindowsProofs ----------------------------
(***************************************************************************)
(* What holds of every set of workers and jobs: the gateway's store stays  *)
(* consistent, one operation works on a worker at a time, only a verified  *)
(* and recorded server is routed, and no operation overrides an operator's *)
(* later drain.                                                            *)
(*                                                                         *)
(* The invariant relates the folder of a job to the step its process is at *)
(* and to the gateway's locks.  Every step of a job is first reduced to    *)
(* JobChange, which says what it may change of the job, of the host and of *)
(* the gateway; the conjuncts are then proved from JobChange, from the     *)
(* requests of the operator and the agents, and from the host's events.    *)
(***************************************************************************)
EXTENDS Windows, FiniteSetTheorems, TLAPS

\* The steps a process may be at, by the kind of its job.
CandidateSteps == {"stop-previous", "retain-previous", "activate-name", "start-candidate"}
OriginalSteps == {"stop-candidate", "retain-candidate", "restore-name", "start-previous"}
Outside == {"ended", "dead", "start"}
Window == {"start", "baseline", "lock", "held", "idle", "ended", "dead"} \cup Returning

HourglassAt == Window \cup {"submit", "observe", "settle"}
MediaAt == Window \cup Restoring \cup {"transition", "stop-llm", "start-media", "engine", "dispatch", "observe"}
ServingAt == Window \cup CandidateSteps \cup OriginalSteps
               \cup {"cache", "create", "cutover", "await", "verify", "publish", "finish", "catch", "restore"}
StepOf(j) ==
  /\ Kind(j) = "hourglass" => at[j] \in HourglassAt
  /\ Kind(j) = "media" => at[j] \in MediaAt
  /\ IsServing(j) => at[j] \in ServingAt \/ (Kind(j) = "trial" /\ at[j] \in {"measure", "submit", "observe", "settle"})

\* The operator actions a worker may have at its head.
Actions == {<<>>} \cup {<<Operator, n>> : n \in 0..(events - 1)} \cup {ReleaseRequest(j) : j \in Job}
Pause == [drain : Nat, clear : Nat]

GateTyped ==
  /\ registered \subseteq Worker
  /\ manual \in [Worker -> {"unset", "paused", "open"}]
  /\ drained \in [Worker -> BOOLEAN]
  /\ holds \subseteq [worker : Worker, id : 1..MaxEvents]
  /\ locks \subseteq [worker : Worker, id : Job \cup {Operator}]
HistoryTyped ==
  /\ events \in 0..MaxEvents
  /\ overridden \in [Worker -> BOOLEAN]
  /\ pauses \in [Worker -> Pause]
  /\ head \in [Worker -> Actions]
JobTyped ==
  /\ at = [p \in Job |-> at[p]]
  /\ \A j \in Job : StepOf(j)
  /\ disk = [p \in Job |-> disk[p]]
  /\ base \in [Job -> [action : Actions, paused : BOOLEAN, pauses : Pause]]
HostTyped ==
  /\ name \in [Worker -> {"prev", "cand", "none"}]
  /\ run \in [Worker -> SUBSET {"prev", "cand", "media"}]
  /\ verified \in [Worker -> SUBSET {"prev", "cand", "media"}]
  /\ record \in [Worker -> {"approved", "cand", "prev"}]
  /\ bench \in [Job -> {"none", "running", "done"}]
  /\ submitted \in [Job -> 0..1]
Typed == GateTyped /\ HistoryTyped /\ JobTyped /\ HostTyped

\* The registry forgets the pause of a worker it removes.
Forgotten == \A w \in Worker \ registered : manual[w] = "unset"

\* A lock was given by a committed request, and an operation's is on its own worker.
LockReceipts ==
  \A l \in locks : <<l.id, "lock">> \in receipts /\ (l.id \in Job => l.worker = Target(l.id))

\* The job began to stop its worker's server; Unclean: and may still have to answer for it.
Touched(j) == disk[j] \cap {"stop-previous", "stop-llm"} # {}
Unclean(j) == Touched(j) /\ LockOf(j) \in locks
\* A job works under a lock it asked for, and has it unless the operator released it.
HoldsLock ==
  \A j \in Job :
    /\ Working(j) \/ Touched(j) => <<j, "lock">> \in receipts
    /\ Working(j) /\ ~overridden[Target(j)] => LockOf(j) \in locks
\* Nobody works on a worker that another job works on, or changed and still has locked.
Exclusive ==
  \A i, j \in Job :
    (i # j /\ Target(i) = Target(j) /\ Working(i) /\ (Working(j) \/ Unclean(j))) => overridden[Target(i)]

\* What the folder of a job says of the step its process is at and of its submission.
Outcomes == {"acceptance", "rejection"}
HourglassFolder(j) ==
  /\ ~Touched(j)
  /\ at[j] \in Returning \/ "release-intent" \in disk[j] => "readmission-intent" \in disk[j]
  /\ "readmission-intent" \in disk[j] => at[j] \in Returning \cup Outside
  /\ submitted[j] > 0 => "start-intent" \in disk[j]
  /\ at[j] \in {"idle", "submit"} => "start-intent" \notin disk[j] /\ disk[j] \cap Outcomes = {}
  /\ at[j] \in {"baseline", "lock", "held"} /\ "start-intent" \in disk[j] => disk[j] \cap Outcomes # {}
Changed == CandidateSteps \cup OriginalSteps
             \cup {"await", "verify", "measure", "submit", "observe", "settle", "restore", "publish", "finish"}
ServingFolder(j) ==
  /\ "stop-llm" \notin disk[j]
  /\ at[j] \notin {"start", "ended"} \/ disk[j] # {} => "serving-intent" \in disk[j]
  /\ at[j] \in Changed \ {"stop-previous"} => "stop-previous" \in disk[j]
  /\ submitted[j] > 0 => "start-intent" \in disk[j]
  /\ Kind(j) = "serving" => submitted[j] = 0 /\ disk[j] \cap Outcomes = {}
  /\ submitted[j] > 0 \/ disk[j] \cap Outcomes # {} =>
       /\ at[j] \in OriginalSteps \cup Returning \cup Outside
                      \cup {"observe", "settle", "restore", "await", "verify", "publish", "finish", "catch"}
       /\ at[j] \in {"await", "verify"} => "start-previous" \in disk[j]
MediaFolder(j) ==
  /\ "stop-previous" \notin disk[j] /\ disk[j] \cap Outcomes = {}
  /\ at[j] = "start" => disk[j] = {}
  /\ at[j] \in {"start-media", "engine", "dispatch", "observe", "stop-media", "start-llm", "wait-llm"}
       => "stop-llm" \in disk[j]
  /\ submitted[j] > 0 => at[j] \in {"observe", "ended", "dead"} \cup Restoring \cup Returning
Folder(j) ==
  /\ Kind(j) = "hourglass" => HourglassFolder(j)
  /\ Kind(j) = "media" => MediaFolder(j)
  /\ IsServing(j) => ServingFolder(j)
  /\ "release-intent" \in disk[j] => at[j] \in {"resume", "resuming"} \cup Outside
  /\ at[j] \in {"resume", "resuming"} => "release-intent" \in disk[j]
Folders == \A j \in Job : Folder(j)

\* A request to release or to readmit that was given up has a process that ended, and its
\* folder shows that the release was begun.
Released ==
  \A j \in Job :
    <<j, "release">> \in late \/ <<j, "resume">> \in late =>
      "release-intent" \in disk[j] /\ at[j] \in Outside

\* A serving operation that publishes has verified its server, one that finishes has recorded it.
Passing ==
  \A j \in Job : ~overridden[Target(j)] =>
    /\ at[j] \in {"publish", "finish"} => Which(j) \in verified[Target(j)]
    /\ at[j] = "finish" => record[Target(j)] = Which(j)

\* A server that is not verified, or not the one on record, is the business of a job that
\* changed it, has not begun to return it and still holds its lock.
Pending(j) == Unclean(j) /\ at[j] \notin Returning /\ "release-intent" \notin disk[j]
Verified(w) == name[w] \in verified[w]
Recorded(w) == name[w] = (IF record[w] = "cand" THEN "cand" ELSE "prev")
Accounted ==
  \A w \in Worker : ~overridden[w] =>
    /\ Verified(w) \/ \E j \in Job : Target(j) = w /\ Pending(j)
    /\ Recorded(w) \/ \E j \in Job : Target(j) = w /\ Pending(j) /\ IsServing(j)

\* While the action a job observed is the worker's last, no drain followed the observation;
\* a readmission that anybody saw was given by a job that asks for no other.
Used(j) == (\E w \in Worker : head[w] = ReleaseRequest(j)) \/ (\E i \in Job : base[i].action = ReleaseRequest(j))
Looked ==
  \A j \in Job :
    /\ head[Target(j)] = base[j].action => pauses[Target(j)].drain = base[j].pauses.drain
    /\ Used(j) => "release-intent" \in disk[j] /\ at[j] \in Outside /\ <<j, "resume">> \notin late

WindowsInv ==
  /\ Typed /\ LockReceipts /\ Forgotten /\ PauseOwnership /\ FloorKept
  /\ HoldsLock /\ Exclusive /\ Folders /\ Released /\ Passing /\ Accounted /\ Looked

-----------------------------------------------------------------------------
(* The gateway's side: pauses, holds and locks.                            *)

\* Somebody other than the operator's own pause holds the worker.
Kept(w) == (\E h \in holds : h.worker = w) \/ (\E l \in locks : l.worker = w)
Agrees(w) ==
  manual[w] # "unset" \/ Kept(w) => (drained[w] <=> (Kept(w) \/ ManualPaused(w)))

\* Kept says what PauseOwnership compares: an owner of a pause of the worker.
LEMMA KeptMeaning ==
  ASSUME NEW w PROVE Kept(w) <=> (Holds(w) # {} \/ MaintenanceLocks(w) # {})
BY DEF Kept, Holds, MaintenanceLocks

\* PauseOwnership, worker by worker.
LEMMA OwnershipMeaning ==
  ASSUME GateTyped
  PROVE  PauseOwnership <=>
           /\ \A h \in holds : h.worker \in registered
           /\ \A l \in locks : l.worker \in registered
           /\ \A w \in registered : Agrees(w)
<1>1. ASSUME NEW w \in registered PROVE drained[w] \in BOOLEAN /\ ManualPaused(w) \in BOOLEAN
  BY <1>1 DEF GateTyped, ManualPaused
<1> QED BY <1>1, KeptMeaning DEF PauseOwnership, Agrees

\* The same of the state after a step.
LEMMA OwnershipMeaningNext ==
  ASSUME GateTyped'
  PROVE  PauseOwnership' <=>
           /\ \A h \in holds' : h.worker \in registered'
           /\ \A l \in locks' : l.worker \in registered'
           /\ \A w \in registered' : Agrees(w)'
<1>1. ASSUME NEW w \in registered' PROVE drained'[w] \in BOOLEAN /\ ManualPaused(w)' \in BOOLEAN
  BY <1>1 DEF GateTyped, ManualPaused
<1>2. \A w : Kept(w)' <=> (Holds(w)' # {} \/ MaintenanceLocks(w)' # {})
  BY DEF Kept, Holds, MaintenanceLocks
<1> QED BY <1>1, <1>2 DEF PauseOwnership, Agrees

\* A maintenance lock keeps the ownership of the pauses.
LEMMA OwnershipLock ==
  ASSUME GateTyped, GateTyped', PauseOwnership, NEW id, NEW w \in Worker, NEW minimum, NEW up,
         MaintenanceLock(id, w, minimum, up), UNCHANGED <<registered, holds>>
  PROVE  PauseOwnership'
<1>1. /\ \A h \in holds : h.worker \in registered
      /\ \A l \in locks : l.worker \in registered
      /\ \A v \in registered : Agrees(v)
  BY OwnershipMeaning
<1>2. CASE <<id, "lock">> \in receipts
  BY <1>2 DEF MaintenanceLock, PauseOwnership, Holds, MaintenanceLocks, ManualPaused
<1>3. CASE <<id, "lock">> \notin receipts
  <2>1. /\ w \in registered
        /\ manual' = [manual EXCEPT ![w] = IF ManualPaused(w) THEN "paused" ELSE "open"]
        /\ drained' = [drained EXCEPT ![w] = TRUE]
        /\ locks' = locks \cup {[worker |-> w, id |-> id]}
    BY <1>3 DEF MaintenanceLock, LockAllowed
  <2>2. \A l \in locks' : l.worker \in registered'
    BY <1>1, <2>1
  <2>3. ASSUME NEW v \in registered' PROVE Agrees(v)'
    <3>1. CASE v = w
      BY <3>1, <2>1 DEF Agrees, Kept, GateTyped
    <3>2. CASE v # w
      <4>1. Kept(v)' <=> Kept(v) BY <3>2, <2>1 DEF Kept
      <4>2. ManualPaused(v)' = ManualPaused(v) BY <3>2, <2>1, <2>3 DEF ManualPaused, GateTyped
      <4> QED BY <4>1, <4>2, <3>2, <2>1, <2>3, <1>1 DEF Agrees, GateTyped
    <3> QED BY <3>1, <3>2
  <2> QED BY <1>1, <2>2, <2>3, OwnershipMeaningNext
<1> QED BY <1>2, <1>3

\* So does its release, which leaves the worker paused.
LEMMA OwnershipRelease ==
  ASSUME GateTyped, GateTyped', PauseOwnership, NEW id, NEW request,
         MaintenanceRelease(id, request), UNCHANGED <<registered, holds>>
  PROVE  PauseOwnership'
<1>1. /\ \A h \in holds : h.worker \in registered
      /\ \A l \in locks : l.worker \in registered
      /\ \A v \in registered : Agrees(v)
  BY OwnershipMeaning
<1>2. CASE request \in receipts
  BY <1>2 DEF MaintenanceRelease, PauseOwnership, Holds, MaintenanceLocks, ManualPaused
<1>3. CASE request \notin receipts
  <2>1. PICK l \in locks :
          /\ locks' = locks \ {l}
          /\ manual' = [manual EXCEPT ![l.worker] = "paused"]
          /\ drained' = [drained EXCEPT ![l.worker] = TRUE]
    BY <1>3 DEF MaintenanceRelease
  <2>2. ASSUME NEW v \in registered' PROVE Agrees(v)'
    <3>1. CASE v = l.worker
      BY <3>1, <2>1 DEF Agrees, ManualPaused, GateTyped
    <3>2. CASE v # l.worker
      <4>1. Kept(v)' <=> Kept(v) BY <3>2, <2>1 DEF Kept
      <4>2. ManualPaused(v)' = ManualPaused(v) BY <3>2, <2>1, <2>2 DEF ManualPaused, GateTyped
      <4> QED BY <4>1, <4>2, <3>2, <2>1, <2>2, <1>1 DEF Agrees, GateTyped
    <3> QED BY <3>1, <3>2
  <2> QED BY <1>1, <2>1, <2>2, OwnershipMeaningNext
<1> QED BY <1>2, <1>3

\* So does a decision of the operator, or a readmission in its name (manualUpdate).
LEMMA OwnershipUpdate ==
  ASSUME GateTyped, GateTyped', PauseOwnership, NEW w \in Worker, NEW paused \in BOOLEAN,
         ManualUpdate(w, paused), UNCHANGED <<registered, holds, locks>>
  PROVE  PauseOwnership'
<1>1. /\ \A h \in holds : h.worker \in registered
      /\ \A l \in locks : l.worker \in registered
      /\ \A v \in registered : Agrees(v)
  BY OwnershipMeaning
<1>2. \A v : Kept(v)' <=> Kept(v) BY DEF Kept
<1>3. ASSUME NEW v \in registered' PROVE Agrees(v)'
  <2>1. CASE v = w
    BY <2>1, <1>2, KeptMeaning DEF Agrees, ManualUpdate, ManualPaused, GateTyped
  <2>2. CASE v # w
    <3>1. ManualPaused(v)' = ManualPaused(v) BY <2>2, <1>3 DEF ManualUpdate, ManualPaused, GateTyped
    <3> QED BY <3>1, <2>2, <1>1, <1>2, <1>3 DEF Agrees, ManualUpdate, GateTyped
  <2> QED BY <2>1, <2>2
<1> QED BY <1>1, <1>3, OwnershipMeaningNext

\* So does every request of the operator and the agents.
LEMMA OwnershipPauses ==
  ASSUME GateTyped, GateTyped', PauseOwnership, Forgotten, NEW up, PausesNext(up)
  PROVE  PauseOwnership'
<1>0. /\ \A h \in holds : h.worker \in registered
      /\ \A l \in locks : l.worker \in registered
      /\ \A v \in registered : Agrees(v)
  BY OwnershipMeaning
<1>1. ASSUME NEW w \in Worker, Drain(w) PROVE PauseOwnership'
  BY <1>1, OwnershipUpdate DEF Drain
<1>2. ASSUME NEW w \in Worker, Resume(w, w \in up) PROVE PauseOwnership'
  BY <1>2, OwnershipUpdate DEF Resume
<1>3. ASSUME NEW w \in Worker, AddWorker(w) PROVE PauseOwnership'
  <2>1. ~Kept(w) BY <1>0, <1>3 DEF Kept, AddWorker
  <2>2. \A v : Kept(v)' <=> Kept(v) BY <1>3 DEF AddWorker, Kept
  <2>3. ASSUME NEW v \in registered' PROVE Agrees(v)'
    <3>1. CASE v = w
      <4>1. drained'[w] /\ manual'[w] = manual[w] BY <1>3 DEF AddWorker, GateTyped
      <4>2. manual[w] = "unset" BY <1>3 DEF AddWorker, Forgotten
      <4> QED BY <3>1, <4>1, <4>2, <2>1, <2>2 DEF Agrees, ManualPaused
    <3>2. CASE v # w
      <4>1. v \in registered /\ v \in Worker BY <3>2, <1>3, <2>3 DEF AddWorker, GateTyped
      <4> QED BY <4>1, <3>2, <1>0, <1>3, <2>2 DEF AddWorker, Agrees, ManualPaused, GateTyped
    <3> QED BY <3>1, <3>2
  <2>4. /\ \A h \in holds' : h.worker \in registered'
        /\ \A l \in locks' : l.worker \in registered'
    BY <1>0, <1>3 DEF AddWorker
  <2> QED BY <2>3, <2>4, OwnershipMeaningNext
<1>4. ASSUME NEW w \in Worker, RemoveWorker(w) PROVE PauseOwnership'
  <2>1. ~Kept(w) BY <1>4, KeptMeaning DEF RemoveWorker
  <2>2. \A v : Kept(v)' <=> Kept(v) BY <1>4 DEF RemoveWorker, Kept
  <2>3. ASSUME NEW v \in registered' PROVE Agrees(v)'
    <3>1. v \in registered /\ v # w /\ v \in Worker BY <1>4, <2>3 DEF RemoveWorker, GateTyped
    <3> QED BY <3>1, <1>0, <1>4, <2>2 DEF RemoveWorker, Agrees, ManualPaused, GateTyped
  <2>4. (\A h \in holds : h.worker # w) /\ (\A l \in locks : l.worker # w) BY <2>1 DEF Kept
  <2>5. /\ \A h \in holds' : h.worker \in registered'
        /\ \A l \in locks' : l.worker \in registered'
    BY <1>0, <1>4, <2>4 DEF RemoveWorker
  <2> QED BY <2>3, <2>5, OwnershipMeaningNext
<1>5. ASSUME NEW w \in Worker, EditEndpoint(w) \/ Admit(w, w \in up) \/ FinishWork(w) PROVE PauseOwnership'
  BY <1>5 DEF EditEndpoint, Admit, FinishWork, PauseOwnership, Holds, MaintenanceLocks, ManualPaused
<1>6. ASSUME NEW w \in Worker, OperatorLock(w) PROVE PauseOwnership'
  BY <1>6, OwnershipLock DEF OperatorLock
<1>7. ASSUME NEW w \in Worker, AgentDrain(w) PROVE PauseOwnership'
  <2>1. /\ w \in registered /\ registered' = registered /\ locks' = locks
        /\ manual' = [manual EXCEPT ![w] = IF ManualPaused(w) THEN "paused" ELSE "open"]
        /\ drained' = [drained EXCEPT ![w] = TRUE]
        /\ holds' = holds \cup {[worker |-> w, id |-> events + 1]}
    BY <1>7 DEF AgentDrain
  <2>2. \A h \in holds' : h.worker \in registered'
    BY <1>0, <2>1
  <2>3. ASSUME NEW v \in registered' PROVE Agrees(v)'
    <3>1. CASE v = w
      BY <3>1, <2>1 DEF Agrees, Kept, GateTyped
    <3>2. CASE v # w
      <4>1. Kept(v)' <=> Kept(v) BY <3>2, <2>1 DEF Kept
      <4>2. ManualPaused(v)' = ManualPaused(v) BY <3>2, <2>1, <2>3 DEF ManualPaused, GateTyped
      <4> QED BY <4>1, <4>2, <3>2, <2>1, <2>3, <1>0 DEF Agrees, GateTyped
    <3> QED BY <3>1, <3>2
  <2> QED BY <1>0, <2>1, <2>2, <2>3, OwnershipMeaningNext
<1>8. ASSUME NEW l \in locks, OperatorRelease(l) PROVE PauseOwnership'
  BY <1>8, OwnershipRelease DEF OperatorRelease
<1>9. ASSUME NEW h \in holds, AgentResume(h, h.worker \in up) PROVE PauseOwnership'
  <2> DEFINE w == h.worker
             other == Holds(w) \ {h} # {} \/ ManualPaused(w) \/ MaintenanceLocks(w) # {}
  <2>1. /\ registered' = registered /\ locks' = locks /\ manual' = manual
        /\ drained' = [drained EXCEPT ![w] = other]
        /\ holds' = holds \ {h}
    BY <1>9 DEF AgentResume
  <2>2. w \in registered /\ w \in Worker /\ Agrees(w) /\ Kept(w) BY <1>0, <1>9 DEF GateTyped, Kept
  <2>3. drained[w] BY <2>2 DEF Agrees
  <2>4. Kept(w)' <=> (Holds(w) \ {h} # {} \/ MaintenanceLocks(w) # {})
    BY <2>1 DEF Kept, Holds, MaintenanceLocks
  <2>5. ASSUME NEW v \in registered' PROVE Agrees(v)'
    <3>1. CASE v = w
      <4>1. drained'[w] = other /\ manual'[w] = manual[w] BY <2>1, <2>2 DEF GateTyped
      <4>2. other <=> (Kept(w)' \/ ManualPaused(w)) BY <2>4
      <4>3. CASE manual[w] = "unset"
        <5>1. ManualPaused(w) BY <4>3, <2>3 DEF ManualPaused
        <5> QED BY <5>1, <4>1, <4>2, <4>3, <3>1 DEF Agrees, ManualPaused
      <4>4. CASE manual[w] # "unset"
        <5>1. ManualPaused(w)' = ManualPaused(w) BY <4>4, <4>1 DEF ManualPaused
        <5> QED BY <5>1, <4>1, <4>2, <3>1 DEF Agrees
      <4> QED BY <4>3, <4>4
    <3>2. CASE v # w
      <4>1. Kept(v)' <=> Kept(v) BY <3>2, <2>1 DEF Kept
      <4>2. ManualPaused(v)' = ManualPaused(v) BY <3>2, <2>1, <2>5 DEF ManualPaused, GateTyped
      <4> QED BY <4>1, <4>2, <3>2, <2>1, <2>5, <1>0 DEF Agrees, GateTyped
    <3> QED BY <3>1, <3>2
  <2> QED BY <1>0, <2>1, <2>5, OwnershipMeaningNext
<1>10. ASSUME NEW h \in holds, ClearHold(h) PROVE PauseOwnership'
  <2>1. /\ registered' = registered /\ locks' = locks /\ holds' = holds \ {h}
        /\ manual' = [manual EXCEPT ![h.worker] = "paused"]
        /\ drained' = [drained EXCEPT ![h.worker] = TRUE]
    BY <1>10 DEF ClearHold
  <2>2. ASSUME NEW v \in registered' PROVE Agrees(v)'
    <3>1. CASE v = h.worker
      BY <3>1, <2>1 DEF Agrees, ManualPaused, GateTyped
    <3>2. CASE v # h.worker
      <4>1. Kept(v)' <=> Kept(v) BY <3>2, <2>1 DEF Kept
      <4>2. ManualPaused(v)' = ManualPaused(v) BY <3>2, <2>1, <2>2 DEF ManualPaused, GateTyped
      <4> QED BY <4>1, <4>2, <3>2, <2>1, <2>2, <1>0 DEF Agrees, GateTyped
    <3> QED BY <3>1, <3>2
  <2> QED BY <1>0, <2>1, <2>2, OwnershipMeaningNext
<1>11. ASSUME (\E ws \in SUBSET Worker : Grant(ws)) \/ Revoke PROVE PauseOwnership'
  BY <1>11 DEF Grant, Revoke, PauseOwnership, Holds, MaintenanceLocks, ManualPaused
<1> QED BY <1>1, <1>2, <1>3, <1>4, <1>5, <1>6, <1>7, <1>8, <1>9, <1>10, <1>11 DEF PausesNext

\* Only a registered worker is written to.
LEMMA ForgottenPauses ==
  ASSUME GateTyped, PauseOwnership, Forgotten, NEW up, PausesNext(up)
  PROVE  Forgotten'
<1> USE DEF Forgotten
<1>1. ASSUME NEW w \in Worker, Drain(w) \/ Resume(w, w \in up) PROVE Forgotten'
  BY <1>1 DEF Drain, Resume, ManualUpdate, GateTyped
<1>2. ASSUME NEW w \in Worker, AddWorker(w) \/ RemoveWorker(w) PROVE Forgotten'
  BY <1>2 DEF AddWorker, RemoveWorker, GateTyped
<1>3. ASSUME NEW w \in Worker, EditEndpoint(w) \/ Admit(w, w \in up) \/ FinishWork(w) PROVE Forgotten'
  BY <1>3 DEF EditEndpoint, Admit, FinishWork
<1>4. ASSUME NEW w \in Worker, OperatorLock(w) \/ AgentDrain(w) PROVE Forgotten'
  BY <1>4 DEF OperatorLock, MaintenanceLock, LockAllowed, AgentDrain, GateTyped
<1>5. ASSUME NEW l \in locks, OperatorRelease(l) PROVE Forgotten'
  BY <1>5 DEF OperatorRelease, MaintenanceRelease, GateTyped, PauseOwnership
<1>6. ASSUME NEW h \in holds, AgentResume(h, h.worker \in up) \/ ClearHold(h) PROVE Forgotten'
  BY <1>6 DEF AgentResume, ClearHold, GateTyped, PauseOwnership
<1>7. ASSUME (\E ws \in SUBSET Worker : Grant(ws)) \/ Revoke PROVE Forgotten'
  BY <1>7 DEF Grant, Revoke
<1> QED BY <1>1, <1>2, <1>3, <1>4, <1>5, <1>6, <1>7 DEF PausesNext

-----------------------------------------------------------------------------
(* The requests of a job.                                                  *)

\* What one request of a job does to the gateway.
JobRequest(j) ==
  LET w == Target(j)
  IN \/ MaintenanceLock(j, w, Minimum(j), Up) /\ UNCHANGED head
     \/ MaintenanceRelease(j, ReleaseRequest(j)) /\ UNCHANGED head
     \/ /\ ConditionalResume(w, base[j].action, ReleaseRequest(j), Answers(w))
        /\ UNCHANGED <<locks, lastMaint, receipts>>

\* So does every request of a job.
LEMMA OwnershipRequest ==
  ASSUME GateTyped, GateTyped', PauseOwnership, Forgotten, NEW j \in Job,
         JobRequest(j), UNCHANGED gateRest
  PROVE  PauseOwnership' /\ Forgotten'
<1> USE MaintenanceAssumption
<1>0. registered' = registered /\ holds' = holds /\ Target(j) \in Worker
  BY DEF gateRest
<1>1. CASE MaintenanceLock(j, Target(j), Minimum(j), Up)
  <2>1. PauseOwnership' BY <1>0, <1>1, OwnershipLock
  <2>2. Forgotten' BY <1>0, <1>1 DEF MaintenanceLock, LockAllowed, Forgotten, GateTyped
  <2> QED BY <2>1, <2>2
<1>2. CASE MaintenanceRelease(j, ReleaseRequest(j))
  <2>1. PauseOwnership' BY <1>0, <1>2, OwnershipRelease
  <2>2. Forgotten' BY <1>0, <1>2 DEF MaintenanceRelease, Forgotten, GateTyped, PauseOwnership
  <2> QED BY <2>1, <2>2
<1>3. CASE /\ ConditionalResume(Target(j), base[j].action, ReleaseRequest(j), Answers(Target(j)))
           /\ UNCHANGED <<locks, lastMaint, receipts>>
  <2>1. PauseOwnership' BY <1>0, <1>3, OwnershipUpdate DEF ConditionalResume
  <2>2. Forgotten' BY <1>0, <1>3 DEF ConditionalResume, ResumeAllowed, ManualUpdate, Forgotten, GateTyped
  <2> QED BY <2>1, <2>2
<1> QED BY <1>1, <1>2, <1>3 DEF JobRequest

\* FloorKept for a worker: nothing that must leave another LLM serving locks it.
Spared(w) == \A l \in locks : l.worker = w => l.id = Operator \/ ~Minimum(l.id)

\* FloorKept is that some worker is spared.
LEMMA FloorMeaning ==
  FloorKept <=> (Cardinality(Worker) > 1 => \E w \in Worker : Spared(w))
BY DEF FloorKept, Spared, MaintenanceLocks

\* The same of the state after a step.
LEMMA FloorMeaningNext ==
  FloorKept' <=> (Cardinality(Worker) > 1 => \E w \in Worker : Spared(w)')
BY DEF FloorKept, Spared, MaintenanceLocks

\* A lock that must leave another LLM serving is given only while one serves: the
\* check and the drain are one step.
LEMMA FloorRequest ==
  ASSUME GateTyped, PauseOwnership, FloorKept, NEW j \in Job, JobRequest(j)
  PROVE  FloorKept'
<1> USE MaintenanceAssumption
<1>1. CASE locks' \subseteq locks
  BY <1>1, FloorMeaning, FloorMeaningNext DEF Spared
<1>2. CASE /\ LockAllowed(Target(j), Minimum(j), Up)
           /\ locks' = locks \cup {[worker |-> Target(j), id |-> j]}
  <2>1. CASE Minimum(j)
    <3>1. PICK v \in Available(Up) : v # Target(j)
      BY <1>2, <2>1 DEF LockAllowed
    <3>2. v \in registered /\ ~drained[v] /\ v \in Worker
      BY <3>1 DEF Available, GateTyped
    <3>3. ~Kept(v)
      BY <3>2, OwnershipMeaning DEF Agrees
    <3>4. Spared(v)'
      BY <1>2, <3>1, <3>3 DEF Kept, Spared
    <3> QED BY <3>2, <3>4, FloorMeaningNext
  <2>2. CASE ~Minimum(j)
    <3>1. ASSUME NEW w \in Worker, Spared(w) PROVE Spared(w)'
      BY <1>2, <2>2, <3>1 DEF Spared, Minimum
    <3> QED BY <3>1, FloorMeaning, FloorMeaningNext
  <2> QED BY <2>1, <2>2
<1> QED BY <1>1, <1>2 DEF JobRequest, MaintenanceLock, MaintenanceRelease

\* The operator's own lock is not one that must leave another LLM serving.
LEMMA FloorPauses ==
  ASSUME FloorKept, NEW up, PausesNext(up)
  PROVE  FloorKept'
<1>1. locks' \subseteq locks \/ \E w \in Worker : locks' = locks \cup {[worker |-> w, id |-> Operator]}
  BY DEF PausesNext, Drain, Resume, AddWorker, RemoveWorker, EditEndpoint, Admit, FinishWork, OperatorLock,
         AgentDrain, OperatorRelease, AgentResume, ClearHold, Grant, Revoke, MaintenanceLock, MaintenanceRelease,
         ManualUpdate
<1>2. ASSUME NEW w \in Worker, Spared(w) PROVE Spared(w)'
  BY <1>1, <1>2 DEF Spared, Minimum
<1> QED BY <1>2, FloorMeaning, FloorMeaningNext

-----------------------------------------------------------------------------
(* The process of a job.                                                   *)

\* The steps that are commands of the Docker daemon, and those that send a request.
LEMMA StepNames ==
  /\ DOMAIN Stops = {"stop-previous", "stop-candidate", "stop-llm", "stop-media"}
  /\ DOMAIN Starts = {"start-candidate", "start-previous", "start-media", "start-llm"}
  /\ DOMAIN Renames = {"retain-previous", "activate-name", "retain-candidate", "restore-name"}
  /\ DOMAIN Follows = CandidateSteps \cup OriginalSteps \cup {"stop-llm", "start-media", "stop-media", "start-llm"}
  /\ DOMAIN RequestAt = {"lock", "releasing", "resuming"}
<1>1. DOMAIN Stops = {"stop-previous", "stop-candidate", "stop-llm", "stop-media"} BY DEF Stops
<1>2. DOMAIN Starts = {"start-candidate", "start-previous", "start-media", "start-llm"} BY DEF Starts
<1>3. DOMAIN Renames = {"retain-previous", "activate-name", "retain-candidate", "restore-name"} BY DEF Renames
<1>4. DOMAIN Follows = DOMAIN Stops \cup DOMAIN Starts \cup DOMAIN Renames BY DEF Follows
<1>5. DOMAIN RequestAt = {"lock", "releasing", "resuming"} BY DEF RequestAt
<1> QED BY <1>1, <1>2, <1>3, <1>4, <1>5 DEF CandidateSteps, OriginalSteps

\* The command that follows an acknowledged one.
LEMMA Following ==
  /\ Follows["stop-previous"] = "retain-previous" /\ Follows["retain-previous"] = "activate-name"
  /\ Follows["activate-name"] = "start-candidate" /\ Follows["start-candidate"] = "await"
  /\ Follows["stop-candidate"] = "retain-candidate" /\ Follows["retain-candidate"] = "restore-name"
  /\ Follows["restore-name"] = "start-previous" /\ Follows["start-previous"] = "await"
  /\ Follows["stop-llm"] = "start-media" /\ Follows["start-media"] = "engine"
  /\ Follows["stop-media"] = "start-llm" /\ Follows["start-llm"] = "wait-llm"
BY StepNames DEF Follows, CandidateSteps, OriginalSteps

\* The steps of the window keep the folder and the step of the job in agreement.
LEMMA FolderWindow ==
  ASSUME Typed, NEW j \in Job, Folder(j), WindowStep(j)
  PROVE  StepOf(j)' /\ Folder(j)'
<1> USE MaintenanceAssumption
<1>0. /\ at = [p \in Job |-> at[p]] /\ disk = [p \in Job |-> disk[p]] /\ submitted \in [Job -> 0..1] /\ StepOf(j)
  BY DEF Typed, JobTyped, HostTyped
<1> USE <1>0 DEF Goto, Save, Raise, Handler, StepOf, Folder, HourglassFolder, MediaFolder, ServingFolder, IsServing,
      HourglassAt, MediaAt, ServingAt, Window, CandidateSteps, OriginalSteps, Returning, Restoring, Outside,
      Outcomes, Changed, Touched, hostVars
<1>1. CASE Baseline(j)
  BY <1>1 DEF Baseline
<1>2. CASE Lock(j)
  BY <1>2 DEF Lock
<1>3. CASE Held(j)
  BY <1>3 DEF Held
<1>4. CASE WaitIdle(j)
  BY <1>4 DEF WaitIdle
<1>5. CASE BeforeRelease(j)
  BY <1>5 DEF BeforeRelease
<1>6. CASE Release(j)
  BY <1>6 DEF Release
<1>7. CASE DecideResume(j)
  BY <1>7 DEF DecideResume
<1>8. CASE ResumeWorker(j)
  BY <1>8 DEF ResumeWorker
<1>9. CASE Unanswered(j)
  BY <1>9, StepNames DEF Unanswered, IntentAt
<1> QED BY <1>1, <1>2, <1>3, <1>4, <1>5, <1>6, <1>7, <1>8, <1>9 DEF WindowStep

\* Commands, failed observations and deaths keep the folder and the step of the job in agreement.
LEMMA FolderDocker ==
  ASSUME Typed, NEW j \in Job, Folder(j), DockerStep(j) \/ DockerUnanswered(j) \/ ObservationFails(j) \/ Die(j)
  PROVE  StepOf(j)' /\ Folder(j)'
<1> USE MaintenanceAssumption
<1>0. /\ at = [p \in Job |-> at[p]] /\ disk = [p \in Job |-> disk[p]] /\ submitted \in [Job -> 0..1] /\ StepOf(j)
  BY DEF Typed, JobTyped, HostTyped
<1> USE <1>0 DEF Goto, Save, Raise, Handler, StepOf, Folder, HourglassFolder, MediaFolder, ServingFolder, IsServing,
      HourglassAt, MediaAt, ServingAt, Window, CandidateSteps, OriginalSteps, Returning, Restoring, Outside,
      Outcomes, Changed, Touched, hostVars
<1>1. CASE DockerStep(j)
  BY <1>1, StepNames, Following DEF DockerStep
<1>2. CASE DockerUnanswered(j)
  BY <1>2, StepNames DEF DockerUnanswered
<1>3. CASE ObservationFails(j)
  BY <1>3, StepNames DEF ObservationFails
<1>4. CASE Die(j)
  BY <1>4 DEF Die
<1> QED BY <1>1, <1>2, <1>3, <1>4

\* The steps of a measurement keep the folder and the step of the job in agreement.
LEMMA FolderHourglass ==
  ASSUME Typed, NEW j \in Job, Folder(j), HourglassStep(j)
  PROVE  StepOf(j)' /\ Folder(j)'
<1> USE MaintenanceAssumption
<1>0. /\ at = [p \in Job |-> at[p]] /\ disk = [p \in Job |-> disk[p]] /\ submitted \in [Job -> 0..1] /\ StepOf(j)
  BY DEF Typed, JobTyped, HostTyped
<1> USE <1>0 DEF Goto, Save, Raise, Handler, StepOf, Folder, HourglassFolder, MediaFolder, ServingFolder, IsServing,
      HourglassAt, MediaAt, ServingAt, Window, CandidateSteps, OriginalSteps, Returning, Restoring, Outside,
      Outcomes, Changed, Touched, hostVars
<1>1. CASE BeginHourglass(j)
  BY <1>1 DEF BeginHourglass
<1>2. CASE Rerun(j)
  BY <1>2 DEF Rerun
<1>3. CASE Submit(j)
  BY <1>3 DEF Submit
<1>4. CASE SubmitUnanswered(j)
  BY <1>4 DEF SubmitUnanswered
<1>5. CASE ObserveMeasurement(j)
  BY <1>5 DEF ObserveMeasurement
<1>6. CASE Settle(j)
  BY <1>6 DEF Settle
<1>7. CASE Reconcile(j)
  BY <1>7 DEF Reconcile
<1> QED BY <1>1, <1>2, <1>3, <1>4, <1>5, <1>6, <1>7 DEF HourglassStep

\* The steps of a serving change keep the folder and the step of the job in agreement.
LEMMA FolderServing ==
  ASSUME Typed, NEW j \in Job, Folder(j), ServingStep(j)
  PROVE  StepOf(j)' /\ Folder(j)'
<1> USE MaintenanceAssumption
<1>0. /\ at = [p \in Job |-> at[p]] /\ disk = [p \in Job |-> disk[p]] /\ submitted \in [Job -> 0..1] /\ StepOf(j)
  BY DEF Typed, JobTyped, HostTyped
<1> USE <1>0 DEF Goto, Save, Raise, Handler, StepOf, Folder, HourglassFolder, MediaFolder, ServingFolder, IsServing,
      HourglassAt, MediaAt, ServingAt, Window, CandidateSteps, OriginalSteps, Returning, Restoring, Outside,
      Outcomes, Changed, Touched, hostVars
<1>1. CASE BeginServing(j)
  BY <1>1 DEF BeginServing
<1>2. CASE ObserveCache(j)
  BY <1>2 DEF ObserveCache
<1>3. CASE Create(j)
  BY <1>3 DEF Create
<1>4. CASE Cutover(j)
  BY <1>4 DEF Cutover
<1>5. CASE Await(j)
  BY <1>5 DEF Await, Fail, Which
<1>6. CASE Verdict(j)
  BY <1>6, SMTT(30) DEF Verdict, Fail, Which, Proof
<1>7. CASE Measure(j)
  BY <1>7 DEF Measure
<1>8. CASE Restore(j)
  BY <1>8 DEF Restore
<1>9. CASE Publish(j) \/ PublishUnconfirmed(j)
  BY <1>9 DEF Publish, PublishUnconfirmed
<1>10. CASE Finish(j)
  BY <1>10 DEF Finish
<1>11. CASE UnchangedReturn(j)
  BY <1>11 DEF UnchangedReturn
<1> QED BY <1>1, <1>2, <1>3, <1>4, <1>5, <1>6, <1>7, <1>8, <1>9, <1>10, <1>11 DEF ServingStep

\* The steps of a media cycle keep the folder and the step of the job in agreement.
LEMMA FolderMedia ==
  ASSUME Typed, NEW j \in Job, Folder(j), MediaStep(j)
  PROVE  StepOf(j)' /\ Folder(j)'
<1> USE MaintenanceAssumption
<1>0. /\ at = [p \in Job |-> at[p]] /\ disk = [p \in Job |-> disk[p]] /\ submitted \in [Job -> 0..1] /\ StepOf(j)
  BY DEF Typed, JobTyped, HostTyped
<1> USE <1>0 DEF Goto, Save, Raise, Handler, StepOf, Folder, HourglassFolder, MediaFolder, ServingFolder, IsServing,
      HourglassAt, MediaAt, ServingAt, Window, CandidateSteps, OriginalSteps, Returning, Restoring, Outside,
      Outcomes, Changed, Touched, hostVars, Local
<1>1. CASE BeginMedia(j)
  BY <1>1 DEF BeginMedia
<1>2. CASE Transition(j)
  BY <1>2 DEF Transition
<1>3. CASE EngineReady(j)
  BY <1>3 DEF EngineReady
<1>4. CASE DispatchMedia(j)
  BY <1>4 DEF DispatchMedia
<1>5. CASE DispatchUnanswered(j)
  BY <1>5 DEF DispatchUnanswered
<1>6. CASE ObserveMedia(j)
  BY <1>6 DEF ObserveMedia
<1>7. CASE Finally(j)
  BY <1>7 DEF Finally
<1>8. CASE WaitForMediaLlm(j)
  BY <1>8 DEF WaitForMediaLlm
<1>9. CASE ProveLlm(j)
  BY <1>9 DEF ProveLlm
<1> QED BY <1>1, <1>2, <1>3, <1>4, <1>5, <1>6, <1>7, <1>8, <1>9 DEF MediaStep

\* A step of a job's process changes the job's own part, and its folder only grows.
Shape(j) ==
  /\ at' = [at EXCEPT ![j] = at'[j]]
  /\ disk' = [disk EXCEPT ![j] = disk'[j]] /\ disk[j] \subseteq disk'[j]
  /\ submitted' = [submitted EXCEPT ![j] = submitted'[j]]
  /\ base' = [base EXCEPT ![j] = base'[j]]

\* The steps of the window change the job's own part only.
LEMMA ShapeWindow ==
  ASSUME Typed, NEW j \in Job, Folder(j), WindowStep(j)
  PROVE  Shape(j)
<1>0. /\ at = [p \in Job |-> at[p]] /\ disk = [p \in Job |-> disk[p]] /\ submitted \in [Job -> 0..1]
      /\ base = [p \in Job |-> base[p]]
  BY DEF Typed, JobTyped, HostTyped
<1> USE <1>0 DEF Shape, Goto, Save, Raise, Local, jobVars, hostVars
<1>1. CASE Baseline(j)
  BY <1>1 DEF Baseline
<1>2. CASE Lock(j)
  BY <1>2 DEF Lock
<1>3. CASE Held(j)
  BY <1>3 DEF Held
<1>4. CASE WaitIdle(j)
  BY <1>4 DEF WaitIdle, Idle
<1>5. CASE BeforeRelease(j)
  BY <1>5 DEF BeforeRelease
<1>6. CASE Release(j)
  BY <1>6 DEF Release
<1>7. CASE DecideResume(j)
  BY <1>7 DEF DecideResume
<1>8. CASE ResumeWorker(j)
  BY <1>8 DEF ResumeWorker
<1>9. CASE Unanswered(j)
  BY <1>9 DEF Unanswered, IntentAt
<1> QED BY <1>1, <1>2, <1>3, <1>4, <1>5, <1>6, <1>7, <1>8, <1>9 DEF WindowStep

\* Commands, failed observations and deaths change the job's own part only.
LEMMA ShapeDocker ==
  ASSUME Typed, NEW j \in Job, Folder(j), DockerStep(j) \/ DockerUnanswered(j) \/ ObservationFails(j) \/ Die(j)
  PROVE  Shape(j)
<1>0. /\ at = [p \in Job |-> at[p]] /\ disk = [p \in Job |-> disk[p]] /\ submitted \in [Job -> 0..1]
      /\ base = [p \in Job |-> base[p]]
  BY DEF Typed, JobTyped, HostTyped
<1> USE <1>0 DEF Shape, Goto, Save, Raise, Local, jobVars, hostVars
<1>1. CASE DockerStep(j)
  BY <1>1 DEF DockerStep
<1>2. CASE DockerUnanswered(j)
  BY <1>2 DEF DockerUnanswered
<1>3. CASE ObservationFails(j)
  BY <1>3 DEF ObservationFails
<1>4. CASE Die(j)
  BY <1>4 DEF Die
<1> QED BY <1>1, <1>2, <1>3, <1>4

\* The steps of a measurement change the job's own part only.
LEMMA ShapeHourglass ==
  ASSUME Typed, NEW j \in Job, Folder(j), HourglassStep(j)
  PROVE  Shape(j)
<1>0. /\ at = [p \in Job |-> at[p]] /\ disk = [p \in Job |-> disk[p]] /\ submitted \in [Job -> 0..1]
      /\ base = [p \in Job |-> base[p]]
  BY DEF Typed, JobTyped, HostTyped
<1> USE <1>0 DEF Shape, Goto, Save, Raise, Local, jobVars, hostVars
<1>1. CASE BeginHourglass(j)
  BY <1>1 DEF BeginHourglass
<1>2. CASE Rerun(j)
  BY <1>2 DEF Rerun
<1>3. CASE Submit(j)
  BY <1>3 DEF Submit
<1>4. CASE SubmitUnanswered(j)
  BY <1>4 DEF SubmitUnanswered
<1>5. CASE ObserveMeasurement(j)
  BY <1>5 DEF ObserveMeasurement
<1>6. CASE Settle(j)
  BY <1>6 DEF Settle, Idle
<1>7. CASE Reconcile(j)
  BY <1>7 DEF Reconcile
<1> QED BY <1>1, <1>2, <1>3, <1>4, <1>5, <1>6, <1>7 DEF HourglassStep

\* The steps of a serving change change the job's own part only.
LEMMA ShapeServing ==
  ASSUME Typed, NEW j \in Job, Folder(j), ServingStep(j)
  PROVE  Shape(j)
<1>0. /\ at = [p \in Job |-> at[p]] /\ disk = [p \in Job |-> disk[p]] /\ submitted \in [Job -> 0..1]
      /\ base = [p \in Job |-> base[p]]
  BY DEF Typed, JobTyped, HostTyped
<1> USE <1>0 DEF Shape, Goto, Save, Raise, Local, jobVars, hostVars
<1>1. CASE BeginServing(j)
  BY <1>1 DEF BeginServing
<1>2. CASE ObserveCache(j)
  BY <1>2 DEF ObserveCache
<1>3. CASE Create(j)
  BY <1>3 DEF Create
<1>4. CASE Cutover(j)
  BY <1>4 DEF Cutover, Idle
<1>5. CASE Await(j)
  BY <1>5 DEF Await, Fail
<1>6. CASE Verdict(j)
  BY <1>6, SMTT(30) DEF Verdict, Fail
<1>7. CASE Measure(j)
  BY <1>7 DEF Measure
<1>8. CASE Restore(j)
  BY <1>8 DEF Restore
<1>9. CASE Publish(j)
  BY <1>9 DEF Publish
<1>10. CASE PublishUnconfirmed(j)
  BY <1>10 DEF PublishUnconfirmed
<1>11. CASE Finish(j)
  BY <1>11 DEF Finish
<1>12. CASE UnchangedReturn(j)
  BY <1>12 DEF UnchangedReturn
<1> QED BY <1>1, <1>2, <1>3, <1>4, <1>5, <1>6, <1>7, <1>8, <1>9, <1>10, <1>11, <1>12 DEF ServingStep

\* The steps of a media cycle change the job's own part only.
LEMMA ShapeMedia ==
  ASSUME Typed, NEW j \in Job, Folder(j), MediaStep(j)
  PROVE  Shape(j)
<1>0. /\ at = [p \in Job |-> at[p]] /\ disk = [p \in Job |-> disk[p]] /\ submitted \in [Job -> 0..1]
      /\ base = [p \in Job |-> base[p]]
  BY DEF Typed, JobTyped, HostTyped
<1> USE <1>0 DEF Shape, Goto, Save, Raise, Local, jobVars, hostVars
<1>1. CASE BeginMedia(j)
  BY <1>1 DEF BeginMedia
<1>2. CASE Transition(j)
  BY <1>2 DEF Transition
<1>3. CASE EngineReady(j)
  BY <1>3 DEF EngineReady
<1>4. CASE DispatchMedia(j)
  BY <1>4 DEF DispatchMedia
<1>5. CASE DispatchUnanswered(j)
  BY <1>5 DEF DispatchUnanswered
<1>6. CASE ObserveMedia(j)
  BY <1>6 DEF ObserveMedia
<1>7. CASE Finally(j)
  BY <1>7 DEF Finally
<1>8. CASE WaitForMediaLlm(j)
  BY <1>8 DEF WaitForMediaLlm
<1>9. CASE ProveLlm(j)
  BY <1>9 DEF ProveLlm
<1> QED BY <1>1, <1>2, <1>3, <1>4, <1>5, <1>6, <1>7, <1>8, <1>9 DEF MediaStep

\* Where a process begins to work on its server, and where it returns one it changed.
Entry(j) ==
  /\ Working(j)' => Working(j) \/ (Owned(j) /\ UNCHANGED lockVars)
  /\ Touched(j)' => Touched(j) \/ Working(j)
  /\ at'[j] \in Returning => at[j] \in Returning \cup {"finish", "proof"} \/ ~Touched(j)

\* The steps of the window begin to work only where the job owns its window.
LEMMA EntryWindow ==
  ASSUME Typed, NEW j \in Job, Folder(j), WindowStep(j)
  PROVE  Entry(j)
<1>0. /\ at = [p \in Job |-> at[p]] /\ disk = [p \in Job |-> disk[p]] /\ StepOf(j)
  BY DEF Typed, JobTyped, HostTyped
<1> USE <1>0, MaintenanceAssumption, StepNames DEF Entry, Goto, Save, Raise, Handler, StepOf, Folder, HourglassFolder,
      MediaFolder, ServingFolder,
      IsServing, HourglassAt, MediaAt, ServingAt, Window, CandidateSteps, OriginalSteps, Returning, Restoring, Outside,
      Outcomes, Changed, Touched, Working, Local, gateVars, lockVars
<1>1. CASE Baseline(j)
  BY <1>1 DEF Baseline
<1>2. CASE Lock(j)
  BY <1>2 DEF Lock
<1>3. CASE Held(j)
  BY <1>3 DEF Held
<1>4. CASE WaitIdle(j)
  BY <1>4 DEF WaitIdle, Idle, OwnedIdle
<1>5. CASE BeforeRelease(j)
  BY <1>5 DEF BeforeRelease
<1>6. CASE Release(j)
  BY <1>6 DEF Release
<1>7. CASE DecideResume(j)
  BY <1>7 DEF DecideResume
<1>8. CASE ResumeWorker(j)
  BY <1>8 DEF ResumeWorker
<1>9. CASE Unanswered(j)
  BY <1>9 DEF Unanswered, IntentAt
<1> QED BY <1>1, <1>2, <1>3, <1>4, <1>5, <1>6, <1>7, <1>8, <1>9 DEF WindowStep

\* Commands, failed observations and deaths begin to work only where the job owns its window.
LEMMA EntryDocker ==
  ASSUME Typed, NEW j \in Job, Folder(j), DockerStep(j) \/ DockerUnanswered(j) \/ ObservationFails(j) \/ Die(j)
  PROVE  Entry(j)
<1>0. /\ at = [p \in Job |-> at[p]] /\ disk = [p \in Job |-> disk[p]] /\ StepOf(j)
  BY DEF Typed, JobTyped, HostTyped
<1> USE <1>0, MaintenanceAssumption, StepNames DEF Entry, Goto, Save, Raise, Handler, StepOf, Folder, HourglassFolder,
      MediaFolder, ServingFolder,
      IsServing, HourglassAt, MediaAt, ServingAt, Window, CandidateSteps, OriginalSteps, Returning, Restoring, Outside,
      Outcomes, Changed, Touched, Working, Local, gateVars, lockVars
<1>1. CASE DockerStep(j)
  BY <1>1, Following DEF DockerStep
<1>2. CASE DockerUnanswered(j)
  BY <1>2 DEF DockerUnanswered
<1>3. CASE ObservationFails(j)
  BY <1>3 DEF ObservationFails
<1>4. CASE Die(j)
  BY <1>4 DEF Die
<1> QED BY <1>1, <1>2, <1>3, <1>4

\* The steps of a measurement begin to work only where the job owns its window.
LEMMA EntryHourglass ==
  ASSUME Typed, NEW j \in Job, Folder(j), HourglassStep(j)
  PROVE  Entry(j)
<1>0. /\ at = [p \in Job |-> at[p]] /\ disk = [p \in Job |-> disk[p]] /\ StepOf(j)
  BY DEF Typed, JobTyped, HostTyped
<1> USE <1>0, MaintenanceAssumption, StepNames DEF Entry, Goto, Save, Raise, Handler, StepOf, Folder, HourglassFolder,
      MediaFolder, ServingFolder,
      IsServing, HourglassAt, MediaAt, ServingAt, Window, CandidateSteps, OriginalSteps, Returning, Restoring, Outside,
      Outcomes, Changed, Touched, Working, Local, gateVars, lockVars
<1>1. CASE BeginHourglass(j)
  BY <1>1 DEF BeginHourglass
<1>2. CASE Rerun(j)
  BY <1>2 DEF Rerun
<1>3. CASE Submit(j)
  BY <1>3 DEF Submit
<1>4. CASE SubmitUnanswered(j)
  BY <1>4 DEF SubmitUnanswered
<1>5. CASE ObserveMeasurement(j)
  BY <1>5 DEF ObserveMeasurement
<1>6. CASE Settle(j)
  BY <1>6 DEF Settle, Idle, OwnedIdle
<1>7. CASE Reconcile(j)
  BY <1>7 DEF Reconcile
<1> QED BY <1>1, <1>2, <1>3, <1>4, <1>5, <1>6, <1>7 DEF HourglassStep

\* The steps of a serving change begin to work only where the job owns its window.
LEMMA EntryServing ==
  ASSUME Typed, NEW j \in Job, Folder(j), ServingStep(j)
  PROVE  Entry(j)
<1>0. /\ at = [p \in Job |-> at[p]] /\ disk = [p \in Job |-> disk[p]] /\ StepOf(j)
  BY DEF Typed, JobTyped, HostTyped
<1> USE <1>0, MaintenanceAssumption, StepNames DEF Entry, Goto, Save, Raise, Handler, StepOf, Folder, HourglassFolder,
      MediaFolder, ServingFolder,
      IsServing, HourglassAt, MediaAt, ServingAt, Window, CandidateSteps, OriginalSteps, Returning, Restoring, Outside,
      Outcomes, Changed, Touched, Working, Local, gateVars, lockVars
<1>1. CASE BeginServing(j)
  BY <1>1 DEF BeginServing
<1>2. CASE ObserveCache(j)
  BY <1>2 DEF ObserveCache
<1>3. CASE Create(j)
  BY <1>3 DEF Create
<1>4. CASE Cutover(j)
  BY <1>4 DEF Cutover, Idle, OwnedIdle
<1>5. CASE Await(j)
  BY <1>5 DEF Await, Fail, Which
<1>6. CASE Verdict(j)
  BY <1>6, SMTT(30) DEF Verdict, Fail, Which, Proof
<1>7. CASE Measure(j)
  BY <1>7 DEF Measure
<1>8. CASE Restore(j)
  BY <1>8 DEF Restore
<1>9. CASE Publish(j)
  BY <1>9 DEF Publish
<1>10. CASE PublishUnconfirmed(j)
  BY <1>10 DEF PublishUnconfirmed
<1>11. CASE Finish(j)
  BY <1>11 DEF Finish
<1>12. CASE UnchangedReturn(j)
  BY <1>12 DEF UnchangedReturn
<1> QED BY <1>1, <1>2, <1>3, <1>4, <1>5, <1>6, <1>7, <1>8, <1>9, <1>10, <1>11, <1>12 DEF ServingStep

\* The steps of a media cycle begin to work only where the job owns its window.
LEMMA EntryMedia ==
  ASSUME Typed, NEW j \in Job, Folder(j), MediaStep(j)
  PROVE  Entry(j)
<1>0. /\ at = [p \in Job |-> at[p]] /\ disk = [p \in Job |-> disk[p]] /\ StepOf(j)
  BY DEF Typed, JobTyped, HostTyped
<1> USE <1>0, MaintenanceAssumption, StepNames DEF Entry, Goto, Save, Raise, Handler, StepOf, Folder, HourglassFolder,
      MediaFolder, ServingFolder,
      IsServing, HourglassAt, MediaAt, ServingAt, Window, CandidateSteps, OriginalSteps, Returning, Restoring, Outside,
      Outcomes, Changed, Touched, Working, Local, gateVars, lockVars
<1>1. CASE BeginMedia(j)
  BY <1>1 DEF BeginMedia
<1>2. CASE Transition(j)
  BY <1>2 DEF Transition, OwnedIdle
<1>3. CASE EngineReady(j)
  BY <1>3 DEF EngineReady
<1>4. CASE DispatchMedia(j)
  BY <1>4 DEF DispatchMedia
<1>5. CASE DispatchUnanswered(j)
  BY <1>5 DEF DispatchUnanswered
<1>6. CASE ObserveMedia(j)
  BY <1>6 DEF ObserveMedia
<1>7. CASE Finally(j)
  BY <1>7 DEF Finally, OwnedIdle
<1>8. CASE WaitForMediaLlm(j)
  BY <1>8 DEF WaitForMediaLlm
<1>9. CASE ProveLlm(j)
  BY <1>9 DEF ProveLlm
<1> QED BY <1>1, <1>2, <1>3, <1>4, <1>5, <1>6, <1>7, <1>8, <1>9 DEF MediaStep

\* Requests whose caller gave up, and the way into the last steps of a return.
Giving(j) ==
  /\ \A i \in Job, r \in {"release", "resume"} : <<i, r>> \in late' /\ <<i, r>> \notin late =>
       /\ i = j /\ at[j] = (IF r = "release" THEN "releasing" ELSE "resuming")
       /\ at'[j] = "ended" /\ "release-intent" \in disk'[j] \cup disk[j] /\ UNCHANGED <<lockVars, head>>
  /\ at'[j] \in {"resume", "resuming"} => at[j] \notin Outside
  /\ "release-intent" \in disk'[j] => "release-intent" \in disk[j] \/ at[j] = "releasing"

\* The steps of the window give up only the request they send.
LEMMA GivingWindow ==
  ASSUME Typed, NEW j \in Job, Folder(j), WindowStep(j)
  PROVE  Giving(j)
<1>0. /\ at = [p \in Job |-> at[p]] /\ disk = [p \in Job |-> disk[p]] /\ StepOf(j)
  BY DEF Typed, JobTyped, HostTyped
<1> USE <1>0, MaintenanceAssumption, StepNames DEF Giving, Goto, Save, Raise, Handler, StepOf, Folder,
      IsServing, HourglassAt, MediaAt, ServingAt, Window, CandidateSteps, OriginalSteps, Returning, Restoring, Outside,
      Local, jobVars, gateVars
<1>1. CASE Baseline(j)
  BY <1>1 DEF Baseline
<1>2. CASE Lock(j)
  BY <1>2 DEF Lock
<1>3. CASE Held(j)
  BY <1>3 DEF Held
<1>4. CASE WaitIdle(j)
  BY <1>4 DEF WaitIdle
<1>5. CASE BeforeRelease(j)
  BY <1>5 DEF BeforeRelease
<1>6. CASE Release(j)
  BY <1>6 DEF Release
<1>7. CASE DecideResume(j)
  BY <1>7 DEF DecideResume
<1>8. CASE ResumeWorker(j)
  BY <1>8 DEF ResumeWorker
<1>9. CASE Unanswered(j)
  BY <1>9 DEF Unanswered, IntentAt, RequestAt
<1> QED BY <1>1, <1>2, <1>3, <1>4, <1>5, <1>6, <1>7, <1>8, <1>9 DEF WindowStep

\* Commands, failed observations and deaths give up only the request they send.
LEMMA GivingDocker ==
  ASSUME Typed, NEW j \in Job, Folder(j), DockerStep(j) \/ DockerUnanswered(j) \/ ObservationFails(j) \/ Die(j)
  PROVE  Giving(j)
<1>0. /\ at = [p \in Job |-> at[p]] /\ disk = [p \in Job |-> disk[p]] /\ StepOf(j)
  BY DEF Typed, JobTyped, HostTyped
<1> USE <1>0, MaintenanceAssumption, StepNames DEF Giving, Goto, Save, Raise, Handler, StepOf, Folder,
      IsServing, HourglassAt, MediaAt, ServingAt, Window, CandidateSteps, OriginalSteps, Returning, Restoring, Outside,
      Local, jobVars, gateVars
<1>1. CASE DockerStep(j)
  BY <1>1, Following DEF DockerStep
<1>2. CASE DockerUnanswered(j)
  BY <1>2 DEF DockerUnanswered
<1>3. CASE ObservationFails(j)
  BY <1>3 DEF ObservationFails
<1>4. CASE Die(j)
  BY <1>4 DEF Die
<1> QED BY <1>1, <1>2, <1>3, <1>4

\* The steps of a measurement give up only the request they send.
LEMMA GivingHourglass ==
  ASSUME Typed, NEW j \in Job, Folder(j), HourglassStep(j)
  PROVE  Giving(j)
<1>0. /\ at = [p \in Job |-> at[p]] /\ disk = [p \in Job |-> disk[p]] /\ StepOf(j)
  BY DEF Typed, JobTyped, HostTyped
<1> USE <1>0, MaintenanceAssumption, StepNames DEF Giving, Goto, Save, Raise, Handler, StepOf, Folder,
      IsServing, HourglassAt, MediaAt, ServingAt, Window, CandidateSteps, OriginalSteps, Returning, Restoring, Outside,
      Local, jobVars, gateVars
<1>1. CASE BeginHourglass(j)
  BY <1>1 DEF BeginHourglass
<1>2. CASE Rerun(j)
  BY <1>2 DEF Rerun
<1>3. CASE Submit(j)
  BY <1>3 DEF Submit
<1>4. CASE SubmitUnanswered(j)
  BY <1>4 DEF SubmitUnanswered
<1>5. CASE ObserveMeasurement(j)
  BY <1>5 DEF ObserveMeasurement
<1>6. CASE Settle(j)
  BY <1>6 DEF Settle
<1>7. CASE Reconcile(j)
  BY <1>7 DEF Reconcile
<1> QED BY <1>1, <1>2, <1>3, <1>4, <1>5, <1>6, <1>7 DEF HourglassStep

\* The verdict of the qualification sends no request.
LEMMA GivingVerdict ==
  ASSUME Typed, NEW j \in Job, Folder(j), Verdict(j)
  PROVE  Giving(j)
<1>1. Handler(j) \notin {"resume", "resuming"}
  BY MaintenanceAssumption DEF Handler
<1>2. late' = late
  BY DEF Verdict
<1>3. /\ at' = [at EXCEPT ![j] = at'[j]] /\ at'[j] \in {"restore", "measure", "publish", Handler(j)}
      /\ \E files \in SUBSET {"passed-cand", "passed-prev", "failed-cand", "failed-prev"} :
           disk' = [disk EXCEPT ![j] = @ \cup files]
  <2> USE DEF Goto, Save, Raise, Typed, JobTyped
  <2>1. CASE Fail(j, {})
    <3>1. \E files \in {{"failed-cand"}, {"failed-prev"}} : Save(j, files) /\ (Goto(j, "restore") \/ Goto(j, Handler(j)))
      BY <2>1 DEF Fail
    <3> QED BY <3>1
  <2>2. CASE Save(j, {Proof(Which(j))}) /\ (Goto(j, "measure") \/ Goto(j, "publish"))
    <3>1. Proof(Which(j)) \in {"passed-cand", "passed-prev"} BY DEF Proof
    <3> QED BY <2>2, <3>1
  <2>3. CASE Raise(j, {})
    BY <2>3
  <2>4. Fail(j, {}) \/ (Save(j, {Proof(Which(j))}) /\ (Goto(j, "measure") \/ Goto(j, "publish"))) \/ Raise(j, {})
    BY DEF Verdict
  <2> QED BY <2>1, <2>2, <2>3, <2>4
<1> QED BY <1>1, <1>2, <1>3 DEF Giving, Typed, JobTyped

\* The steps of a serving change give up only the request they send.
LEMMA GivingServing ==
  ASSUME Typed, NEW j \in Job, Folder(j), ServingStep(j)
  PROVE  Giving(j)
<1>0. /\ at = [p \in Job |-> at[p]] /\ disk = [p \in Job |-> disk[p]] /\ StepOf(j)
  BY DEF Typed, JobTyped, HostTyped
<1> USE <1>0, MaintenanceAssumption, StepNames DEF Giving, Goto, Save, Raise, Handler, StepOf, Folder,
      IsServing, HourglassAt, MediaAt, ServingAt, Window, CandidateSteps, OriginalSteps, Returning, Restoring, Outside,
      Local, jobVars, gateVars
<1>1. CASE BeginServing(j)
  BY <1>1 DEF BeginServing
<1>2. CASE ObserveCache(j)
  BY <1>2 DEF ObserveCache
<1>3. CASE Create(j)
  BY <1>3 DEF Create
<1>4. CASE Cutover(j)
  BY <1>4 DEF Cutover
<1>5. CASE Await(j)
  BY <1>5 DEF Await, Fail, Which
<1>6. CASE Verdict(j)
  BY <1>6, GivingVerdict
<1>7. CASE Measure(j)
  BY <1>7 DEF Measure
<1>8. CASE Restore(j)
  BY <1>8 DEF Restore
<1>9. CASE Publish(j)
  BY <1>9 DEF Publish
<1>10. CASE PublishUnconfirmed(j)
  BY <1>10 DEF PublishUnconfirmed
<1>11. CASE Finish(j)
  BY <1>11 DEF Finish
<1>12. CASE UnchangedReturn(j)
  BY <1>12 DEF UnchangedReturn
<1> QED BY <1>1, <1>2, <1>3, <1>4, <1>5, <1>6, <1>7, <1>8, <1>9, <1>10, <1>11, <1>12 DEF ServingStep

\* The steps of a media cycle give up only the request they send.
LEMMA GivingMedia ==
  ASSUME Typed, NEW j \in Job, Folder(j), MediaStep(j)
  PROVE  Giving(j)
<1>0. /\ at = [p \in Job |-> at[p]] /\ disk = [p \in Job |-> disk[p]] /\ StepOf(j)
  BY DEF Typed, JobTyped, HostTyped
<1> USE <1>0, MaintenanceAssumption, StepNames DEF Giving, Goto, Save, Raise, Handler, StepOf, Folder,
      IsServing, HourglassAt, MediaAt, ServingAt, Window, CandidateSteps, OriginalSteps, Returning, Restoring, Outside,
      Local, jobVars, gateVars
<1>1. CASE BeginMedia(j)
  BY <1>1 DEF BeginMedia
<1>2. CASE Transition(j)
  BY <1>2 DEF Transition
<1>3. CASE EngineReady(j)
  BY <1>3 DEF EngineReady
<1>4. CASE DispatchMedia(j)
  BY <1>4 DEF DispatchMedia
<1>5. CASE DispatchUnanswered(j)
  BY <1>5 DEF DispatchUnanswered
<1>6. CASE ObserveMedia(j)
  BY <1>6 DEF ObserveMedia
<1>7. CASE Finally(j)
  BY <1>7 DEF Finally
<1>8. CASE WaitForMediaLlm(j)
  BY <1>8 DEF WaitForMediaLlm
<1>9. CASE ProveLlm(j)
  BY <1>9 DEF ProveLlm
<1> QED BY <1>1, <1>2, <1>3, <1>4, <1>5, <1>6, <1>7, <1>8, <1>9 DEF MediaStep

\* What a step of a job's process does to the gateway.
Event1 == events' = events \/ Event
Gate(j) ==
  LET w == Target(j)
  IN /\ UNCHANGED gateRest /\ Event1
     /\ \/ UNCHANGED <<lockVars, head>>
        \/ /\ at[j] = "lock" /\ MaintenanceLock(j, w, Minimum(j), Up) /\ UNCHANGED head
        \/ /\ at[j] = "releasing" /\ MaintenanceRelease(j, ReleaseRequest(j)) /\ UNCHANGED head
        \/ /\ at[j] = "resuming" /\ at'[j] = "ended"
           /\ ConditionalResume(w, base[j].action, ReleaseRequest(j), Answers(w))
           /\ UNCHANGED <<locks, lastMaint, receipts>>
     /\ \/ base'[j] = base[j]
        \/ /\ base'[j] = [action |-> head[w], paused |-> ManualPaused(w), pauses |-> pauses[w]]
           /\ UNCHANGED gateVars

\* The steps of the window change the gateway by one request only.
LEMMA GateWindow ==
  ASSUME Typed, NEW j \in Job, Folder(j), WindowStep(j)
  PROVE  Gate(j)
<1>0. /\ at = [p \in Job |-> at[p]] /\ base = [p \in Job |-> base[p]]
  BY DEF Typed, JobTyped, HostTyped
<1> USE <1>0 DEF Gate, Event1, Event, Goto, Save, Raise, Local, gateVars, jobVars
<1>1. CASE Baseline(j)
  BY <1>1 DEF Baseline
<1>2. CASE Lock(j)
  BY <1>2 DEF Lock
<1>3. CASE Held(j)
  BY <1>3 DEF Held
<1>4. CASE WaitIdle(j)
  BY <1>4 DEF WaitIdle
<1>5. CASE BeforeRelease(j)
  BY <1>5 DEF BeforeRelease
<1>6. CASE Release(j)
  BY <1>6 DEF Release
<1>7. CASE DecideResume(j)
  BY <1>7 DEF DecideResume
<1>8. CASE ResumeWorker(j)
  BY <1>8 DEF ResumeWorker, lockVars
<1>9. CASE Unanswered(j)
  BY <1>9 DEF Unanswered
<1> QED BY <1>1, <1>2, <1>3, <1>4, <1>5, <1>6, <1>7, <1>8, <1>9 DEF WindowStep

\* Commands, failed observations and deaths change the gateway by one request only.
LEMMA GateDocker ==
  ASSUME Typed, NEW j \in Job, Folder(j), DockerStep(j) \/ DockerUnanswered(j) \/ ObservationFails(j) \/ Die(j)
  PROVE  Gate(j)
<1>0. /\ at = [p \in Job |-> at[p]] /\ base = [p \in Job |-> base[p]]
  BY DEF Typed, JobTyped, HostTyped
<1> USE <1>0 DEF Gate, Event1, Event, Goto, Save, Raise, Local, gateVars, jobVars
<1>1. CASE DockerStep(j)
  BY <1>1 DEF DockerStep
<1>2. CASE DockerUnanswered(j)
  BY <1>2 DEF DockerUnanswered
<1>3. CASE ObservationFails(j)
  BY <1>3 DEF ObservationFails
<1>4. CASE Die(j)
  BY <1>4 DEF Die
<1> QED BY <1>1, <1>2, <1>3, <1>4

\* The steps of a measurement change the gateway by one request only.
LEMMA GateHourglass ==
  ASSUME Typed, NEW j \in Job, Folder(j), HourglassStep(j)
  PROVE  Gate(j)
<1>0. /\ at = [p \in Job |-> at[p]] /\ base = [p \in Job |-> base[p]]
  BY DEF Typed, JobTyped, HostTyped
<1> USE <1>0 DEF Gate, Event1, Event, Goto, Save, Raise, Local, gateVars, jobVars
<1>1. CASE BeginHourglass(j)
  BY <1>1 DEF BeginHourglass
<1>2. CASE Rerun(j)
  BY <1>2 DEF Rerun
<1>3. CASE Submit(j)
  BY <1>3 DEF Submit
<1>4. CASE SubmitUnanswered(j)
  BY <1>4 DEF SubmitUnanswered
<1>5. CASE ObserveMeasurement(j)
  BY <1>5 DEF ObserveMeasurement
<1>6. CASE Settle(j)
  BY <1>6 DEF Settle
<1>7. CASE Reconcile(j)
  BY <1>7 DEF Reconcile
<1> QED BY <1>1, <1>2, <1>3, <1>4, <1>5, <1>6, <1>7 DEF HourglassStep

\* The steps of a serving change change the gateway by one request only.
LEMMA GateServing ==
  ASSUME Typed, NEW j \in Job, Folder(j), ServingStep(j)
  PROVE  Gate(j)
<1>0. /\ at = [p \in Job |-> at[p]] /\ base = [p \in Job |-> base[p]]
  BY DEF Typed, JobTyped, HostTyped
<1> USE <1>0 DEF Gate, Event1, Event, Goto, Save, Raise, Local, gateVars, jobVars
<1>1. CASE BeginServing(j)
  BY <1>1 DEF BeginServing
<1>2. CASE ObserveCache(j)
  BY <1>2 DEF ObserveCache
<1>3. CASE Create(j)
  BY <1>3 DEF Create
<1>4. CASE Cutover(j)
  BY <1>4 DEF Cutover
<1>5. CASE Await(j)
  BY <1>5 DEF Await, Fail
<1>6. CASE Verdict(j)
  BY <1>6, SMTT(30) DEF Verdict, Fail
<1>7. CASE Measure(j)
  BY <1>7 DEF Measure
<1>8. CASE Restore(j)
  BY <1>8 DEF Restore
<1>9. CASE Publish(j)
  BY <1>9 DEF Publish
<1>10. CASE PublishUnconfirmed(j)
  BY <1>10 DEF PublishUnconfirmed
<1>11. CASE Finish(j)
  BY <1>11 DEF Finish
<1>12. CASE UnchangedReturn(j)
  BY <1>12 DEF UnchangedReturn
<1> QED BY <1>1, <1>2, <1>3, <1>4, <1>5, <1>6, <1>7, <1>8, <1>9, <1>10, <1>11, <1>12 DEF ServingStep

\* The steps of a media cycle change the gateway by one request only.
LEMMA GateMedia ==
  ASSUME Typed, NEW j \in Job, Folder(j), MediaStep(j)
  PROVE  Gate(j)
<1>0. /\ at = [p \in Job |-> at[p]] /\ base = [p \in Job |-> base[p]]
  BY DEF Typed, JobTyped, HostTyped
<1> USE <1>0 DEF Gate, Event1, Event, Goto, Save, Raise, Local, gateVars, jobVars
<1>1. CASE BeginMedia(j)
  BY <1>1 DEF BeginMedia
<1>2. CASE Transition(j)
  BY <1>2 DEF Transition
<1>3. CASE EngineReady(j)
  BY <1>3 DEF EngineReady
<1>4. CASE DispatchMedia(j)
  BY <1>4 DEF DispatchMedia
<1>5. CASE DispatchUnanswered(j)
  BY <1>5 DEF DispatchUnanswered
<1>6. CASE ObserveMedia(j)
  BY <1>6 DEF ObserveMedia
<1>7. CASE Finally(j)
  BY <1>7 DEF Finally
<1>8. CASE WaitForMediaLlm(j)
  BY <1>8 DEF WaitForMediaLlm
<1>9. CASE ProveLlm(j)
  BY <1>9 DEF ProveLlm
<1> QED BY <1>1, <1>2, <1>3, <1>4, <1>5, <1>6, <1>7, <1>8, <1>9 DEF MediaStep

\* What a step of a job's process does to the host.
Effects(j) ==
  LET w == Target(j)
  IN /\ \A v \in Worker \ {w} : name'[v] = name[v] /\ verified'[v] = verified[v] /\ record'[v] = record[v]
     /\ name'[w] # name[w] => Working(j) /\ IsServing(j) /\ Touched(j)' /\ at'[j] \notin Returning \cup {"publish", "finish"}
     /\ ~(verified[w] \subseteq verified'[w]) =>
          Working(j) /\ Touched(j)' /\ at'[j] \notin Returning \cup {"publish", "finish"}
     /\ record'[w] # record[w] => at[j] = "publish" /\ at'[j] \notin Returning
     /\ at[j] = "finish" /\ at'[j] \in Returning => QualifiedCurrent(j) /\ UNCHANGED <<name, verified, record>>
     /\ at[j] = "proof" /\ at'[j] \in Returning => name'[w] \in verified'[w]
Promises(j) ==
  LET w == Target(j)
  IN /\ at'[j] = "publish" => Which(j)' \in verified'[w]
     /\ at'[j] = "finish" => at[j] = "publish" /\ record'[w] = Which(j)' /\ Which(j)' = Which(j) /\ UNCHANGED verified

\* The steps of the window change the host as Effects says.
LEMMA EffectsWindow ==
  ASSUME Typed, NEW j \in Job, Folder(j), WindowStep(j)
  PROVE  Effects(j) /\ Promises(j)
<1>0. /\ at = [p \in Job |-> at[p]] /\ disk = [p \in Job |-> disk[p]] /\ StepOf(j)
      /\ name \in [Worker -> {"prev", "cand", "none"}] /\ record \in [Worker -> {"approved", "cand", "prev"}]
      /\ verified \in [Worker -> SUBSET {"prev", "cand", "media"}] /\ Target(j) \in Worker
  BY MaintenanceAssumption DEF Typed, JobTyped, HostTyped
<1> USE <1>0, MaintenanceAssumption, StepNames DEF Effects, Promises, Goto, Save, Raise, Handler, StepOf,
      Folder, MediaFolder, ServingFolder, HourglassFolder,
      IsServing, HourglassAt, MediaAt, ServingAt, Window, CandidateSteps, OriginalSteps, Returning, Restoring, Outside,
      Outcomes, Changed, Touched, Working, Which, Local, hostVars
<1>1. CASE Baseline(j)
  BY <1>1 DEF Baseline
<1>2. CASE Lock(j)
  BY <1>2 DEF Lock
<1>3. CASE Held(j)
  BY <1>3 DEF Held
<1>4. CASE WaitIdle(j)
  BY <1>4 DEF WaitIdle
<1>5. CASE BeforeRelease(j)
  BY <1>5 DEF BeforeRelease
<1>6. CASE Release(j)
  BY <1>6 DEF Release
<1>7. CASE DecideResume(j)
  BY <1>7 DEF DecideResume
<1>8. CASE ResumeWorker(j)
  BY <1>8 DEF ResumeWorker
<1>9. CASE Unanswered(j)
  BY <1>9 DEF Unanswered, IntentAt
<1> QED BY <1>1, <1>2, <1>3, <1>4, <1>5, <1>6, <1>7, <1>8, <1>9 DEF WindowStep

\* Commands, failed observations and deaths change the host as Effects says.
LEMMA EffectsDocker ==
  ASSUME Typed, NEW j \in Job, Folder(j), DockerStep(j) \/ DockerUnanswered(j) \/ ObservationFails(j) \/ Die(j)
  PROVE  Effects(j) /\ Promises(j)
<1>0. /\ at = [p \in Job |-> at[p]] /\ disk = [p \in Job |-> disk[p]] /\ StepOf(j)
      /\ name \in [Worker -> {"prev", "cand", "none"}] /\ record \in [Worker -> {"approved", "cand", "prev"}]
      /\ verified \in [Worker -> SUBSET {"prev", "cand", "media"}] /\ Target(j) \in Worker
  BY MaintenanceAssumption DEF Typed, JobTyped, HostTyped
<1> USE <1>0, MaintenanceAssumption, StepNames DEF Effects, Promises, Goto, Save, Raise, Handler, StepOf,
      Folder, MediaFolder, ServingFolder, HourglassFolder,
      IsServing, HourglassAt, MediaAt, ServingAt, Window, CandidateSteps, OriginalSteps, Returning, Restoring, Outside,
      Outcomes, Changed, Touched, Working, Which, Local, hostVars
<1>1. CASE DockerStep(j)
  BY <1>1, Following, SMTT(40) DEF DockerStep, Command
<1>2. CASE DockerUnanswered(j)
  BY <1>2 DEF DockerUnanswered, Command
<1>3. CASE ObservationFails(j)
  BY <1>3 DEF ObservationFails
<1>4. CASE Die(j)
  BY <1>4 DEF Die
<1> QED BY <1>1, <1>2, <1>3, <1>4

\* The steps of a measurement change the host as Effects says.
LEMMA EffectsHourglass ==
  ASSUME Typed, NEW j \in Job, Folder(j), HourglassStep(j)
  PROVE  Effects(j) /\ Promises(j)
<1>0. /\ at = [p \in Job |-> at[p]] /\ disk = [p \in Job |-> disk[p]] /\ StepOf(j)
      /\ name \in [Worker -> {"prev", "cand", "none"}] /\ record \in [Worker -> {"approved", "cand", "prev"}]
      /\ verified \in [Worker -> SUBSET {"prev", "cand", "media"}] /\ Target(j) \in Worker
  BY MaintenanceAssumption DEF Typed, JobTyped, HostTyped
<1> USE <1>0, MaintenanceAssumption, StepNames DEF Effects, Promises, Goto, Save, Raise, Handler, StepOf,
      Folder, MediaFolder, ServingFolder, HourglassFolder,
      IsServing, HourglassAt, MediaAt, ServingAt, Window, CandidateSteps, OriginalSteps, Returning, Restoring, Outside,
      Outcomes, Changed, Touched, Working, Which, Local, hostVars
<1>1. CASE BeginHourglass(j)
  BY <1>1 DEF BeginHourglass
<1>2. CASE Rerun(j)
  BY <1>2 DEF Rerun
<1>3. CASE Submit(j)
  BY <1>3 DEF Submit
<1>4. CASE SubmitUnanswered(j)
  BY <1>4 DEF SubmitUnanswered
<1>5. CASE ObserveMeasurement(j)
  BY <1>5 DEF ObserveMeasurement
<1>6. CASE Settle(j)
  BY <1>6 DEF Settle
<1>7. CASE Reconcile(j)
  BY <1>7 DEF Reconcile
<1> QED BY <1>1, <1>2, <1>3, <1>4, <1>5, <1>6, <1>7 DEF HourglassStep

\* The steps of a serving change change the host as Effects says.
LEMMA EffectsServing ==
  ASSUME Typed, NEW j \in Job, Folder(j), ServingStep(j)
  PROVE  Effects(j) /\ Promises(j)
<1>0. /\ at = [p \in Job |-> at[p]] /\ disk = [p \in Job |-> disk[p]] /\ StepOf(j)
      /\ name \in [Worker -> {"prev", "cand", "none"}] /\ record \in [Worker -> {"approved", "cand", "prev"}]
      /\ verified \in [Worker -> SUBSET {"prev", "cand", "media"}] /\ Target(j) \in Worker
  BY MaintenanceAssumption DEF Typed, JobTyped, HostTyped
<1> USE <1>0, MaintenanceAssumption, StepNames DEF Effects, Promises, Goto, Save, Raise, Handler, StepOf,
      Folder, MediaFolder, ServingFolder, HourglassFolder,
      IsServing, HourglassAt, MediaAt, ServingAt, Window, CandidateSteps, OriginalSteps, Returning, Restoring, Outside,
      Outcomes, Changed, Touched, Working, Which, Local, hostVars
<1>1. CASE BeginServing(j)
  BY <1>1 DEF BeginServing
<1>2. CASE ObserveCache(j)
  BY <1>2 DEF ObserveCache
<1>3. CASE Create(j)
  BY <1>3 DEF Create
<1>4. CASE Cutover(j)
  BY <1>4 DEF Cutover
<1>5. CASE Await(j)
  BY <1>5 DEF Await, Fail
<1>6. CASE Verdict(j)
  BY <1>6, SMTT(30) DEF Verdict, Fail, Proof
<1>7. CASE Measure(j)
  BY <1>7 DEF Measure
<1>8. CASE Restore(j)
  BY <1>8 DEF Restore
<1>9. CASE Publish(j)
  BY <1>9 DEF Publish
<1>10. CASE PublishUnconfirmed(j)
  BY <1>10 DEF PublishUnconfirmed
<1>11. CASE Finish(j)
  BY <1>11 DEF Finish
<1>12. CASE UnchangedReturn(j)
  BY <1>12 DEF UnchangedReturn
<1> QED BY <1>1, <1>2, <1>3, <1>4, <1>5, <1>6, <1>7, <1>8, <1>9, <1>10, <1>11, <1>12 DEF ServingStep

\* The steps of a media cycle change the host as Effects says.
LEMMA EffectsMedia ==
  ASSUME Typed, NEW j \in Job, Folder(j), MediaStep(j)
  PROVE  Effects(j) /\ Promises(j)
<1>0. /\ at = [p \in Job |-> at[p]] /\ disk = [p \in Job |-> disk[p]] /\ StepOf(j)
      /\ name \in [Worker -> {"prev", "cand", "none"}] /\ record \in [Worker -> {"approved", "cand", "prev"}]
      /\ verified \in [Worker -> SUBSET {"prev", "cand", "media"}] /\ Target(j) \in Worker
  BY MaintenanceAssumption DEF Typed, JobTyped, HostTyped
<1> USE <1>0, MaintenanceAssumption, StepNames DEF Effects, Promises, Goto, Save, Raise, Handler, StepOf,
      Folder, MediaFolder, ServingFolder, HourglassFolder,
      IsServing, HourglassAt, MediaAt, ServingAt, Window, CandidateSteps, OriginalSteps, Returning, Restoring, Outside,
      Outcomes, Changed, Touched, Working, Which, Local, hostVars
<1>1. CASE BeginMedia(j)
  BY <1>1 DEF BeginMedia
<1>2. CASE Transition(j)
  BY <1>2 DEF Transition
<1>3. CASE EngineReady(j)
  BY <1>3 DEF EngineReady
<1>4. CASE DispatchMedia(j)
  BY <1>4 DEF DispatchMedia
<1>5. CASE DispatchUnanswered(j)
  BY <1>5 DEF DispatchUnanswered
<1>6. CASE ObserveMedia(j)
  BY <1>6 DEF ObserveMedia
<1>7. CASE Finally(j)
  BY <1>7 DEF Finally
<1>8. CASE WaitForMediaLlm(j)
  BY <1>8 DEF WaitForMediaLlm
<1>9. CASE ProveLlm(j)
  BY <1>9 DEF ProveLlm
<1> QED BY <1>1, <1>2, <1>3, <1>4, <1>5, <1>6, <1>7, <1>8, <1>9 DEF MediaStep

\* The steps of the window keep the host's types.
LEMMA HostWindow ==
  ASSUME Typed, NEW j \in Job, Folder(j), WindowStep(j)
  PROVE  HostTyped'
<1>0. /\ HostTyped /\ StepOf(j) /\ Target(j) \in Worker
  BY MaintenanceAssumption DEF Typed, JobTyped
<1>a. /\ \A s \in DOMAIN Starts : Starts[s] \in {"prev", "cand", "media"}
      /\ \A s \in DOMAIN Renames : Renames[s] \in {"prev", "cand", "none"}
  BY StepNames DEF Starts, Renames
<1>b. Which(j) \in {"prev", "cand"}
  BY DEF Which
<1> USE <1>0, <1>a, <1>b, MaintenanceAssumption, StepNames DEF HostTyped, Folder, MediaFolder, ServingFolder,
      HourglassFolder, StepOf, ServingAt, MediaAt, HourglassAt,
      Window, CandidateSteps, OriginalSteps, Returning, Restoring, Outside, IsServing, Local, hostVars
<1>1. CASE Baseline(j)
  BY <1>1 DEF Baseline
<1>2. CASE Lock(j)
  BY <1>2 DEF Lock
<1>3. CASE Held(j)
  BY <1>3 DEF Held
<1>4. CASE WaitIdle(j)
  BY <1>4 DEF WaitIdle
<1>5. CASE BeforeRelease(j)
  BY <1>5 DEF BeforeRelease
<1>6. CASE Release(j)
  BY <1>6 DEF Release
<1>7. CASE DecideResume(j)
  BY <1>7 DEF DecideResume
<1>8. CASE ResumeWorker(j)
  BY <1>8 DEF ResumeWorker
<1>9. CASE Unanswered(j)
  BY <1>9 DEF Unanswered
<1> QED BY <1>1, <1>2, <1>3, <1>4, <1>5, <1>6, <1>7, <1>8, <1>9 DEF WindowStep

\* Commands, failed observations and deaths keep the host's types.
LEMMA HostDocker ==
  ASSUME Typed, NEW j \in Job, Folder(j), DockerStep(j) \/ DockerUnanswered(j) \/ ObservationFails(j) \/ Die(j)
  PROVE  HostTyped'
<1>0. /\ HostTyped /\ StepOf(j) /\ Target(j) \in Worker
  BY MaintenanceAssumption DEF Typed, JobTyped
<1>a. /\ \A s \in DOMAIN Starts : Starts[s] \in {"prev", "cand", "media"}
      /\ \A s \in DOMAIN Renames : Renames[s] \in {"prev", "cand", "none"}
  BY StepNames DEF Starts, Renames
<1>b. Which(j) \in {"prev", "cand"}
  BY DEF Which
<1> USE <1>0, <1>a, <1>b, MaintenanceAssumption, StepNames DEF HostTyped, Folder, MediaFolder, ServingFolder,
      HourglassFolder, StepOf, ServingAt, MediaAt, HourglassAt,
      Window, CandidateSteps, OriginalSteps, Returning, Restoring, Outside, IsServing, Local, hostVars
<1>1. CASE DockerStep(j)
  BY <1>1 DEF DockerStep, Command
<1>2. CASE DockerUnanswered(j)
  BY <1>2 DEF DockerUnanswered, Command
<1>3. CASE ObservationFails(j)
  BY <1>3 DEF ObservationFails
<1>4. CASE Die(j)
  BY <1>4 DEF Die
<1> QED BY <1>1, <1>2, <1>3, <1>4

\* The steps of a measurement keep the host's types.
LEMMA HostHourglass ==
  ASSUME Typed, NEW j \in Job, Folder(j), HourglassStep(j)
  PROVE  HostTyped'
<1>0. /\ HostTyped /\ StepOf(j) /\ Target(j) \in Worker
  BY MaintenanceAssumption DEF Typed, JobTyped
<1>a. /\ \A s \in DOMAIN Starts : Starts[s] \in {"prev", "cand", "media"}
      /\ \A s \in DOMAIN Renames : Renames[s] \in {"prev", "cand", "none"}
  BY StepNames DEF Starts, Renames
<1>b. Which(j) \in {"prev", "cand"}
  BY DEF Which
<1> USE <1>0, <1>a, <1>b, MaintenanceAssumption, StepNames DEF HostTyped, Folder, MediaFolder, ServingFolder,
      HourglassFolder, StepOf, ServingAt, MediaAt, HourglassAt,
      Window, CandidateSteps, OriginalSteps, Returning, Restoring, Outside, IsServing, Local, hostVars
<1>1. CASE BeginHourglass(j)
  BY <1>1 DEF BeginHourglass
<1>2. CASE Rerun(j)
  BY <1>2 DEF Rerun
<1>3. CASE Submit(j)
  BY <1>3 DEF Submit
<1>4. CASE SubmitUnanswered(j)
  BY <1>4 DEF SubmitUnanswered
<1>5. CASE ObserveMeasurement(j)
  BY <1>5 DEF ObserveMeasurement
<1>6. CASE Settle(j)
  BY <1>6 DEF Settle
<1>7. CASE Reconcile(j)
  BY <1>7 DEF Reconcile
<1> QED BY <1>1, <1>2, <1>3, <1>4, <1>5, <1>6, <1>7 DEF HourglassStep

\* The steps of a serving change keep the host's types.
LEMMA HostServing ==
  ASSUME Typed, NEW j \in Job, Folder(j), ServingStep(j)
  PROVE  HostTyped'
<1>0. /\ HostTyped /\ StepOf(j) /\ Target(j) \in Worker
  BY MaintenanceAssumption DEF Typed, JobTyped
<1>a. /\ \A s \in DOMAIN Starts : Starts[s] \in {"prev", "cand", "media"}
      /\ \A s \in DOMAIN Renames : Renames[s] \in {"prev", "cand", "none"}
  BY StepNames DEF Starts, Renames
<1>b. Which(j) \in {"prev", "cand"}
  BY DEF Which
<1> USE <1>0, <1>a, <1>b, MaintenanceAssumption, StepNames DEF HostTyped, Folder, MediaFolder, ServingFolder,
      HourglassFolder, StepOf, ServingAt, MediaAt, HourglassAt,
      Window, CandidateSteps, OriginalSteps, Returning, Restoring, Outside, IsServing, Local, hostVars
<1>1. CASE BeginServing(j)
  BY <1>1 DEF BeginServing
<1>2. CASE ObserveCache(j)
  BY <1>2 DEF ObserveCache
<1>3. CASE Create(j)
  BY <1>3 DEF Create
<1>4. CASE Cutover(j)
  BY <1>4 DEF Cutover
<1>5. CASE Await(j)
  BY <1>5 DEF Await
<1>6. CASE Verdict(j)
  BY <1>6 DEF Verdict
<1>7. CASE Measure(j)
  BY <1>7 DEF Measure
<1>8. CASE Restore(j)
  BY <1>8 DEF Restore
<1>9. CASE Publish(j)
  BY <1>9 DEF Publish
<1>10. CASE PublishUnconfirmed(j)
  BY <1>10 DEF PublishUnconfirmed
<1>11. CASE Finish(j)
  BY <1>11 DEF Finish
<1>12. CASE UnchangedReturn(j)
  BY <1>12 DEF UnchangedReturn
<1> QED BY <1>1, <1>2, <1>3, <1>4, <1>5, <1>6, <1>7, <1>8, <1>9, <1>10, <1>11, <1>12 DEF ServingStep

\* The steps of a media cycle keep the host's types.
LEMMA HostMedia ==
  ASSUME Typed, NEW j \in Job, Folder(j), MediaStep(j)
  PROVE  HostTyped'
<1>0. /\ HostTyped /\ StepOf(j) /\ Target(j) \in Worker
  BY MaintenanceAssumption DEF Typed, JobTyped
<1>a. /\ \A s \in DOMAIN Starts : Starts[s] \in {"prev", "cand", "media"}
      /\ \A s \in DOMAIN Renames : Renames[s] \in {"prev", "cand", "none"}
  BY StepNames DEF Starts, Renames
<1>b. Which(j) \in {"prev", "cand"}
  BY DEF Which
<1> USE <1>0, <1>a, <1>b, MaintenanceAssumption, StepNames DEF HostTyped, Folder, MediaFolder, ServingFolder,
      HourglassFolder, StepOf, ServingAt, MediaAt, HourglassAt,
      Window, CandidateSteps, OriginalSteps, Returning, Restoring, Outside, IsServing, Local, hostVars
<1>1. CASE BeginMedia(j)
  BY <1>1 DEF BeginMedia
<1>2. CASE Transition(j)
  BY <1>2 DEF Transition
<1>3. CASE EngineReady(j)
  BY <1>3 DEF EngineReady
<1>4. CASE DispatchMedia(j)
  BY <1>4 DEF DispatchMedia
<1>5. CASE DispatchUnanswered(j)
  BY <1>5 DEF DispatchUnanswered
<1>6. CASE ObserveMedia(j)
  BY <1>6 DEF ObserveMedia
<1>7. CASE Finally(j)
  BY <1>7 DEF Finally
<1>8. CASE WaitForMediaLlm(j)
  BY <1>8 DEF WaitForMediaLlm
<1>9. CASE ProveLlm(j)
  BY <1>9 DEF ProveLlm, Answers
<1> QED BY <1>1, <1>2, <1>3, <1>4, <1>5, <1>6, <1>7, <1>8, <1>9 DEF MediaStep

\* Every step of a process has all of these facts.
LEMMA StepFacts ==
  ASSUME Typed, NEW j \in Job, Folder(j), JobStep(j)
  PROVE  StepOf(j)' /\ Folder(j)' /\ HostTyped' /\ Shape(j) /\ Entry(j) /\ Giving(j) /\ Gate(j) /\ Effects(j) /\ Promises(j)
<1>1. CASE WindowStep(j)
  BY <1>1, FolderWindow, HostWindow, ShapeWindow, EntryWindow, GivingWindow, GateWindow, EffectsWindow
<1>2. CASE DockerStep(j) \/ DockerUnanswered(j) \/ ObservationFails(j) \/ Die(j)
  BY <1>2, FolderDocker, HostDocker, ShapeDocker, EntryDocker, GivingDocker, GateDocker, EffectsDocker
<1>3. CASE ServingStep(j)
  BY <1>3, FolderServing, HostServing, ShapeServing, EntryServing, GivingServing, GateServing, EffectsServing
<1>4. CASE HourglassStep(j)
  BY <1>4, FolderHourglass, HostHourglass, ShapeHourglass, EntryHourglass, GivingHourglass, GateHourglass, EffectsHourglass
<1>5. CASE MediaStep(j)
  BY <1>5, FolderMedia, HostMedia, ShapeMedia, EntryMedia, GivingMedia, GateMedia, EffectsMedia
<1> QED BY <1>1, <1>2, <1>3, <1>4, <1>5 DEF JobStep

-----------------------------------------------------------------------------
(* A step of a job's process, or the service of a request whose caller is  *)
(* gone.                                                                   *)

\* The request may be the one the process sends now, or one it gave up.
May(j, r) ==
  <<j, r>> \in late \/ at[j] = (CASE r = "lock" -> "lock" [] r = "release" -> "releasing" [] OTHER -> "resuming")
Asked(j) ==
  LET w == Target(j)
  IN \/ UNCHANGED <<lockVars, head>>
     \/ May(j, "lock") /\ MaintenanceLock(j, w, Minimum(j), Up) /\ UNCHANGED head
     \/ May(j, "release") /\ MaintenanceRelease(j, ReleaseRequest(j)) /\ UNCHANGED head
     \/ /\ May(j, "resume")
        /\ ConditionalResume(w, base[j].action, ReleaseRequest(j), Answers(w))
        /\ UNCHANGED <<locks, lastMaint, receipts>>
Looks(j) ==
  \/ base'[j] = base[j]
  \/ /\ base'[j] = [action |-> head[Target(j)], paused |-> ManualPaused(Target(j)), pauses |-> pauses[Target(j)]]
     /\ UNCHANGED gateVars

JobChange(j) ==
  /\ Shape(j) /\ StepOf(j)' /\ Folder(j)' /\ HostTyped' /\ Entry(j) /\ Giving(j) /\ Effects(j)
  /\ Promises(j) \/ UNCHANGED <<at, disk, hostVars>>
  /\ UNCHANGED gateRest /\ Event1 /\ Asked(j) /\ Looks(j)
  /\ \A r \in {"release", "resume"} : <<j, r>> \in late' => <<j, r>> \in late \/ UNCHANGED <<lockVars, head>>

\* A step of a process is such a change.
LEMMA ProcessChange ==
  ASSUME Typed, NEW j \in Job, Folder(j), JobStep(j)
  PROVE  JobChange(j)
<1>1. /\ Shape(j) /\ StepOf(j)' /\ Folder(j)' /\ HostTyped' /\ Entry(j) /\ Giving(j) /\ Effects(j)
      /\ Promises(j) /\ Gate(j)
  BY StepFacts
<1>2. Asked(j) /\ Looks(j) /\ UNCHANGED gateRest /\ Event1
  BY <1>1 DEF Gate, Asked, May, Looks
<1>3. \A r \in {"release", "resume"} : <<j, r>> \in late' => <<j, r>> \in late \/ UNCHANGED <<lockVars, head>>
  BY <1>1 DEF Giving
<1> QED BY <1>1, <1>2, <1>3 DEF JobChange

\* So is the service of a request whose caller is gone.
LEMMA LateChange ==
  ASSUME Typed, NEW j \in Job, Folder(j), NEW r, ServeLate(j, r)
  PROVE  JobChange(j) /\ late' = late \ {<<j, r>>} /\ UNCHANGED <<at, disk, base, hostVars>>
<1> USE MaintenanceAssumption
<1>1. /\ <<j, r>> \in late /\ late' = late \ {<<j, r>>}
      /\ UNCHANGED <<at, disk, base, hostVars>> /\ UNCHANGED gateRest /\ Event1
  BY DEF ServeLate, Event1
<1>2. Shape(j) /\ StepOf(j)' /\ Folder(j)' /\ HostTyped' /\ Looks(j)
  <2>1. Shape(j) BY <1>1 DEF Shape, Typed, JobTyped, HostTyped, hostVars
  <2>2. StepOf(j)' BY <1>1 DEF Typed, JobTyped, StepOf
  <2>3. Folder(j)'
    BY <1>1 DEF Folder, HourglassFolder, MediaFolder, ServingFolder, Touched, hostVars
  <2>4. HostTyped' BY <1>1 DEF Typed, HostTyped, hostVars
  <2> QED BY <2>1, <2>2, <2>3, <2>4, <1>1 DEF Looks
<1>3. Entry(j) /\ Giving(j) /\ Effects(j)
  BY <1>1 DEF Entry, Working, Touched, Giving, Returning, Outside, Effects, QualifiedCurrent, hostVars
<1>4. Asked(j)
  BY <1>1 DEF ServeLate, Asked, May
<1> QED BY <1>1, <1>2, <1>3, <1>4 DEF JobChange

\* The locks and heads a request of a job may change.
Locking(j) ==
  /\ receipts \subseteq receipts'
  /\ \A l \in locks' \ locks : l = LockOf(j) /\ <<j, "lock">> \notin receipts /\ <<j, "lock">> \in receipts'
  /\ \A l \in locks \ locks' : l.id = j /\ May(j, "release")
  /\ head' # head =>
       /\ May(j, "resume") /\ head[Target(j)] = base[j].action
       /\ head' = [head EXCEPT ![Target(j)] = ReleaseRequest(j)]

\* Every request of a job is such a change of locks and heads.
LEMMA LockingOf ==
  ASSUME NEW j \in Job, Asked(j)
  PROVE  Locking(j)
<1>1. CASE UNCHANGED <<lockVars, head>>
  BY <1>1 DEF Locking, lockVars
<1>2. CASE May(j, "lock") /\ MaintenanceLock(j, Target(j), Minimum(j), Up) /\ UNCHANGED head
  BY <1>2 DEF Locking, MaintenanceLock, LockOf
<1>3. CASE May(j, "release") /\ MaintenanceRelease(j, ReleaseRequest(j)) /\ UNCHANGED head
  BY <1>3 DEF Locking, MaintenanceRelease
<1>4. CASE /\ May(j, "resume")
           /\ ConditionalResume(Target(j), base[j].action, ReleaseRequest(j), Answers(Target(j)))
           /\ UNCHANGED <<locks, lastMaint, receipts>>
  BY <1>4 DEF Locking, ConditionalResume, ResumeAllowed
<1> QED BY <1>1, <1>2, <1>3, <1>4 DEF Asked

\* A release or a readmission is asked for only by a process that works no more.
LEMMA MayMeaning ==
  ASSUME Typed, Folders, Released, Looked, NEW j \in Job
  PROVE  /\ May(j, "release") => ~Working(j) /\ ~Pending(j)
         /\ May(j, "resume") => ~Working(j) /\ "release-intent" \in disk[j] /\ ~Used(j)
<1>1. May(j, "release") => <<j, "release">> \in late \/ at[j] = "releasing" BY DEF May
<1>2. May(j, "resume") => <<j, "resume">> \in late \/ at[j] = "resuming" BY DEF May
<1>3. at[j] \in Outside \cup {"releasing", "resuming"} => ~Working(j)
  BY StepNames DEF Outside, Working, CandidateSteps, OriginalSteps
<1>4. at[j] = "resuming" => "release-intent" \in disk[j] BY DEF Folders, Folder
<1>5. Used(j) => at[j] \in Outside /\ <<j, "resume">> \notin late BY DEF Looked
<1>6. <<j, "release">> \in late \/ <<j, "resume">> \in late => "release-intent" \in disk[j] /\ at[j] \in Outside
  BY DEF Released
<1>7. "resuming" \notin Outside BY DEF Outside
<1> QED BY <1>1, <1>2, <1>3, <1>4, <1>5, <1>6, <1>7 DEF Pending, Returning

\* A new lock comes with its receipt.
LEMMA LockReceiptsChange ==
  ASSUME LockReceipts, NEW j \in Job, Locking(j)
  PROVE  LockReceipts'
<1>1. ASSUME NEW l \in locks' PROVE <<l.id, "lock">> \in receipts' /\ (l.id \in Job => l.worker = Target(l.id))
  <2>1. CASE l \in locks
    BY <2>1 DEF LockReceipts, Locking
  <2>2. CASE l \notin locks
    <3>1. l = LockOf(j) /\ <<j, "lock">> \in receipts' BY <2>2 DEF Locking
    <3>2. l.id = j /\ l.worker = Target(j) BY <3>1 DEF LockOf
    <3> QED BY <3>1, <3>2
  <2> QED BY <2>1, <2>2
<1> QED BY <1>1 DEF LockReceipts

\* A job keeps its own lock while it works, and nobody else takes it away.
LEMMA HoldsLockChange ==
  ASSUME Typed, LockReceipts, HoldsLock, Folders, Released, Looked, NEW j \in Job, JobChange(j), Locking(j)
  PROVE  HoldsLock'
<1>1. overridden' = overridden BY DEF JobChange, gateRest
<1>2. at = [p \in Job |-> at[p]] /\ disk = [p \in Job |-> disk[p]] BY DEF Typed, JobTyped
<1>3. ASSUME NEW i \in Job, i # j
      PROVE  /\ Working(i)' \/ Touched(i)' => <<i, "lock">> \in receipts'
             /\ Working(i)' /\ ~overridden'[Target(i)] => LockOf(i) \in locks'
  <2>1. at'[i] = at[i] /\ disk'[i] = disk[i] BY <1>2, <1>3 DEF JobChange, Shape
  <2>2. (Working(i)' <=> Working(i)) /\ (Touched(i)' <=> Touched(i)) BY <2>1 DEF Working, Touched
  <2>3. LockOf(i) \in locks => LockOf(i) \in locks' BY <1>3 DEF Locking, LockOf
  <2> QED BY <2>2, <2>3, <1>1 DEF HoldsLock, Locking
<1>4. /\ Working(j)' \/ Touched(j)' => <<j, "lock">> \in receipts'
      /\ Working(j)' /\ ~overridden'[Target(j)] => LockOf(j) \in locks'
  <2>1. Owned(j) => LockOf(j) \in locks /\ <<j, "lock">> \in receipts
    BY DEF Owned, MaintenanceLocks, LockReceipts, LockOf
  <2>2. Working(j) => <<j, "lock">> \in receipts /\ (~overridden[Target(j)] => LockOf(j) \in locks')
    BY MayMeaning DEF HoldsLock, Locking
  <2>3. Touched(j) => <<j, "lock">> \in receipts BY DEF HoldsLock
  <2>4. /\ Working(j)' => Working(j) \/ (Owned(j) /\ UNCHANGED lockVars)
        /\ Touched(j)' => Touched(j) \/ Working(j)
    BY DEF JobChange, Entry
  <2> QED BY <1>1, <2>1, <2>2, <2>3, <2>4 DEF Locking, lockVars
<1> QED BY <1>3, <1>4 DEF HoldsLock

\* Whoever begins to work is alone with the worker, whose lock nobody else left behind.
LEMMA ExclusiveChange ==
  ASSUME Typed, HoldsLock, Exclusive, NEW j \in Job, JobChange(j), Locking(j)
  PROVE  Exclusive'
<1>1. overridden' = overridden BY DEF JobChange, gateRest
<1>2. at = [p \in Job |-> at[p]] /\ disk = [p \in Job |-> disk[p]] BY DEF Typed, JobTyped
<1>3. ASSUME NEW i \in Job, i # j
      PROVE  (Working(i)' <=> Working(i)) /\ (Touched(i)' <=> Touched(i)) /\ (Unclean(i)' => Unclean(i))
  <2>1. at'[i] = at[i] /\ disk'[i] = disk[i] BY <1>2, <1>3 DEF JobChange, Shape
  <2>2. (Working(i)' <=> Working(i)) /\ (Touched(i)' <=> Touched(i)) BY <2>1 DEF Working, Touched
  <2>3. LockOf(i) \in locks' => LockOf(i) \in locks BY <1>3 DEF Locking, LockOf
  <2> QED BY <2>2, <2>3 DEF Unclean, LockOf
<1>4. /\ Working(j)' => Working(j) \/ (Owned(j) /\ UNCHANGED lockVars)
      /\ Touched(j)' => Touched(j) \/ Working(j)
  BY DEF JobChange, Entry
<1>5. ASSUME NEW i \in Job, i # j, Target(i) = Target(j), Owned(j), Working(i) \/ Unclean(i)
      PROVE  overridden[Target(j)]
  <2>1. LockOf(i) \notin locks BY <1>5 DEF Owned, MaintenanceLocks, LockOf
  <2> QED BY <2>1, <1>5 DEF HoldsLock, Unclean
<1>6. Unclean(j)' => Unclean(j) \/ Working(j)
  BY <1>4 DEF Unclean, LockOf, Locking, HoldsLock
<1>7. ASSUME NEW i \in Job, NEW k \in Job, i # k, Target(i) = Target(k), Working(i)', Working(k)' \/ Unclean(k)'
      PROVE  overridden[Target(i)]
  <2>1. CASE i = j
    BY <2>1, <1>3, <1>4, <1>5, <1>7 DEF Exclusive
  <2>2. CASE k = j
    BY <2>2, <1>3, <1>4, <1>5, <1>6, <1>7 DEF Exclusive
  <2>3. CASE i # j /\ k # j
    BY <2>3, <1>3, <1>7 DEF Exclusive
  <2> QED BY <2>1, <2>2, <2>3
<1> QED BY <1>1, <1>7 DEF Exclusive, Unclean

\* A request left behind belongs to a process that will not send it again.
LEMMA ReleasedChange ==
  ASSUME Typed, Folders, Released, NEW j \in Job, JobChange(j)
  PROVE  Released'
<1>1. ASSUME NEW i \in Job, <<i, "release">> \in late' \/ <<i, "resume">> \in late'
      PROVE  "release-intent" \in disk'[i] /\ at'[i] \in Outside
  <2>1. at = [p \in Job |-> at[p]] /\ disk = [p \in Job |-> disk[p]] BY DEF Typed, JobTyped
  <2>2. CASE <<i, "release">> \in late \/ <<i, "resume">> \in late
    <3>1. "release-intent" \in disk[i] /\ at[i] \in Outside BY <2>2 DEF Released
    <3>2. CASE i # j
      BY <2>1, <3>1, <3>2 DEF JobChange, Shape
    <3>3. CASE i = j
      <4>1. "release-intent" \in disk'[j] BY <3>1, <3>3 DEF JobChange, Shape
      <4>2. at'[j] \in {"resume", "resuming"} \cup Outside BY <4>1 DEF JobChange, Folder
      <4>3. at'[j] \notin {"resume", "resuming"} BY <3>1, <3>3 DEF JobChange, Giving
      <4> QED BY <3>3, <4>1, <4>2, <4>3
    <3> QED BY <3>2, <3>3
  <2>3. CASE ~(<<i, "release">> \in late \/ <<i, "resume">> \in late)
    <3>1. i = j /\ at'[j] = "ended" /\ "release-intent" \in disk'[j] \cup disk[j]
      BY <1>1, <2>3 DEF JobChange, Giving
    <3> QED BY <3>1 DEF JobChange, Shape, Outside
  <2> QED BY <2>2, <2>3
<1> QED BY <1>1 DEF Released

\* What a job verified or recorded stands while it alone works on the worker.
LEMMA PassingChange ==
  ASSUME Typed, Exclusive, Passing, NEW j \in Job, JobChange(j)
  PROVE  Passing'
<1> USE MaintenanceAssumption
<1>1. overridden' = overridden BY DEF JobChange, gateRest
<1>2. at = [p \in Job |-> at[p]] /\ disk = [p \in Job |-> disk[p]] BY DEF Typed, JobTyped
<1>3. ASSUME NEW i \in Job, ~overridden[Target(i)]
      PROVE  /\ at'[i] \in {"publish", "finish"} => Which(i)' \in verified'[Target(i)]
             /\ at'[i] = "finish" => record'[Target(i)] = Which(i)'
  <2>1. CASE i = j
    <3>1. CASE UNCHANGED <<at, disk, hostVars>>
      BY <3>1, <1>3 DEF Passing, Which, hostVars
    <3>2. CASE Promises(j)
      BY <2>1, <3>2, <1>3 DEF Passing, Promises
    <3> QED BY <3>1, <3>2 DEF JobChange
  <2>2. CASE i # j
    <3>1. at'[i] = at[i] /\ disk'[i] = disk[i] BY <1>2, <2>2 DEF JobChange, Shape
    <3>2. Which(i)' = Which(i) BY <3>1 DEF Which
    <3>3. CASE Target(i) # Target(j)
      BY <3>1, <3>2, <3>3, <1>3 DEF Passing, JobChange, Effects
    <3>4. CASE Target(i) = Target(j) /\ at[i] \in {"publish", "finish"}
      <4>1. Working(i) BY <3>4 DEF Working
      <4>2. ~Working(j) BY <4>1, <2>2, <3>4, <1>3 DEF Exclusive
      <4>3. at[j] # "publish" BY <4>2 DEF Working
      <4>4. verified[Target(j)] \subseteq verified'[Target(j)] /\ record'[Target(j)] = record[Target(j)]
        BY <4>2, <4>3 DEF JobChange, Effects
      <4> QED BY <3>1, <3>2, <3>4, <4>4, <1>3 DEF Passing
    <3> QED BY <3>1, <3>3, <3>4
  <2> QED BY <2>1, <2>2
<1> QED BY <1>1, <1>3 DEF Passing, Which

\* A server that is changed is accounted for until it is verified, and published where it must be.
LEMMA AccountedChange ==
  ASSUME Typed, HoldsLock, Folders, Released, Looked, Passing, Accounted, NEW j \in Job, Folder(j)',
         JobChange(j), Locking(j)
  PROVE  Accounted'
<1> USE MaintenanceAssumption
<1>1. overridden' = overridden BY DEF JobChange, gateRest
<1>2. at = [p \in Job |-> at[p]] /\ disk = [p \in Job |-> disk[p]] BY DEF Typed, JobTyped
<1>3. ASSUME NEW i \in Job, i # j, Pending(i) PROVE Pending(i)'
  <2>1. at'[i] = at[i] /\ disk'[i] = disk[i] BY <1>2, <1>3 DEF JobChange, Shape
  <2>2. LockOf(i) \in locks' BY <1>3 DEF Pending, Unclean, Locking, LockOf
  <2> QED BY <2>1, <2>2, <1>3 DEF Pending, Unclean, Touched, LockOf
\* A job that works on its worker's server accounts for it.
<1>4. ASSUME Working(j), Touched(j)', at'[j] \notin Returning, ~overridden[Target(j)] PROVE Pending(j)'
  <2>1. LockOf(j) \in locks' BY <1>4, MayMeaning DEF HoldsLock, Locking
  <2>2. "release-intent" \notin disk[j] /\ at[j] # "releasing"
    BY <1>4, StepNames DEF Folders, Folder, Working, Outside, CandidateSteps, OriginalSteps
  <2>3. "release-intent" \notin disk'[j] BY <2>2 DEF JobChange, Giving
  <2> QED BY <2>1, <2>3, <1>4 DEF Pending, Unclean, LockOf
\* A job returns a server it changed only after the checks that verify it.
<1>5. ASSUME Pending(j), ~Pending(j)', ~overridden[Target(j)]
      PROVE  /\ Verified(Target(j))' 
             /\ IsServing(j) => Recorded(Target(j))'
  <2> DEFINE w == Target(j)
  <2>1. LockOf(j) \in locks' BY <1>5, MayMeaning DEF Pending, Unclean, Locking
  <2>2. Touched(j)' /\ Touched(j) BY <1>5 DEF Pending, Unclean, Touched, JobChange, Shape
  <2>3. "release-intent" \notin disk'[j] BY <1>5 DEF Pending, JobChange, Giving, Returning
  <2>4. at'[j] \in Returning BY <1>5, <2>1, <2>2, <2>3 DEF Pending, Unclean, LockOf
  <2>5. at[j] \in {"finish", "proof"} BY <1>5, <2>2, <2>4 DEF Pending, JobChange, Entry
  <2>6. CASE at[j] = "finish"
    <3>1. QualifiedCurrent(j) /\ UNCHANGED <<name, verified, record>> BY <2>4, <2>6 DEF JobChange, Effects
    <3>2. name[w] = Which(j) BY <3>1 DEF QualifiedCurrent, Serves
    <3>3. Which(j) \in verified[w] /\ record[w] = Which(j) BY <1>5, <2>6 DEF Passing
    <3> QED BY <3>1, <3>2, <3>3 DEF Verified, Recorded, Which
  <2>7. CASE at[j] = "proof"
    <3>1. name'[w] \in verified'[w] BY <2>4, <2>7 DEF JobChange, Effects
    <3>2. ~IsServing(j)
      BY <2>7 DEF Typed, JobTyped, StepOf, IsServing, ServingAt, Window, CandidateSteps, OriginalSteps, Returning
    <3> QED BY <3>1, <3>2 DEF Verified
  <2> QED BY <2>5, <2>6, <2>7
<1>6. ASSUME NEW w \in Worker, ~overridden[w], ~Verified(w)'
      PROVE  \E i \in Job : Target(i) = w /\ Pending(i)'
  <2>1. CASE Verified(w)
    <3>1. w = Target(j) BY <1>6, <2>1 DEF Verified, JobChange, Effects
    <3>2. Working(j) /\ Touched(j)' /\ at'[j] \notin Returning
      BY <1>6, <2>1, <3>1 DEF Verified, JobChange, Effects
    <3> QED BY <3>1, <3>2, <1>4, <1>6
  <2>2. CASE ~Verified(w)
    <3>1. PICK i \in Job : Target(i) = w /\ Pending(i) BY <1>6, <2>2 DEF Accounted
    <3> QED BY <3>1, <1>3, <1>5, <1>6
  <2> QED BY <2>1, <2>2
<1>7. ASSUME NEW w \in Worker, ~overridden[w], ~Recorded(w)'
      PROVE  \E i \in Job : Target(i) = w /\ Pending(i)' /\ IsServing(i)
  <2>1. CASE Recorded(w)
    <3>1. w = Target(j) BY <1>7, <2>1 DEF Recorded, JobChange, Effects
    <3>2. CASE name'[w] # name[w]
      <4>1. Working(j) /\ IsServing(j) /\ Touched(j)' /\ at'[j] \notin Returning
        BY <3>1, <3>2 DEF JobChange, Effects
      <4> QED BY <3>1, <4>1, <1>4, <1>7
    <3>3. CASE name'[w] = name[w]
      <4>1. at[j] = "publish" /\ at'[j] \notin Returning
        BY <1>7, <2>1, <3>1, <3>3 DEF Recorded, JobChange, Effects
      <4>2. Working(j) BY <4>1 DEF Working
      <4>3. IsServing(j)
        BY <4>1 DEF Typed, JobTyped, StepOf, IsServing, HourglassAt, MediaAt, Window, Returning, Restoring
      <4>4. Touched(j)' BY <4>1, <4>3 DEF Folders, Folder, ServingFolder, Changed, Touched, JobChange, Shape
      <4> QED BY <3>1, <4>1, <4>2, <4>3, <4>4, <1>4, <1>7
    <3> QED BY <3>2, <3>3
  <2>2. CASE ~Recorded(w)
    <3>1. PICK i \in Job : Target(i) = w /\ Pending(i) /\ IsServing(i) BY <1>7, <2>2 DEF Accounted
    <3> QED BY <3>1, <1>3, <1>5, <1>7
  <2> QED BY <2>1, <2>2
<1>8. \A i \in Job : IsServing(i)' <=> IsServing(i) BY DEF IsServing
<1> QED BY <1>1, <1>6, <1>7, <1>8 DEF Accounted

\* The operator action a job observed still stands only if no pause followed it.
LEMMA LookedChange ==
  ASSUME Typed, Folders, Released, Looked, NEW j \in Job, JobChange(j), Locking(j),
         <<j, "resume">> \in late' => <<j, "resume">> \in late \/ UNCHANGED head,
         head' # head => <<j, "resume">> \notin late' /\ at'[j] \in Outside
  PROVE  Looked'
<1> USE MaintenanceAssumption
<1>1. /\ at = [p \in Job |-> at[p]] /\ disk = [p \in Job |-> disk[p]] /\ base = [p \in Job |-> base[p]]
      /\ head = [w \in Worker |-> head[w]]
  BY DEF Typed, JobTyped, HistoryTyped
<1>2. pauses' = pauses BY DEF JobChange, gateRest
<1>3. \A i \in Job \ {j} : at'[i] = at[i] /\ disk'[i] = disk[i] /\ base'[i] = base[i]
  BY <1>1 DEF JobChange, Shape
<1>4. disk[j] \subseteq disk'[j] BY DEF JobChange, Shape
<1>5. \A i \in Job : ReleaseRequest(i) = ReleaseRequest(j) => i = j BY DEF ReleaseRequest
<1>6. head' # head => /\ head' = [head EXCEPT ![Target(j)] = ReleaseRequest(j)]
                      /\ "release-intent" \in disk[j] /\ ~Used(j)
  BY MayMeaning DEF Locking
<1>7. Looks(j) BY DEF JobChange
<1>8. ASSUME NEW i \in Job, head'[Target(i)] = base'[i].action
      PROVE  pauses'[Target(i)].drain = base'[i].pauses.drain
  <2>1. CASE base'[i] = base[i]
    <3>1. CASE head'[Target(i)] = head[Target(i)]
      BY <1>2, <1>8, <2>1, <3>1 DEF Looked
    <3>2. CASE head'[Target(i)] # head[Target(i)]
      <4>1. head' # head BY <3>2
      <4>2. head'[Target(i)] = ReleaseRequest(j) BY <1>1, <1>6, <3>2, <4>1
      <4>3. base[i].action = ReleaseRequest(j) BY <1>8, <2>1, <4>2
      <4>4. Used(j) BY <4>3 DEF Used
      <4> QED BY <1>6, <4>1, <4>4
    <3> QED BY <3>1, <3>2
  <2>2. CASE base'[i] # base[i]
    <3>1. i = j BY <1>3, <2>2
    <3>2. base'[j].pauses = pauses[Target(j)] BY <1>7, <2>2, <3>1 DEF Looks
    <3> QED BY <1>2, <3>1, <3>2
  <2> QED BY <2>1, <2>2
<1>9. ASSUME NEW i \in Job, Used(i)' PROVE Used(i) \/ (i = j /\ head' # head)
  <2>1. CASE \E w \in Worker : head'[w] = ReleaseRequest(i)
    <3>1. PICK w \in Worker : head'[w] = ReleaseRequest(i) BY <2>1
    <3>2. CASE head'[w] = head[w]
      BY <3>1, <3>2 DEF Used
    <3>3. CASE head'[w] # head[w]
      <4>1. head' # head BY <3>3
      <4>2. head'[w] = ReleaseRequest(j) BY <1>1, <1>6, <3>3, <4>1
      <4> QED BY <1>5, <3>1, <4>1, <4>2
    <3> QED BY <3>2, <3>3
  <2>2. CASE \E k \in Job : base'[k].action = ReleaseRequest(i)
    <3>1. PICK k \in Job : base'[k].action = ReleaseRequest(i) BY <2>2
    <3>2. CASE base'[k] = base[k]
      BY <3>1, <3>2 DEF Used
    <3>3. CASE base'[k] # base[k]
      <4>1. k = j BY <1>3, <3>3
      <4>2. base'[k].action = head[Target(j)] BY <1>7, <3>3, <4>1 DEF Looks
      <4> QED BY <3>1, <4>2 DEF Used
    <3> QED BY <3>2, <3>3
  <2> QED BY <2>1, <2>2, <1>9 DEF Used, ReleaseRequest
<1>10. ASSUME NEW i \in Job, Used(i)'
       PROVE  "release-intent" \in disk'[i] /\ at'[i] \in Outside /\ <<i, "resume">> \notin late'
  <2>1. CASE i = j /\ head' # head
    BY <2>1, <1>4, <1>6
  <2>2. CASE Used(i)
    <3>1. "release-intent" \in disk[i] /\ at[i] \in Outside /\ <<i, "resume">> \notin late BY <2>2 DEF Looked
    <3>2. <<i, "resume">> \in late' => i = j /\ at[j] = "resuming"
      BY <3>1 DEF JobChange, Giving
    <3>3. <<i, "resume">> \notin late' BY <3>1, <3>2 DEF Outside
    <3>4. CASE i # j
      BY <1>3, <3>1, <3>3, <3>4
    <3>5. CASE i = j
      <4>1. "release-intent" \in disk'[j] BY <1>4, <3>1, <3>5
      <4>2. at'[j] \in {"resume", "resuming"} \cup Outside BY <4>1 DEF JobChange, Folder
      <4>3. at'[j] \notin {"resume", "resuming"} BY <3>1, <3>5 DEF JobChange, Giving
      <4> QED BY <3>3, <3>5, <4>1, <4>2, <4>3
    <3> QED BY <3>4, <3>5
  <2> QED BY <2>1, <2>2, <1>9, <1>10
<1> QED BY <1>8, <1>10 DEF Looked, Used, ReleaseRequest

\* An operator action stays one as events are counted.
LEMMA ActionsGrow ==
  ASSUME events \in Nat, Event1 PROVE Actions \subseteq Actions' /\ events' \in Nat /\ events <= events'
BY DEF Actions, Event1, Event, ReleaseRequest

\* Events stay within their bound.
LEMMA BoundGrows ==
  ASSUME events \in 0..MaxEvents, Event1 PROVE events' \in 0..MaxEvents
BY PausesAssumption DEF Event1, Event

\* What a request of a job writes is of the right type.
LEMMA TypedRequest ==
  ASSUME GateTyped, HistoryTyped, NEW j \in Job, Asked(j), UNCHANGED gateRest, Event1
  PROVE  GateTyped' /\ HistoryTyped'
<1> USE MaintenanceAssumption
<1>0. /\ registered' = registered /\ holds' = holds /\ overridden' = overridden /\ pauses' = pauses
      /\ Target(j) \in Worker
  BY DEF gateRest
<1>1. /\ manual' \in [Worker -> {"unset", "paused", "open"}] /\ drained' \in [Worker -> BOOLEAN]
      /\ locks' \subseteq [worker : Worker, id : Job \cup {Operator}]
  <2> USE <1>0 DEF GateTyped
  <2>1. CASE UNCHANGED <<lockVars, head>>
    BY <2>1 DEF lockVars
  <2>2. CASE MaintenanceLock(j, Target(j), Minimum(j), Up)
    <3>1. \/ UNCHANGED <<manual, drained, locks>>
          \/ /\ manual' = [manual EXCEPT ![Target(j)] = IF ManualPaused(Target(j)) THEN "paused" ELSE "open"]
             /\ drained' = [drained EXCEPT ![Target(j)] = TRUE]
             /\ locks' = locks \cup {LockOf(j)}
      BY <2>2 DEF MaintenanceLock, LockOf
    <3>2. LockOf(j) \in [worker : Worker, id : Job \cup {Operator}] BY DEF LockOf
    <3> QED BY <3>1, <3>2
  <2>3. CASE MaintenanceRelease(j, ReleaseRequest(j))
    BY <2>3 DEF MaintenanceRelease
  <2>4. CASE /\ ConditionalResume(Target(j), base[j].action, ReleaseRequest(j), Answers(Target(j)))
             /\ UNCHANGED <<locks, lastMaint, receipts>>
    BY <2>4 DEF ConditionalResume, ManualUpdate
  <2> QED BY <2>1, <2>2, <2>3, <2>4 DEF Asked
<1>2. Actions \subseteq Actions' /\ events' \in 0..MaxEvents
  BY ActionsGrow, BoundGrows DEF HistoryTyped
<1>3. head' \in [Worker -> Actions']
  <2>1. ReleaseRequest(j) \in Actions' BY DEF Actions, ReleaseRequest
  <2>2. Locking(j) BY LockingOf
  <2>3. head \in [Worker -> Actions'] BY <1>2 DEF HistoryTyped
  <2> QED BY <1>0, <2>1, <2>2, <2>3 DEF Locking
<1> QED BY <1>0, <1>1, <1>2, <1>3 DEF GateTyped, HistoryTyped

\* What a step of a job writes is of the right type.
LEMMA TypedChange ==
  ASSUME Typed, NEW j \in Job, JobChange(j)
  PROVE  Typed'
<1> USE MaintenanceAssumption
<1>1. GateTyped' /\ HistoryTyped' BY TypedRequest DEF Typed, JobChange
<1>2. HostTyped' BY DEF JobChange
<1>3. at = [p \in Job |-> at[p]] /\ disk = [p \in Job |-> disk[p]] BY DEF Typed, JobTyped
<1>5. at' = [p \in Job |-> at'[p]] BY <1>3 DEF JobChange, Shape
<1>6. ASSUME NEW i \in Job PROVE StepOf(i)'
  <2>1. CASE i = j BY <2>1 DEF JobChange
  <2>2. CASE i # j
    <3>1. at'[i] = at[i] BY <1>3, <2>2 DEF JobChange, Shape
    <3> QED BY <3>1 DEF Typed, JobTyped, StepOf, IsServing
  <2> QED BY <2>1, <2>2
<1>7. base' \in [Job -> [action : Actions', paused : BOOLEAN, pauses : Pause]]
  <2>1. Actions \subseteq Actions' BY ActionsGrow DEF JobChange, Typed, HistoryTyped
  <2>2. base \in [Job -> [action : Actions', paused : BOOLEAN, pauses : Pause]]
    BY <2>1 DEF Typed, JobTyped
  <2>3. base'[j] \in [action : Actions', paused : BOOLEAN, pauses : Pause]
    <3>1. CASE base'[j] = base[j] BY <2>2, <3>1
    <3>2. CASE base'[j] = [action |-> head[Target(j)], paused |-> ManualPaused(Target(j)), pauses |-> pauses[Target(j)]]
      <4>1. head[Target(j)] \in Actions' /\ pauses[Target(j)] \in Pause BY <2>1 DEF Typed, HistoryTyped
      <4>2. ManualPaused(Target(j)) \in BOOLEAN BY DEF Typed, GateTyped, ManualPaused
      <4> QED BY <3>2, <4>1, <4>2
    <3> QED BY <3>1, <3>2 DEF JobChange, Looks
  <2>4. base' = [base EXCEPT ![j] = base'[j]] BY DEF JobChange, Shape
  <2> QED BY <2>2, <2>3, <2>4
<1>8. disk' = [p \in Job |-> disk'[p]]
  BY <1>3 DEF JobChange, Shape
<1> QED BY <1>1, <1>2, <1>5, <1>6, <1>7, <1>8 DEF Typed, JobTyped

\* Every step of a job keeps the invariant.
LEMMA JobInvariant ==
  ASSUME WindowsInv, NEW j \in Job, JobChange(j),
         head' # head => <<j, "resume">> \notin late' /\ at'[j] \in Outside
  PROVE  WindowsInv'
<1> USE DEF WindowsInv
<1>1. Locking(j) BY LockingOf DEF JobChange
<1>2. Typed' BY TypedChange
<1>3. LockReceipts' BY <1>1, LockReceiptsChange
<1>4. GateTyped /\ GateTyped' BY <1>2 DEF Typed
<1>5. JobRequest(j) \/ UNCHANGED <<lockVars, head>>
  BY DEF JobChange, Asked, JobRequest
<1>6. UNCHANGED gateRest BY DEF JobChange
<1>7. PauseOwnership' /\ Forgotten' /\ FloorKept'
  <2>1. CASE JobRequest(j)
    BY <1>4, <1>6, <2>1, OwnershipRequest, FloorRequest
  <2>2. CASE UNCHANGED <<lockVars, head>>
    BY <1>6, <2>2 DEF gateRest, lockVars, PauseOwnership, Forgotten, FloorKept, Holds, MaintenanceLocks, ManualPaused,
       Minimum
  <2> QED BY <1>5, <2>1, <2>2
<1>8. HoldsLock' BY <1>1, HoldsLockChange
<1>9. Exclusive' BY <1>1, ExclusiveChange
<1>10. Folders'
  <2>1. ASSUME NEW i \in Job, i # j PROVE Folder(i)'
    <3>1. at'[i] = at[i] /\ disk'[i] = disk[i] /\ submitted'[i] = submitted[i]
      BY <2>1 DEF Typed, JobTyped, HostTyped, JobChange, Shape
    <3>2. Folder(i) BY DEF Folders
    <3> QED BY <3>1, <3>2 DEF Folder, HourglassFolder, MediaFolder, ServingFolder, Touched, IsServing
  <2> QED BY <2>1 DEF Folders, JobChange
<1>11. Released' BY ReleasedChange
<1>12. Passing' BY PassingChange
<1>13. Accounted' BY <1>1, AccountedChange DEF JobChange
<1>14. Looked'
  <2>1. <<j, "resume">> \in late' => <<j, "resume">> \in late \/ UNCHANGED head
    BY DEF JobChange
  <2> QED BY <1>1, <2>1, LookedChange
<1> QED BY <1>2, <1>3, <1>7, <1>8, <1>9, <1>10, <1>11, <1>12, <1>13, <1>14

-----------------------------------------------------------------------------
(* The operator, the agents and the host.                                  *)

\* What a request of the operator or an agent changes of a job's window.
Outsider ==
  /\ receipts \subseteq receipts'
  /\ \A l \in locks' \ locks : l.id = Operator /\ <<Operator, "lock">> \in receipts'
  /\ \A l \in locks \ locks' : \A j \in Job : l = LockOf(j) => overridden'[Target(j)]
  /\ \A w \in Worker : overridden[w] => overridden'[w]
  /\ \A w \in Worker : head'[w] # head[w] => head'[w] = <<Operator, events>>
  /\ \A w \in Worker : head'[w] = head[w] => pauses'[w].drain = pauses[w].drain

\* The next operator action is not one anybody has seen.
LEMMA FreshAction ==
  ASSUME HistoryTyped PROVE <<Operator, events>> \notin Actions
<1>1. events \in Nat BY PausesAssumption DEF HistoryTyped
<1>2. \A n \in 0..(events - 1) : <<Operator, n>> # <<Operator, events>> BY <1>1
<1>3. \A j \in Job : ReleaseRequest(j) # <<Operator, events>> BY MaintenanceAssumption DEF ReleaseRequest
<1>4. <<>> # <<Operator, events>> OBVIOUS
<1> QED BY <1>2, <1>3, <1>4 DEF Actions

\* Every request of the operator or an agent is one of an outsider to the windows.
LEMMA OutsiderPauses ==
  ASSUME Typed, LockReceipts, NEW up, PausesNext(up)
  PROVE  Outsider
<1> USE MaintenanceAssumption
<1>0. /\ head = [w \in Worker |-> head[w]] /\ overridden \in [Worker -> BOOLEAN]
      /\ pauses \in [Worker -> Pause]
      /\ \A w \in Worker : head[w] # <<Operator, events>>
  BY FreshAction DEF Typed, HistoryTyped
<1>1. ASSUME NEW w \in Worker, Drain(w) PROVE Outsider
  BY <1>0, <1>1 DEF Outsider, Drain, Pause
<1>2. ASSUME NEW w \in Worker, Resume(w, w \in up) PROVE Outsider
  BY <1>0, <1>2 DEF Outsider, Resume
<1>3. ASSUME NEW w \in Worker, AddWorker(w) \/ RemoveWorker(w) \/ EditEndpoint(w) \/ Admit(w, w \in up)
                               \/ FinishWork(w) \/ AgentDrain(w)
      PROVE  Outsider
  BY <1>3 DEF Outsider, AddWorker, RemoveWorker, EditEndpoint, Admit, FinishWork, AgentDrain
<1>4. ASSUME NEW w \in Worker, OperatorLock(w) PROVE Outsider
  BY <1>4 DEF Outsider, OperatorLock, MaintenanceLock
<1>5. ASSUME NEW l \in locks, OperatorRelease(l) PROVE Outsider
  <2>1. /\ receipts \subseteq receipts' /\ locks' \subseteq locks /\ head' = head /\ pauses' = pauses
        /\ \A k \in locks \ locks' : k.id = l.id
    BY <1>5 DEF OperatorRelease, MaintenanceRelease
  <2>2. overridden' = [overridden EXCEPT ![l.worker] = @ \/ l.id # Operator]
    BY <1>5 DEF OperatorRelease
  <2>3. ASSUME NEW k \in locks \ locks', NEW j \in Job, k = LockOf(j) PROVE overridden'[Target(j)]
    <3>1. l.id = j BY <2>1, <2>3 DEF LockOf
    <3>2. l.worker = Target(j) BY <3>1 DEF LockReceipts
    <3> QED BY <1>0, <2>2, <3>1, <3>2
  <2>4. \A w \in Worker : overridden[w] => overridden'[w] BY <1>0, <2>2
  <2> QED BY <2>1, <2>3, <2>4 DEF Outsider
<1>6. ASSUME NEW h \in holds, AgentResume(h, h.worker \in up) PROVE Outsider
  BY <1>6 DEF Outsider, AgentResume
<1>7. ASSUME NEW h \in holds, ClearHold(h) PROVE Outsider
  BY <1>0, <1>7 DEF Outsider, ClearHold, Pause
<1>8. ASSUME (\E ws \in SUBSET Worker : Grant(ws)) \/ Revoke PROVE Outsider
  BY <1>8 DEF Outsider, Grant, Revoke
<1> QED BY <1>1, <1>2, <1>3, <1>4, <1>5, <1>6, <1>7, <1>8 DEF PausesNext

\* What a request of the operator or an agent writes is of the right type.
LEMMA TypedPauses ==
  ASSUME GateTyped, HistoryTyped, NEW up, PausesNext(up)
  PROVE  GateTyped' /\ HistoryTyped' /\ Event1
<1> USE PausesAssumption, MaintenanceAssumption
<1>0. /\ registered \subseteq Worker
      /\ manual \in [Worker -> {"unset", "paused", "open"}] /\ drained \in [Worker -> BOOLEAN]
      /\ holds \subseteq [worker : Worker, id : 1..MaxEvents]
      /\ locks \subseteq [worker : Worker, id : Job \cup {Operator}]
      /\ overridden \in [Worker -> BOOLEAN] /\ pauses \in [Worker -> Pause] /\ events \in 0..MaxEvents
  BY DEF GateTyped, HistoryTyped
<1>1. Event1
  BY DEF Event1, Event, PausesNext, Drain, Resume, AddWorker, RemoveWorker, EditEndpoint, Admit, FinishWork,
     OperatorLock, AgentDrain, OperatorRelease, AgentResume, ClearHold, Grant, Revoke
<1>2. Actions \subseteq Actions' /\ events' \in 0..MaxEvents
  BY <1>1, ActionsGrow, BoundGrows DEF HistoryTyped
<1>3. registered' \subseteq Worker
  BY <1>0 DEF PausesNext, Drain, Resume, AddWorker, RemoveWorker, EditEndpoint, Admit, FinishWork,
     OperatorLock, AgentDrain, OperatorRelease, AgentResume, ClearHold, Grant, Revoke
<1>4. manual' \in [Worker -> {"unset", "paused", "open"}] /\ drained' \in [Worker -> BOOLEAN]
  <2>1. ASSUME NEW w \in Worker,
               Drain(w) \/ Resume(w, w \in up) \/ AddWorker(w) \/ RemoveWorker(w) \/ EditEndpoint(w)
                 \/ Admit(w, w \in up) \/ FinishWork(w)
        PROVE  manual' \in [Worker -> {"unset", "paused", "open"}] /\ drained' \in [Worker -> BOOLEAN]
    BY <1>0, <2>1 DEF Drain, Resume, ManualUpdate, AddWorker, RemoveWorker, EditEndpoint, Admit, FinishWork
  <2>2. ASSUME NEW w \in Worker, OperatorLock(w) \/ AgentDrain(w)
        PROVE  manual' \in [Worker -> {"unset", "paused", "open"}] /\ drained' \in [Worker -> BOOLEAN]
    BY <1>0, <2>2 DEF OperatorLock, MaintenanceLock, AgentDrain
  <2>3. ASSUME NEW l \in locks, OperatorRelease(l)
        PROVE  manual' \in [Worker -> {"unset", "paused", "open"}] /\ drained' \in [Worker -> BOOLEAN]
    BY <1>0, <2>3 DEF OperatorRelease, MaintenanceRelease
  <2>4. ASSUME NEW h \in holds, AgentResume(h, h.worker \in up)
        PROVE  manual' \in [Worker -> {"unset", "paused", "open"}] /\ drained' \in [Worker -> BOOLEAN]
    <3>1. manual' = manual
          /\ drained' = [drained EXCEPT ![h.worker] = Holds(h.worker) \ {h} # {} \/ ManualPaused(h.worker)
                                                         \/ MaintenanceLocks(h.worker) # {}]
      BY <2>4 DEF AgentResume
    <3>2. ManualPaused(h.worker) \in BOOLEAN BY <1>0, <2>4 DEF ManualPaused
    <3>3. (Holds(h.worker) \ {h} # {} \/ ManualPaused(h.worker) \/ MaintenanceLocks(h.worker) # {}) \in BOOLEAN
      BY <3>2
    <3> QED BY <1>0, <3>1, <3>3
  <2>5. ASSUME NEW h \in holds, ClearHold(h)
        PROVE  manual' \in [Worker -> {"unset", "paused", "open"}] /\ drained' \in [Worker -> BOOLEAN]
    BY <1>0, <2>5 DEF ClearHold
  <2>6. ASSUME (\E ws \in SUBSET Worker : Grant(ws)) \/ Revoke
        PROVE  manual' \in [Worker -> {"unset", "paused", "open"}] /\ drained' \in [Worker -> BOOLEAN]
    BY <1>0, <2>6 DEF Grant, Revoke
  <2> QED BY <2>1, <2>2, <2>3, <2>4, <2>5, <2>6 DEF PausesNext
<1>5. holds' \subseteq [worker : Worker, id : 1..MaxEvents]
  <2>1. holds' \subseteq holds \/ \E w \in Worker : AgentDrain(w)
    BY DEF PausesNext, Drain, Resume, AddWorker, RemoveWorker, EditEndpoint, Admit, FinishWork,
       OperatorLock, OperatorRelease, AgentResume, ClearHold, Grant, Revoke
  <2>2. ASSUME NEW w \in Worker, AgentDrain(w) PROVE holds' \subseteq [worker : Worker, id : 1..MaxEvents]
    <3>1. holds' = holds \cup {[worker |-> w, id |-> events + 1]} /\ events + 1 \in 1..MaxEvents
      BY <1>0, <2>2 DEF AgentDrain, Event
    <3> QED BY <1>0, <3>1
  <2> QED BY <1>0, <2>1, <2>2
<1>6. locks' \subseteq [worker : Worker, id : Job \cup {Operator}]
  <2>1. locks' \subseteq locks \/ \E w \in Worker : locks' = locks \cup {[worker |-> w, id |-> Operator]}
    BY DEF PausesNext, Drain, Resume, AddWorker, RemoveWorker, EditEndpoint, Admit, FinishWork,
       OperatorLock, AgentDrain, OperatorRelease, AgentResume, ClearHold, Grant, Revoke, MaintenanceLock,
       MaintenanceRelease
  <2> QED BY <1>0, <2>1
<1>7. overridden' \in [Worker -> BOOLEAN]
  <2>1. overridden' = overridden \/ \E l \in locks : OperatorRelease(l)
    BY DEF PausesNext, Drain, Resume, AddWorker, RemoveWorker, EditEndpoint, Admit, FinishWork,
       OperatorLock, AgentDrain, AgentResume, ClearHold, Grant, Revoke
  <2>2. ASSUME NEW l \in locks, OperatorRelease(l) PROVE overridden' \in [Worker -> BOOLEAN]
    BY <1>0, <2>2 DEF OperatorRelease
  <2> QED BY <1>0, <2>1, <2>2
<1>8. pauses' \in [Worker -> Pause]
  <2>1. pauses' = pauses \/ (\E w \in Worker : Drain(w)) \/ (\E h \in holds : ClearHold(h))
    BY DEF PausesNext, Resume, AddWorker, RemoveWorker, EditEndpoint, Admit, FinishWork,
       OperatorLock, OperatorRelease, AgentDrain, AgentResume, Grant, Revoke
  <2>2. ASSUME NEW w \in Worker, Drain(w) PROVE pauses' \in [Worker -> Pause]
    BY <1>0, <2>2 DEF Drain, Pause
  <2>3. ASSUME NEW h \in holds, ClearHold(h) PROVE pauses' \in [Worker -> Pause]
    BY <1>0, <2>3 DEF ClearHold, Pause
  <2> QED BY <1>0, <2>1, <2>2, <2>3
<1>9. head' \in [Worker -> Actions']
  <2>1. head \in [Worker -> Actions'] BY <1>2 DEF HistoryTyped
  <2>2. head' = head \/ \E w \in Worker : Event /\ head' = [head EXCEPT ![w] = <<Operator, events>>]
    BY DEF PausesNext, Drain, Resume, AddWorker, RemoveWorker, EditEndpoint, Admit, FinishWork,
       OperatorLock, OperatorRelease, AgentDrain, AgentResume, ClearHold, Grant, Revoke
  <2>3. ASSUME Event PROVE <<Operator, events>> \in Actions'
    BY <1>0, <2>3 DEF Event, Actions
  <2> QED BY <2>1, <2>2, <2>3
<1> QED BY <1>1, <1>2, <1>3, <1>4, <1>5, <1>6, <1>7, <1>8, <1>9 DEF GateTyped, HistoryTyped

\* Every request of the operator or an agent keeps the invariant.
LEMMA PausesInvariant ==
  ASSUME WindowsInv, NEW up, PausesNext(up), UNCHANGED <<jobVars, hostVars>>
  PROVE  WindowsInv'
<1> USE MaintenanceAssumption DEF WindowsInv
<1>0. /\ at' = at /\ disk' = disk /\ base' = base /\ late' = late
      /\ run' = run /\ name' = name /\ bench' = bench /\ submitted' = submitted /\ record' = record
      /\ verified' = verified
  BY DEF jobVars, hostVars
<1>1. GateTyped' /\ HistoryTyped' /\ Event1 BY TypedPauses DEF Typed
<1>2. Outsider BY OutsiderPauses
<1>3. Typed'
  <2>1. Actions \subseteq Actions' BY <1>1, PausesAssumption, ActionsGrow DEF Typed, HistoryTyped
  <2>2. JobTyped' BY <1>0, <2>1 DEF Typed, JobTyped, StepOf, IsServing
  <2>3. HostTyped' BY <1>0 DEF Typed, HostTyped
  <2> QED BY <1>1, <2>2, <2>3 DEF Typed
<1>4. LockReceipts' 
  BY <1>2 DEF LockReceipts, Outsider
<1>5. PauseOwnership' /\ Forgotten' /\ FloorKept'
  BY <1>3, OwnershipPauses, ForgottenPauses, FloorPauses DEF Typed
<1>6. \A j \in Job : (Working(j)' <=> Working(j)) /\ (Touched(j)' <=> Touched(j)) /\ Which(j)' = Which(j)
  BY <1>0 DEF Working, Touched, Which
<1>7. \A j \in Job : ~overridden'[Target(j)] => /\ ~overridden[Target(j)]
                                                /\ LockOf(j) \in locks' <=> LockOf(j) \in locks
  <2>1. \A j \in Job : ~overridden'[Target(j)] => ~overridden[Target(j)] BY <1>2 DEF Outsider
  <2>2. ASSUME NEW j \in Job, LockOf(j) \in locks', LockOf(j) \notin locks PROVE FALSE
    <3>1. LockOf(j).id = Operator BY <1>2, <2>2 DEF Outsider
    <3> QED BY <3>1 DEF LockOf
  <2>3. ASSUME NEW j \in Job, LockOf(j) \in locks, LockOf(j) \notin locks' PROVE overridden'[Target(j)]
    BY <1>2, <2>3 DEF Outsider
  <2> QED BY <2>1, <2>2, <2>3
<1>8. HoldsLock'
  BY <1>2, <1>6, <1>7 DEF HoldsLock, Outsider, LockOf
<1>9. \A j \in Job : Unclean(j)' => Unclean(j)
  <2>1. ASSUME NEW j \in Job, LockOf(j) \in locks' PROVE LockOf(j) \in locks
    <3>1. CASE LockOf(j) \notin locks
      <4>1. LockOf(j).id = Operator BY <1>2, <2>1, <3>1 DEF Outsider
      <4> QED BY <4>1 DEF LockOf
    <3> QED BY <3>1
  <2> QED BY <1>6, <2>1 DEF Unclean, LockOf
<1>10. Exclusive'
  BY <1>2, <1>6, <1>9 DEF Exclusive, Outsider, Unclean
<1>11. Folders' /\ Released'
  BY <1>0 DEF Folders, Folder, HourglassFolder, MediaFolder, ServingFolder, Touched, IsServing, Released
<1>12. Passing'
  BY <1>0, <1>6, <1>7 DEF Passing, Which
<1>13. Accounted'
  <2>1. ASSUME NEW j \in Job, ~overridden'[Target(j)], Pending(j) PROVE Pending(j)'
    BY <1>0, <1>6, <1>7, <2>1 DEF Pending, Unclean, LockOf
  <2>2. \A w \in Worker : (Verified(w)' <=> Verified(w)) /\ (Recorded(w)' <=> Recorded(w))
    BY <1>0 DEF Verified, Recorded
  <2>3. \A j \in Job : IsServing(j)' <=> IsServing(j) BY DEF IsServing
  <2>4. \A w \in Worker : overridden[w] => overridden'[w] BY <1>2 DEF Outsider
  <2> QED BY <2>1, <2>2, <2>3, <2>4 DEF Accounted
<1>14. Looked'
  <2>1. \A j \in Job : base[j].action # <<Operator, events>> /\ ReleaseRequest(j) # <<Operator, events>>
    BY FreshAction DEF Typed, JobTyped, ReleaseRequest
  <2>2. ASSUME NEW j \in Job, head'[Target(j)] = base'[j].action
        PROVE  pauses'[Target(j)].drain = base'[j].pauses.drain
    <3>1. head'[Target(j)] = head[Target(j)] BY <1>0, <1>2, <2>1, <2>2 DEF Outsider
    <3> QED BY <1>0, <1>2, <2>2, <3>1 DEF Outsider, Looked
  <2>3. ASSUME NEW j \in Job, Used(j)' PROVE Used(j)
    <3>1. CASE \E w \in Worker : head'[w] = ReleaseRequest(j)
      BY <1>2, <2>1, <3>1 DEF Outsider, Used
    <3>2. CASE \E i \in Job : base'[i].action = ReleaseRequest(j)
      BY <1>0, <3>2 DEF Used
    <3> QED BY <2>3, <3>1, <3>2 DEF Used, ReleaseRequest
  <2> QED BY <1>0, <2>2, <2>3 DEF Looked, Used, ReleaseRequest
<1> QED BY <1>3, <1>4, <1>5, <1>8, <1>10, <1>11, <1>12, <1>13, <1>14

\* A job's process that readmits its worker has given no earlier request of the kind up.
LEMMA ProcessInvariant ==
  ASSUME WindowsInv, NEW j \in Job, JobStep(j)
  PROVE  WindowsInv' /\ JobChange(j)
<1> USE DEF WindowsInv
<1>1. Typed /\ Folder(j) /\ Released BY DEF Folders
<1>2. JobChange(j) BY <1>1, ProcessChange
<1>3. Gate(j) /\ Giving(j) BY <1>1, StepFacts
<1>4. ASSUME head' # head PROVE <<j, "resume">> \notin late' /\ at'[j] \in Outside
  <2>1. at[j] = "resuming" /\ at'[j] = "ended" BY <1>3, <1>4 DEF Gate
  <2>2. <<j, "resume">> \notin late BY <1>1, <2>1 DEF Released, Outside
  <2>3. <<j, "resume">> \in late' => UNCHANGED head BY <1>3, <2>2 DEF Giving
  <2> QED BY <1>4, <2>1, <2>3 DEF Outside
<1>5. WindowsInv' BY <1>2, <1>4, JobInvariant
<1> QED BY <1>2, <1>5

\* A request served after its caller gave up is served once, and its process sends no other.
LEMMA LateInvariant ==
  ASSUME WindowsInv, NEW j \in Job, NEW r \in {"lock", "release", "resume"}, ServeLate(j, r)
  PROVE  WindowsInv' /\ JobChange(j)
<1> USE DEF WindowsInv
<1>1. Typed /\ Folder(j) /\ Released BY DEF Folders
<1>2. JobChange(j) /\ late' = late \ {<<j, r>>} /\ at' = at BY <1>1, LateChange
<1>3. ASSUME head' # head PROVE <<j, "resume">> \notin late' /\ at'[j] \in Outside
  <2>1. r = "resume" /\ <<j, r>> \in late BY <1>3 DEF ServeLate
  <2> QED BY <1>1, <1>2, <2>1 DEF Released
<1>4. WindowsInv' BY <1>2, <1>3, JobInvariant
<1> QED BY <1>2, <1>4

\* Nothing of the host enters the invariant but what operations do to it.
LEMMA StillInvariant ==
  ASSUME WindowsInv, UNCHANGED <<gateVars, jobVars, name, submitted, record, verified>>,
         events' = events \/ Event,
         run' \in [Worker -> SUBSET {"prev", "cand", "media"}], bench' \in [Job -> {"none", "running", "done"}]
  PROVE  WindowsInv'
<1> USE DEF WindowsInv
<1>0. /\ UNCHANGED <<registered, manual, drained, holds, locks, receipts, head, overridden, pauses>>
      /\ UNCHANGED <<at, disk, base, late, name, submitted, record, verified>>
  BY DEF gateVars, lockVars, gateRest, jobVars
<1> HIDE DEF WindowsInv
<1>1. Typed'
  <2>1. Typed BY DEF WindowsInv
  <2>2. Event1 BY DEF Event1
  <2>3. Actions \subseteq Actions' /\ events' \in 0..MaxEvents
    BY <2>1, <2>2, PausesAssumption, ActionsGrow, BoundGrows DEF Typed, HistoryTyped
  <2>4. GateTyped' BY <1>0, <2>1 DEF Typed, GateTyped
  <2>5. HistoryTyped' BY <1>0, <2>1, <2>3 DEF Typed, HistoryTyped
  <2>6. JobTyped' BY <1>0, <2>1, <2>3 DEF Typed, JobTyped, StepOf, IsServing
  <2>7. HostTyped' BY <1>0, <2>1 DEF Typed, HostTyped
  <2> QED BY <2>4, <2>5, <2>6, <2>7 DEF Typed
<1>2. LockReceipts' /\ Forgotten' /\ PauseOwnership' /\ FloorKept'
  BY <1>0 DEF WindowsInv, LockReceipts, Forgotten, PauseOwnership, FloorKept, Holds, MaintenanceLocks, ManualPaused,
     Minimum
<1>3. HoldsLock' /\ Exclusive'
  BY <1>0 DEF WindowsInv, HoldsLock, Exclusive, Working, Touched, Unclean, LockOf
<1>4. Folders' /\ Released'
  BY <1>0 DEF WindowsInv, Folders, Folder, HourglassFolder, MediaFolder, ServingFolder, Touched, IsServing, Released
<1>5. Passing'
  BY <1>0 DEF WindowsInv, Passing, Which
<1>6. Accounted'
  BY <1>0 DEF WindowsInv, Accounted, Pending, Unclean, Touched, LockOf, Verified, Recorded, IsServing
<1>7. Looked'
  BY <1>0 DEF WindowsInv, Looked, Used, ReleaseRequest
<1> QED BY <1>1, <1>2, <1>3, <1>4, <1>5, <1>6, <1>7 DEF WindowsInv

\* So does every event of a host: containers that exit or restart, direct and native work.
LEMMA HostInvariant ==
  ASSUME WindowsInv, HostNext
  PROVE  WindowsInv'
<1>0. run \in [Worker -> SUBSET {"prev", "cand", "media"}] /\ bench \in [Job -> {"none", "running", "done"}]
  BY DEF WindowsInv, Typed, HostTyped
<1>1. UNCHANGED <<gateVars, jobVars, name, submitted, record, verified>> /\ (events' = events \/ Event)
  BY DEF HostNext, ContainerExits, DirectWork, NativeEnds, NativeQuiet
<1>2. run' \in [Worker -> SUBSET {"prev", "cand", "media"}]
  BY <1>0 DEF HostNext, ContainerExits, DirectWork, NativeEnds, NativeQuiet
<1>3. bench' \in [Job -> {"none", "running", "done"}]
  BY <1>0 DEF HostNext, ContainerExits, DirectWork, NativeEnds, NativeQuiet
<1> QED BY <1>1, <1>2, <1>3, StillInvariant

\* Nothing is held, locked or begun at the start.
LEMMA InitInvariant == Init => WindowsInv
<1> SUFFICES ASSUME Init PROVE WindowsInv
  OBVIOUS
<1> USE PausesAssumption, MaintenanceAssumption
<1>1. /\ registered = Worker /\ manual = [w \in Worker |-> "unset"] /\ drained = [w \in Worker |-> FALSE]
      /\ holds = {} /\ locks = {} /\ receipts = {} /\ head = [w \in Worker |-> <<>>] /\ events = 0
      /\ overridden = [w \in Worker |-> FALSE] /\ pauses = [w \in Worker |-> [drain |-> 0, clear |-> 0]]
  BY DEF Init, PausesInit
<1>2. PICK asked \in Scenarios : at = [j \in Job |-> IF j \in asked THEN "start" ELSE "ended"]
  BY DEF Init, MaintenanceInit
<1>3. /\ disk = [j \in Job |-> {}] /\ late = {} /\ submitted = [j \in Job |-> 0]
      /\ base = [j \in Job |-> [action |-> <<>>, paused |-> FALSE, pauses |-> pauses[Target(j)]]]
      /\ run = [w \in Worker |-> {"prev"}] /\ name = [w \in Worker |-> "prev"] /\ bench = [j \in Job |-> "none"]
      /\ record = [w \in Worker |-> "approved"] /\ verified = [w \in Worker |-> {"prev"}]
  BY DEF Init, MaintenanceInit
<1>4. \A j \in Job : at[j] \in {"start", "ended"} /\ disk[j] = {} /\ submitted[j] = 0 /\ Target(j) \in Worker
  BY <1>2, <1>3
<1>5. Typed
  <2>1. GateTyped BY <1>1 DEF GateTyped
  <2>2. HistoryTyped BY <1>1 DEF HistoryTyped, Actions, Pause
  <2>3. JobTyped
    <3>1. base \in [Job -> [action : Actions, paused : BOOLEAN, pauses : Pause]]
      BY <1>1, <1>3 DEF Actions, Pause
    <3>2. \A j \in Job : StepOf(j)
      BY <1>4 DEF StepOf, HourglassAt, MediaAt, ServingAt, Window
    <3>3. at = [p \in Job |-> at[p]] /\ disk = [p \in Job |-> disk[p]] BY <1>2, <1>3
    <3> QED BY <3>1, <3>2, <3>3 DEF JobTyped
  <2>4. HostTyped BY <1>3 DEF HostTyped
  <2> QED BY <2>1, <2>2, <2>3, <2>4 DEF Typed
<1>6. \A j \in Job : ~Working(j) /\ ~Touched(j)
  BY <1>4, StepNames DEF Working, Touched, CandidateSteps, OriginalSteps
<1>7. LockReceipts /\ Forgotten /\ HoldsLock /\ Exclusive
  BY <1>1, <1>6 DEF LockReceipts, Forgotten, HoldsLock, Exclusive
<1>8. PauseOwnership BY <1>1 DEF PauseOwnership, Holds, MaintenanceLocks
<1>9. FloorKept
  <2>1. ASSUME Cardinality(Worker) > 1 PROVE \E w \in Worker : TRUE
    BY <2>1, FS_EmptySet
  <2>2. \A w \in Worker : MaintenanceLocks(w) = {} BY <1>1 DEF MaintenanceLocks
  <2> QED BY <2>1, <2>2 DEF FloorKept
<1>10. Folders
  BY <1>4, <1>6 DEF Folders, Folder, HourglassFolder, MediaFolder, ServingFolder, Outcomes, Changed, CandidateSteps,
     OriginalSteps, Returning, Outside
<1>11. Released /\ Passing BY <1>3, <1>4 DEF Released, Passing
<1>12. Accounted BY <1>3 DEF Accounted, Verified, Recorded
<1>13. Looked
  <2>1. \A j \in Job : ReleaseRequest(j) # <<>> BY DEF ReleaseRequest
  <2>2. \A j \in Job : base[j].action = <<>> /\ base[j].pauses = pauses[Target(j)] BY <1>3
  <2>3. \A j \in Job : ~Used(j) BY <1>1, <2>1, <2>2 DEF Used
  <2> QED BY <2>2, <2>3 DEF Looked
<1> QED BY <1>5, <1>7, <1>8, <1>9, <1>10, <1>11, <1>12, <1>13 DEF WindowsInv

\* Every step keeps the invariant.
LEMMA NextInvariant == WindowsInv /\ [Next]_vars => WindowsInv'
<1> SUFFICES ASSUME WindowsInv, [Next]_vars PROVE WindowsInv'
  OBVIOUS
<1>1. CASE PausesNext(Up) /\ UNCHANGED <<jobVars, hostVars>>
  BY <1>1, PausesInvariant
<1>2. CASE HostNext
  BY <1>2, HostInvariant
<1>3. ASSUME NEW j \in Job, JobStep(j) PROVE WindowsInv'
  BY <1>3, ProcessInvariant
<1>4. ASSUME NEW j \in Job, NEW r \in {"lock", "release", "resume"}, ServeLate(j, r) PROVE WindowsInv'
  BY <1>4, LateInvariant
<1>5. CASE UNCHANGED vars
  <2>1. UNCHANGED <<gateVars, jobVars, name, submitted, record, verified, run, bench, events>>
    BY <1>5 DEF vars, hostVars
  <2>2. run \in [Worker -> SUBSET {"prev", "cand", "media"}] /\ bench \in [Job -> {"none", "running", "done"}]
    BY DEF WindowsInv, Typed, HostTyped
  <2> QED BY <2>1, <2>2, StillInvariant
<1> QED BY <1>1, <1>2, <1>3, <1>4, <1>5 DEF Next

\* The invariant holds in every state the gateway, the processes of the operations, the
\* operator, the agents and the hosts reach together, for all sets of workers and jobs.
THEOREM WindowsInvariant == Spec => []WindowsInv
<1>1. Init => WindowsInv BY InitInvariant
<1>2. WindowsInv /\ [Next]_vars => WindowsInv' BY NextInvariant
<1> QED BY <1>1, <1>2, PTL DEF Spec

\* A request leaves no store behind on which the gateway would refuse to start, and
\* windows that must leave another LLM serving never lock every worker together: the
\* check of Available and the drain are one step of the gateway.
THEOREM LocksCorrect == Spec => []LocksSound
<1>1. WindowsInv => LocksSound BY DEF WindowsInv, LocksSound
<1> QED BY <1>1, WindowsInvariant, PTL

\* No two operations work on one worker's server at a time although the gateway accepts
\* both locks, unless the operator released one by hand, and what an operation measures
\* or generates it submits once, whoever ran it again on its folder.
THEOREM WorkCorrect == Spec => []WorksAlone
<1>1. WindowsInv => OneWorks BY DEF WindowsInv, Exclusive, OneWorks
<1>2. WindowsInv => SubmittedOnce BY DEF WindowsInv, Typed, HostTyped, SubmittedOnce
<1> QED BY <1>1, <1>2, WindowsInvariant, PTL DEF WorksAlone

\* The state has the shape its variables are declared with.
THEOREM WindowsTypes == Spec => []TypeOK
<1>1. WindowsInv => TypeOK
  BY DEF WindowsInv, Typed, GateTyped, HostTyped, TypeOK
<1> QED BY <1>1, WindowsInvariant, PTL

\* A lock keeps its worker drained.
LEMMA PendingDrained ==
  ASSUME Typed, PauseOwnership, NEW w \in registered, NEW j \in Job, Target(j) = w, Pending(j)
  PROVE  drained[w]
<1>1. Kept(w) BY DEF Kept, Pending, Unclean, LockOf
<1>2. Agrees(w) BY OwnershipMeaning DEF Typed
<1> QED BY <1>1, <1>2 DEF Agrees

\* A worker that takes new requests serves a container that passed its checks since an
\* operation last stopped it, and the one its record names: an operation that changed its
\* server and did not verify or publish what it left still holds the lock.
THEOREM RoutingCorrect == Spec => []RoutedApproved
<1>1. WindowsInv => RoutedApproved
  <2> SUFFICES ASSUME WindowsInv PROVE RoutedApproved
    OBVIOUS
  <2>1. Typed /\ PauseOwnership /\ Accounted /\ registered \subseteq Worker BY DEF WindowsInv, Typed, GateTyped
  <2>2. ASSUME NEW w \in registered, ~drained[w], ~overridden[w] PROVE Verified(w) /\ Recorded(w)
    BY <2>1, <2>2, PendingDrained DEF Accounted
  <2> QED BY <2>2 DEF RoutedApproved, RoutedVerified, RoutedRecorded, Verified, Recorded
<1> QED BY <1>1, WindowsInvariant, PTL

\* The step that readmits a worker for an operation, in time or late, finds the operator's
\* pauses as the operation saw them when it took its window.
THEOREM DrainCorrect == Spec => DrainKept
<1> DEFINE Kept1(j) == LET w == Target(j)
                       IN (head'[w] = ReleaseRequest(j) /\ head[w] # ReleaseRequest(j))
                            => pauses[w].drain = base[j].pauses.drain
<1>1. ASSUME WindowsInv, [Next]_vars, NEW j \in Job PROVE Kept1(j)
  <2> USE MaintenanceAssumption
  <2> SUFFICES ASSUME head'[Target(j)] = ReleaseRequest(j), head[Target(j)] # ReleaseRequest(j)
               PROVE  pauses[Target(j)].drain = base[j].pauses.drain
    OBVIOUS
  <2>0. Typed /\ LockReceipts /\ Looked /\ head = [w \in Worker |-> head[w]]
    BY <1>1 DEF WindowsInv, Typed, HistoryTyped
  <2>1. CASE PausesNext(Up)
    <3>1. head'[Target(j)] = <<Operator, events>> BY <2>0, <2>1, OutsiderPauses DEF Outsider
    <3> QED BY <3>1 DEF ReleaseRequest
  <2>2. CASE HostNext \/ UNCHANGED vars
    <3>1. head' = head
      BY <2>2 DEF HostNext, ContainerExits, DirectWork, NativeEnds, NativeQuiet, gateVars, vars
    <3> QED BY <3>1
  <2>3. ASSUME NEW i \in Job, JobChange(i) PROVE pauses[Target(j)].drain = base[j].pauses.drain
    <3>1. Locking(i) BY <2>3, LockingOf DEF JobChange
    <3>2. head[Target(i)] = base[i].action /\ head' = [head EXCEPT ![Target(i)] = ReleaseRequest(i)]
      BY <3>1 DEF Locking
    <3>3. ReleaseRequest(i) = ReleaseRequest(j) BY <2>0, <3>2
    <3>4. i = j BY <3>3 DEF ReleaseRequest
    <3> QED BY <2>0, <3>2, <3>4 DEF Looked
  <2>4. (\E i \in Job : JobStep(i) \/ \E r \in {"lock", "release", "resume"} : ServeLate(i, r))
          => \E i \in Job : JobChange(i)
    BY <1>1, ProcessInvariant, LateInvariant
  <2> QED BY <1>1, <2>1, <2>2, <2>3, <2>4 DEF Next
<1>2. WindowsInv /\ [Next]_vars => [\A j \in Job : Kept1(j)]_vars
  BY <1>1
<1> HIDE DEF Kept1
<1>3. Spec => [][\A j \in Job : Kept1(j)]_vars
  BY <1>2, WindowsInvariant, PTL DEF Spec
<1> QED BY <1>3 DEF DrainKept, Kept1
=============================================================================
