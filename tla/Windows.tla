------------------------------- MODULE Windows -------------------------------
(***************************************************************************)
(* Operations on the workers of one gateway, all at once: serving changes, *)
(* trials, measurements and media jobs, each a process of its own, with    *)
(* the operator's and the agents' requests, lost answers, dead processes   *)
(* and containers that stop or restart between any two of their steps.     *)
(***************************************************************************)
EXTENDS Serving, MediaCycle

vars == <<gateVars, events, jobVars, hostVars>>

Init == PausesInit /\ MaintenanceInit

JobStep(j) ==
  \/ WindowStep(j) \/ DockerStep(j) \/ DockerUnanswered(j) \/ ObservationFails(j) \/ Die(j)
  \/ ServingStep(j) \/ HourglassStep(j) \/ MediaStep(j)

Next ==
  \/ PausesNext(Up) /\ UNCHANGED <<jobVars, hostVars>>
  \/ HostNext
  \/ \E j \in Job : JobStep(j) \/ (\E r \in {"lock", "release", "resume"} : ServeLate(j, r))

Spec == Init /\ [][Next]_vars

-----------------------------------------------------------------------------
\* A job measures or changes its worker's server, until that server is verified.
Working(j) ==
  at[j] \in DOMAIN Follows \cup {"submit", "observe", "engine", "dispatch", "await", "verify", "measure", "restore",
                                 "wait-llm", "proof", "publish", "finish"}

TypeOK ==
  /\ registered \subseteq Worker
  /\ manual \in [Worker -> {"unset", "paused", "open"}]
  /\ drained \in [Worker -> BOOLEAN]
  /\ locks \subseteq [worker : Worker, id : Job \cup {Operator}]
  /\ \A h \in holds : h.worker \in Worker /\ h.id \in 1..MaxEvents
  /\ name \in [Worker -> {"prev", "cand", "none"}]
  /\ \A w \in Worker : run[w] \subseteq {"prev", "cand", "media"}
  /\ bench \in [Job -> {"none", "running", "done"}]
  /\ record \in [Worker -> {"approved", "cand", "prev"}]

\* Two operations never work on the server of one worker at the same time, one
\* measuring what the other replaces, although the gateway accepts a second lock on a
\* worker: each of them goes on only while the worker's locks are its own alone
\* (owned()), unless the operator released a lock by hand.
OneWorks ==
  \A i, j \in Job :
    (i # j /\ Target(i) = Target(j) /\ Working(i) /\ Working(j)) => overridden[Target(i)]

\* A worker that takes new requests serves from a container that passed its
\* checks since an operation last stopped it: whatever answer was lost, whichever
\* process died and whatever request arrived late, no operation's return puts an
\* unverified server into routing.
RoutedVerified ==
  \A w \in registered : ~drained[w] => overridden[w] \/ name[w] \in verified[w]

\* A worker that takes new requests serves what its configuration record says,
\* through publications whose commit is not confirmed and originals that are
\* restored after a failed candidate or a trial.
RoutedRecorded ==
  \A w \in registered :
    ~drained[w] => overridden[w] \/ name[w] = (IF record[w] = "cand" THEN "cand" ELSE "prev")

\* What takes new requests was verified since it was last stopped, and is on record.
RoutedApproved == RoutedVerified /\ RoutedRecorded

\* A measurement or generation is submitted at most once, over every run of the
\* operation on the same folder.
SubmittedOnce == \A j \in Job : submitted[j] <= 1

\* An operation works alone on its worker, and submits what it measures or generates
\* once.
WorksAlone == OneWorks /\ SubmittedOnce

\* Windows that must leave another LLM serving never take the last workers
\* together: the check and the drain are one step of the gateway.
FloorKept ==
  Cardinality(Worker) > 1 =>
    \E w \in Worker : \A l \in MaintenanceLocks(w) : l.id = Operator \/ ~Minimum(l.id)

\* The flag a worker is routed by agrees with the owners of its pauses, and their locks
\* leave a worker in service.
LocksSound == PauseOwnership /\ FloorKept

\* An operation's readmission never replaces an operator's pause that came after
\* the operation looked, whether its request arrives in time or late.
DrainKept ==
  [][\A j \in Job :
       LET w == Target(j)
       IN (head'[w] = ReleaseRequest(j) /\ head[w] # ReleaseRequest(j))
            => pauses[w].drain = base[j].pauses.drain]_vars

\* The same for every pause of the operator, the ones it makes by taking over an
\* agent's hold included.
OperatorPauseKept ==
  [][\A j \in Job :
       LET w == Target(j)
       IN (head'[w] = ReleaseRequest(j) /\ head[w] # ReleaseRequest(j))
            => pauses[w] = base[j].pauses]_vars
=============================================================================
