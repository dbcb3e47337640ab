------------------------------- MODULE Pauses -------------------------------
(***************************************************************************)
(* Who keeps a worker out of routing: the operator's own pause, the holds  *)
(* of agents and the maintenance locks of operations, with the requests of *)
(* the private control socket that change them (agent-control.mjs and the  *)
(* control server of gateway.mjs).                                         *)
(*                                                                         *)
(* The control server runs one request at a time (`serialize`), so that a  *)
(* request with its probes is one step here, and every request ends in one *)
(* synchronous save of the store: these variables are what a restart of    *)
(* the gateway reads back.                                                 *)
(***************************************************************************)
EXTENDS Integers, FiniteSets

CONSTANTS Worker,      \* worker IDs that can be registered
          Job,         \* operation IDs; a job's lock has the job's own identity
          Busy,        \* workers with gateway work at the start
          MaxEvents    \* bound: operator, agent and client requests, faults, crashes

ASSUME PausesAssumption == MaxEvents \in Nat /\ IsFiniteSet(Worker)

\* The owner of the one lock an operator may take for itself.
Operator == "operator"

VARIABLES registered,  \* the workers of the registry
          endpoint,    \* the worker is still at the endpoint the plans reviewed
          manual,      \* manual_paused: "unset" until some request writes it
          drained,     \* drained, as saved and as routed by
          holds,       \* agent holds: [worker, id]
          locks,       \* maintenance locks: [worker, id]
          head,        \* operator_action_heads: the last operator action
          lastMaint,   \* the last maintenance receipt of the worker
          receipts,    \* maintenance_operations: the requests committed
          granted,     \* workers of the agent's grant
          agent,       \* "none", "enabled" or "revoked"
          load,        \* gateway work admitted to the worker
          overridden,  \* history: the operator released this worker's job lock
          pauses,      \* history: operator pauses by /drain-workers and by clearHold
          events

pauseVars == <<registered, endpoint, manual, drained, holds, locks, head,
               lastMaint, receipts, granted, agent, load, overridden, pauses, events>>

Holds(w) == {h \in holds : h.worker = w}
MaintenanceLocks(w) == {l \in locks : l.worker = w}
ManualPaused(w) == IF manual[w] = "unset" THEN drained[w] ELSE manual[w] = "paused"

\* One more request or fault of the outside world.
Event == events < MaxEvents /\ events' = events + 1

PausesInit ==
  /\ registered = Worker
  /\ endpoint = [w \in Worker |-> TRUE]
  /\ manual = [w \in Worker |-> "unset"]
  /\ drained = [w \in Worker |-> FALSE]
  /\ holds = {} /\ locks = {}
  /\ head = [w \in Worker |-> <<>>]
  /\ lastMaint = [w \in Worker |-> <<>>]
  /\ receipts = {}
  /\ agent \in {"none", "enabled"}
  /\ granted = IF agent = "enabled" THEN Worker ELSE {}
  /\ load = [w \in Worker |-> w \in Busy]
  /\ overridden = [w \in Worker |-> FALSE]
  /\ pauses = [w \in Worker |-> [drain |-> 0, clear |-> 0]]
  /\ events = 0

-----------------------------------------------------------------------------
(* The requests of the operator.                                           *)

\* Mutation: the operator's decision alone sets the routing.
ManualUpdateAlone(w, paused) ==
  /\ manual' = [manual EXCEPT ![w] = IF paused THEN "paused" ELSE "open"]
  /\ drained' = [drained EXCEPT ![w] = paused]

\* manualUpdate: holds and locks keep the worker drained whatever the pause.
ManualUpdate(w, paused) ==
  /\ paused \/ (Holds(w) = {} /\ MaintenanceLocks(w) = {})
  /\ manual' = [manual EXCEPT ![w] = IF paused THEN "paused" ELSE "open"]
  /\ drained' = [drained EXCEPT ![w] =
                   paused \/ Holds(w) # {} \/ MaintenanceLocks(w) # {}]

\* /drain-workers: recorded as the worker's newest operator action.
Drain(w) ==
  /\ Event /\ w \in registered
  /\ ManualUpdate(w, TRUE)
  /\ head' = [head EXCEPT ![w] = <<Operator, events>>]
  /\ pauses' = [pauses EXCEPT ![w].drain = @ + 1]
  /\ UNCHANGED <<registered, endpoint, holds, locks, lastMaint, receipts,
                 granted, agent, load, overridden>>

\* /resume-workers of a human: no expected actions; a fresh probe must pass.
Resume(w, answers) ==
  /\ Event /\ w \in registered /\ answers
  /\ ManualUpdate(w, FALSE)
  /\ head' = [head EXCEPT ![w] = <<Operator, events>>]
  /\ UNCHANGED <<registered, endpoint, holds, locks, lastMaint, receipts,
                 granted, agent, load, overridden, pauses>>

\* /add-worker: a registered worker starts drained; retained grants are gone.
AddWorker(w) ==
  /\ Event /\ w \notin registered
  /\ registered' = registered \cup {w}
  /\ drained' = [drained EXCEPT ![w] = TRUE]
  /\ UNCHANGED <<endpoint, manual, holds, locks, head, lastMaint, receipts,
                 granted, agent, load, overridden, pauses>>

\* /remove-worker and forgetWorker.
RemoveWorker(w) ==
  /\ Event /\ w \in registered
  /\ drained[w] /\ ~load[w]
  /\ Holds(w) = {} /\ MaintenanceLocks(w) = {}
  /\ registered' = registered \ {w}
  /\ manual' = [manual EXCEPT ![w] = "unset"]
  /\ drained' = [drained EXCEPT ![w] = FALSE]
  /\ granted' = granted \ {w}
  /\ UNCHANGED <<endpoint, holds, locks, head, lastMaint, receipts, agent,
                 load, overridden, pauses>>

\* /edit-endpoint: only a drained idle worker, whose new endpoint was checked
\* first; a failed change puts the old endpoint back.
EditEndpoint(w) ==
  /\ Event /\ w \in registered
  /\ drained[w] /\ ~load[w]
  /\ endpoint' = [endpoint EXCEPT ![w] = ~@]
  /\ UNCHANGED <<registered, manual, drained, holds, locks, head, lastMaint,
                 receipts, granted, agent, load, overridden, pauses>>

-----------------------------------------------------------------------------
(* Maintenance locks: the operations take theirs through these requests,   *)
(* and the operator may take one too.                                      *)

\* Workers that may serve now: `up` are the ones whose probe succeeds.
Available(up) == {w \in registered : ~drained[w] /\ w \in up}

\* Mutation: the minimum was only checked when the operation was proposed.
LockAllowedLast(w, minimum, up) == w \in registered

\* `minimum` asks for another serving worker, checked in the step that drains.
LockAllowed(w, minimum, up) ==
  /\ w \in registered
  /\ minimum => Available(up) \ {w} # {}

\* maintenanceLock: a request committed before changes nothing again.
MaintenanceLock(id, w, minimum, up) ==
  IF <<id, "lock">> \in receipts
  THEN UNCHANGED <<manual, drained, locks, lastMaint, receipts>>
  ELSE /\ LockAllowed(w, minimum, up)
       /\ manual' = [manual EXCEPT ![w] = IF ManualPaused(w) THEN "paused" ELSE "open"]
       /\ drained' = [drained EXCEPT ![w] = TRUE]
       /\ locks' = locks \cup {[worker |-> w, id |-> id]}
       /\ lastMaint' = [lastMaint EXCEPT ![w] = <<id, "lock">>]
       /\ receipts' = receipts \cup {<<id, "lock">>}

\* maintenanceRelease: the released worker stays paused for a later decision.
MaintenanceRelease(id, request) ==
  IF request \in receipts
  THEN UNCHANGED <<manual, drained, locks, lastMaint, receipts>>
  ELSE \E l \in locks :
         /\ l.id = id
         /\ locks' = locks \ {l}
         /\ manual' = [manual EXCEPT ![l.worker] = "paused"]
         /\ drained' = [drained EXCEPT ![l.worker] = TRUE]
         /\ lastMaint' = [lastMaint EXCEPT ![l.worker] = request]
         /\ receipts' = receipts \cup {request}

OperatorLock(w) ==
  /\ Event /\ <<Operator, "lock">> \notin receipts
  /\ MaintenanceLock(Operator, w, FALSE, {})
  /\ UNCHANGED <<registered, endpoint, holds, head, granted, agent, load, overridden, pauses>>

\* The operator releases any lock by its identity, an operation's included.
OperatorRelease(l) ==
  /\ Event
  /\ MaintenanceRelease(l.id, <<Operator, "release", events>>)
  /\ overridden' = [overridden EXCEPT ![l.worker] = @ \/ l.id # Operator]
  /\ UNCHANGED <<registered, endpoint, holds, head, granted, agent, load, pauses>>

\* Mutation: only the maintenance action is compared.
ResumeAllowedOverOperator(w, action, request, answers) ==
  /\ w \in registered
  /\ lastMaint[w] = request
  /\ Holds(w) = {} /\ MaintenanceLocks(w) = {}
  /\ answers

\* /resume-workers of an operation: refused when the worker's last operator or
\* maintenance action is not the one the operation observed, when somebody holds
\* the worker, or without a fresh probe.
ResumeAllowed(w, action, request, answers) ==
  /\ w \in registered
  /\ head[w] = action /\ lastMaint[w] = request
  /\ Holds(w) = {} /\ MaintenanceLocks(w) = {}
  /\ answers

ConditionalResume(w, action, request, answers) ==
  /\ ResumeAllowed(w, action, request, answers)
  /\ ManualUpdate(w, FALSE)
  /\ head' = [head EXCEPT ![w] = request]

-----------------------------------------------------------------------------
(* Agents: a grant names the workers an agent may hold and release.        *)

Grant(ws) ==
  /\ Event /\ agent = "none" /\ ws # {} /\ ws \subseteq registered
  /\ agent' = "enabled" /\ granted' = ws
  /\ UNCHANGED <<registered, endpoint, manual, drained, holds, locks, head,
                 lastMaint, receipts, load, overridden, pauses>>

Revoke ==
  /\ Event /\ agent = "enabled"
  /\ agent' = "revoked"
  /\ UNCHANGED <<registered, endpoint, manual, drained, holds, locks, head,
                 lastMaint, receipts, granted, load, overridden, pauses>>

\* act: drain.
AgentDrain(w) ==
  /\ Event /\ agent = "enabled" /\ w \in granted \cap registered
  /\ holds' = holds \cup {[worker |-> w, id |-> events + 1]}
  /\ manual' = [manual EXCEPT ![w] = IF ManualPaused(w) THEN "paused" ELSE "open"]
  /\ drained' = [drained EXCEPT ![w] = TRUE]
  /\ UNCHANGED <<registered, endpoint, locks, head, lastMaint, receipts,
                 granted, agent, load, overridden, pauses>>

\* act: resume. The worker is routed again when nothing else holds it, and then
\* only after a fresh probe.
AgentResume(h, answers) ==
  LET w == h.worker
      other == Holds(w) \ {h} # {} \/ ManualPaused(w) \/ MaintenanceLocks(w) # {}
  IN /\ Event /\ agent = "enabled" /\ w \in granted
     /\ other \/ answers
     /\ holds' = holds \ {h}
     /\ drained' = [drained EXCEPT ![w] = other]
     /\ UNCHANGED <<registered, endpoint, manual, locks, head, lastMaint,
                    receipts, granted, agent, load, overridden, pauses>>

\* clearHold: the operator takes an agent's hold over as its own pause. No
\* operator action is recorded.
ClearHold(h) ==
  /\ Event
  /\ holds' = holds \ {h}
  /\ manual' = [manual EXCEPT ![h.worker] = "paused"]
  /\ drained' = [drained EXCEPT ![h.worker] = TRUE]
  /\ pauses' = [pauses EXCEPT ![h.worker].clear = @ + 1]
  /\ UNCHANGED <<registered, endpoint, locks, head, lastMaint, receipts,
                 granted, agent, load, overridden>>

-----------------------------------------------------------------------------
(* Routing: only a worker that is not drained gets new gateway work.       *)

Admit(w, answers) ==
  /\ Event
  /\ w \in registered /\ ~drained[w] /\ answers /\ ~load[w]
  /\ load' = [load EXCEPT ![w] = TRUE]
  /\ UNCHANGED <<registered, endpoint, manual, drained, holds, locks, head,
                 lastMaint, receipts, granted, agent, overridden, pauses>>

FinishWork(w) ==
  /\ load[w]
  /\ load' = [load EXCEPT ![w] = FALSE]
  /\ UNCHANGED <<registered, endpoint, manual, drained, holds, locks, head,
                 lastMaint, receipts, granted, agent, overridden, pauses, events>>

\* Every request of the operator and the agent; `up` answer a fresh probe.
PausesNext(up) ==
  \/ \E w \in Worker :
       \/ Drain(w) \/ Resume(w, w \in up) \/ AddWorker(w) \/ RemoveWorker(w)
       \/ EditEndpoint(w) \/ OperatorLock(w)
       \/ AgentDrain(w) \/ Admit(w, w \in up) \/ FinishWork(w)
  \/ \E l \in locks : OperatorRelease(l)
  \/ \E h \in holds : AgentResume(h, h.worker \in up) \/ ClearHold(h)
  \/ \E ws \in SUBSET Worker : Grant(ws)
  \/ Revoke

-----------------------------------------------------------------------------
\* A gateway that starts refuses a store in which a worker's saved routing and
\* the owners of its pauses disagree, or in which a held or locked worker is not
\* registered (AgentControl's constructor): no request may ever leave such a
\* store behind, since the gateway could not be restarted on it.
PauseOwnership ==
  /\ \A h \in holds : h.worker \in registered
  /\ \A l \in locks : l.worker \in registered
  /\ \A w \in registered :
       (manual[w] # "unset" \/ Holds(w) # {} \/ MaintenanceLocks(w) # {})
         => drained[w] = (Holds(w) # {} \/ MaintenanceLocks(w) # {} \/ ManualPaused(w))
=============================================================================
