------------------------------ MODULE Gateway ------------------------------
(***************************************************************************)
(* The request scheduler of the gateway core (ds4-gateway/gateway.mjs):    *)
(* admission, the per-worker queues, the waiting list, conversation        *)
(* affinity and turn allocations, relocation of queued work, quarantine,   *)
(* health probes, operator pause and readmission, and shutdown.            *)
(*                                                                         *)
(* The core is one Node.js process: a callback runs to completion before   *)
(* the next one starts.  A callback's own loops (pumpWaiting over the      *)
(* waiting list, schedule over a worker's slots) are taken one iteration   *)
(* at a time; pumping, todo, cur, ix and due are the program counter of    *)
(* that callback, and no other callback may begin before it has returned.  *)
(*                                                                         *)
(* A request is named by its sequence number.  Both kinds of queue are     *)
(* kept sorted by sequence (admit and park sort, relocateQueued pushes     *)
(* onto an empty queue), so a queue is represented by the set of requests  *)
(* in it.                                                                  *)
(*                                                                         *)
(* Definitions marked "Mutant" are plausible bugs of the definition that   *)
(* follows them; PROJECT.json says which property catches which.           *)
(***************************************************************************)
EXTENDS Naturals, FiniteSets

CONSTANTS
    Node,               \* the registered workers
    Key,                \* the conversation identities clients may send
    NoKey, NoNode,      \* null
    MaxRequests,        \* bound: requests that arrive in a behaviour
    MaxEvents,          \* bound: operator, health and storage events
    Slot,               \* the request slots a worker may have: 1..n
    Capacity,           \* max_concurrent_requests of each worker
    QueueBound,         \* max_queued_per_node
    TurnSettings,       \* the conversation_turns values an operator applies
    Priorities,         \* ranks of the priorities clients send
    Routes,             \* the worker sets that model routes select
    Classes,            \* sets of advisory options; {} is a user's request
    HealthFailures,     \* health_failures
    InferenceFailures   \* inference failures in a row that quarantine

ASSUME NullAssumption == NoKey \notin Key /\ NoNode \notin Node
ASSUME BoundAssumption == /\ MaxRequests \in Nat
                          /\ MaxEvents \in Nat
                          /\ QueueBound \in Nat \ {0}
                          /\ HealthFailures \in Nat \ {0}
                          /\ InferenceFailures \in Nat \ {0}
ASSUME SlotAssumption == /\ Slot \subseteq Nat \ {0}
                         /\ \A i \in Slot : 1..i \subseteq Slot
                         /\ Capacity \in [Node -> Slot]
ASSUME SettingAssumption == /\ TurnSettings \subseteq Nat \ {0}
                            /\ Priorities \subseteq 0..2
                            /\ Routes \subseteq SUBSET Node
                            /\ Classes \subseteq SUBSET {"flexible", "noWait"}

VARIABLES
    (* requests *)
    next,       \* sequence: the number of the next request
    req,        \* what its headers say: key, route and class
    prio,       \* its priority, which an operator may change
    st,         \* where it is
    at,         \* job.node; of a waiting request job.fixedHome, the worker
                \* that parked it
    slot,       \* job.slot
    fresh,      \* requests whose job.affinity is "new" or "none"
    cancelled,  \* dispatched requests whose client has gone
    (* workers *)
    healthy, drained, quarantined, recovering, failures, inferenceFailures,
    turn,       \* slot.turnAllocation of each slot
    resuming,   \* the awaits of a /resume-workers call in flight
    (* the gateway *)
    home,       \* the durable conversation homes: AffinityStore sessions
    turns,      \* conversationTurns()
    draining, shuttingDown,
    (* the callback in progress *)
    pumping,    \* pumpWaiting is on the stack
    todo,       \* the waiting requests it has not visited yet
    cur, ix,    \* schedule(cur) is on the stack, at slot ix
    due,        \* workers to schedule before the callback returns
    (* bookkeeping of the bound MaxEvents *)
    events

reqVars == <<next, req, prio, st, at, slot, fresh, cancelled>>
nodeVars == <<healthy, drained, quarantined, recovering, failures,
              inferenceFailures, resuming>>
gateVars == <<home, turns, draining, shuttingDown>>
callVars == <<pumping, todo, cur, ix, due>>
vars == <<reqVars, nodeVars, turn, gateVars, callVars, events>>

Job == 1..MaxRequests
NodeOrNone == Node \cup {NoNode}
KeyOrNone == Key \cup {NoKey}

Request == [key : KeyOrNone, route : SUBSET Node, class : Classes]
(* A turn allocation's grace is "none" while until is 0, "armed" while the *)
(* idle gap runs and "passed" once the deadline is behind us but the timer *)
(* callback has not run yet.                                               *)
Turn == [key : KeyOrNone, rank : 0..2, used : Nat,
         grace : {"none", "armed", "passed"}]
NoTurn == [key |-> NoKey, rank |-> 0, used |-> 0, grace |-> "none"]

(* "rejected" carries the not_dispatched certificate; "finished" does not. *)
Status == {"new", "waiting", "queued", "active",
           "finished", "rejected", "cancelled"}

TypeOK ==
    /\ next \in Nat
    /\ req \in [Job -> Request]
    /\ prio \in [Job -> 0..2]
    /\ st \in [Job -> Status]
    /\ at \in [Job -> NodeOrNone]
    /\ slot \in [Job -> Slot \cup {0}]
    /\ fresh \subseteq Job
    /\ cancelled \subseteq Job
    /\ healthy \in [Node -> BOOLEAN]
    /\ drained \in [Node -> BOOLEAN]
    /\ quarantined \in [Node -> BOOLEAN]
    /\ recovering \in [Node -> BOOLEAN]
    /\ failures \in [Node -> Nat]
    /\ inferenceFailures \in [Node -> Nat]
    /\ turn \in [Node -> [Slot -> Turn]]
    /\ resuming \in [Node -> {"no", "probing", "verifying"}]
    /\ home \in [Key -> NodeOrNone]
    /\ turns \in TurnSettings
    /\ draining \in BOOLEAN
    /\ shuttingDown \in BOOLEAN
    /\ pumping \in BOOLEAN
    /\ todo \subseteq Job
    /\ cur \in NodeOrNone
    /\ ix \in Nat /\ (cur # NoNode => ix > 0)
    /\ due \subseteq Node
    /\ events \in Nat

----------------------------------------------------------------------------
(* What the code reads of the state.                                       *)

Waiting == {j \in Job : st[j] = "waiting"}
Queue(n) == {j \in Job : st[j] = "queued" /\ at[j] = n}
Active(n) == {j \in Job : st[j] = "active" /\ at[j] = n}
ActiveIn(n, i) == {j \in Active(n) : slot[j] = i}
ParkedFor(n) == {j \in Waiting : at[j] = n}

HasCapacity(n) == \E i \in 1..Capacity[n] : ActiveIn(n, i) = {}
Serviceable(n) == healthy[n] /\ ~quarantined[n] /\ ~recovering[n]

Flexible(j) == "flexible" \in req[j].class
SameKey(i, j) == req[i].key # NoKey /\ req[i].key = req[j].key
KeyActive(k) == \E j \in Job : st[j] = "active" /\ req[j].key = k
(* sessionWork: the conversation has queued or dispatched work somewhere.  *)
SessionWork(k) == {j \in Job : st[j] \in {"queued", "active"} /\ req[j].key = k}
SessionBusy(k) == k # NoKey /\ SessionWork(k) # {}
(* sessionWork returns one of the workers that hold work of conversation   *)
(* k: the first that runs it, or else the first that queues it.            *)
OutstandingNode(k, n) ==
    IF KeyActive(k)
    THEN \E j \in SessionWork(k) : st[j] = "active" /\ at[j] = n
    ELSE \E j \in SessionWork(k) : at[j] = n

Home(k) == IF k = NoKey THEN NoNode ELSE home[k]

(* priorityIndex: only the earliest request of each conversation competes; *)
(* the highest rank wins, the earliest request among equals.               *)
Heads(S) == {j \in S : \A i \in S : SameKey(i, j) => j <= i}
PriorityIndex(S, j) ==
    /\ j \in Heads(S)
    /\ \A i \in Heads(S) : prio[i] < prio[j] \/ (prio[i] = prio[j] /\ j <= i)

(* pick: its order among the eligible workers (load, number of homes,      *)
(* direct-use reservation) is left open; the previous home goes last.      *)
Pickable(r) == {n \in r : healthy[n] /\ ~drained[n]}
Pick(r, exclude) ==
    IF Pickable(r) \ {exclude} # {} THEN Pickable(r) \ {exclude} ELSE Pickable(r)

(* The turn allocation t of a free slot of n once queuedChoice has dropped  *)
(* it on a passed deadline, an unserviceable worker or shutdown.            *)
Kept(n, t) ==
    IF t.grace = "passed" \/ ~Serviceable(n) \/ shuttingDown THEN NoTurn ELSE t
KeptTurn(n, i) == Kept(n, turn[n][i])

(* Mutant: the turn allocations of the other slots are not looked at.      *)
EligibleDespiteTurn(n, i, S, T) ==
    {j \in S : req[j].key = NoKey \/ ~KeyActive(req[j].key)}

(* The requests of S that slot i of n may run when the slots hold the      *)
(* allocations T: unaffined, or of a conversation that is not running and  *)
(* holds no turn in another slot.                                          *)
Eligible(n, i, S, T) ==
    {j \in S : req[j].key = NoKey \/
        /\ ~KeyActive(req[j].key)
        /\ \A o \in 1..Capacity[n] : o # i =>
              ~(T[o].key = req[j].key /\ T[o].used < turns)}

(* The allocation t gives way to f: the conversation's own oldest eligible *)
(* request, or the allocation when there is none, has a lower rank.        *)
Outranked(t, Mine, f) ==
    IF Mine = {} THEN t.rank < prio[f] ELSE \A m \in Heads(Mine) : prio[m] < prio[f]

(* queuedChoice returns j for slot i of worker n and the queue S.          *)
QueuedChoice(n, i, S, T, j) ==
    LET t == Kept(n, T[i])
        E == Eligible(n, i, S, T)
        Mine == {m \in E : req[m].key = t.key}
    IN  \E f \in E :
          /\ PriorityIndex(E, f)
          /\ \/ (t.key = NoKey \/ Outranked(t, Mine, f)) /\ j = f
             \/ /\ t.key # NoKey /\ ~Outranked(t, Mine, f) /\ t.used < turns
                /\ \/ j \in Heads(Mine)
                   \/ Mine = {} /\ t.grace # "armed" /\ j = f
             \/ /\ t.key # NoKey /\ ~Outranked(t, Mine, f) /\ t.used >= turns
                /\ \/ PriorityIndex(E \ Mine, j) /\ prio[j] = prio[f]
                   \/ /\ \A o \in E \ Mine : PriorityIndex(E \ Mine, o) => prio[o] # prio[f]
                      /\ j = f

(* queuedChoice returns null: nothing is eligible, or the slot is kept for *)
(* the continuation of its conversation.                                   *)
QueuedNothing(n, i, S, T) ==
    LET t == Kept(n, T[i])
        E == Eligible(n, i, S, T)
    IN  \/ E = {}
        \/ /\ t.key # NoKey /\ t.used < turns /\ t.grace = "armed"
           /\ \A m \in E : req[m].key # t.key
           /\ \A f \in E : PriorityIndex(E, f) => prio[f] <= t.rank

(* The allocation queuedChoice leaves in slot i: it is kept when the slot  *)
(* has nothing to run or continues its own conversation.                   *)
ChoiceTurn(n, i, S, T) ==
    LET t == Kept(n, T[i])
        E == Eligible(n, i, S, T)
    IN  IF \/ QueuedNothing(n, i, S, T)
           \/ t.used < turns /\ \E j \in E : req[j].key = t.key /\ QueuedChoice(n, i, S, T, j)
        THEN t ELSE NoTurn

(* canStartNow: previewed slot by slot, a free slot of n would choose j    *)
(* out of S.                                                               *)
CanStartNow(n, j, S) ==
    LET Preview[i \in 0..Capacity[n]] ==
            IF i = 0 THEN turn[n]
            ELSE IF ActiveIn(n, i) # {} THEN Preview[i - 1]
            ELSE [Preview[i - 1] EXCEPT ![i] = ChoiceTurn(n, i, S, Preview[i - 1])]
    IN  \E i \in 1..Capacity[n] :
            ActiveIn(n, i) = {} /\ QueuedChoice(n, i, S, Preview[i - 1], j)

(* Mutant: a free slot is enough, although it may be kept for a turn.      *)
FreeSlotNodes(j, r) ==
    {n \in r : Serviceable(n) /\ ~drained[n] /\ HasCapacity(n)}

(* freeGenieNode: the workers on which a flexible advisory request j could *)
(* start at once, ahead of everything queued or parked there.              *)
FreeGenieNodes(j, r) ==
    {n \in r : /\ Serviceable(n) /\ ~drained[n]
               /\ CanStartNow(n, j, Queue(n) \cup ParkedFor(n) \cup {j})}

----------------------------------------------------------------------------
(* The callback in progress.                                               *)

(* No callback is running: the event loop may deliver the next one.        *)
Quiet == ~pumping /\ cur = NoNode /\ due = {}

(* pumpWaiting() at the end of a callback, then schedule(n) for n in ns.   *)
PumpThenSchedule(ns) ==
    /\ pumping' = ~shuttingDown
    /\ todo' = IF shuttingDown THEN {} ELSE {j \in Job : st'[j] = "waiting"}
    /\ due' = ns
    /\ UNCHANGED <<cur, ix>>

(* schedule(n), called by the statement just executed.                     *)
CallSchedule(n) == cur' = n /\ ix' = 1

(* The request is over.  Nothing reads the other fields of its job again.  *)
Leave(j, result) ==
    /\ st' = [st EXCEPT ![j] = result]
    /\ at' = [at EXCEPT ![j] = NoNode]
    /\ slot' = [slot EXCEPT ![j] = 0]
    /\ fresh' = fresh \ {j}

(* park(job, node, reason); a stopping gateway refuses the request.        *)
Park(j, n) ==
    /\ st' = [st EXCEPT ![j] = IF shuttingDown THEN "rejected" ELSE "waiting"]
    /\ at' = [at EXCEPT ![j] = IF shuttingDown THEN NoNode ELSE n]

(* Mutant: the home of a request without a conversation is recorded too.   *)
AdmitNullKey(j, k, n) ==
    /\ home' = [x \in DOMAIN home \cup {k} |-> IF x = k THEN n ELSE home[x]]
    /\ st' = [st EXCEPT ![j] = "queued"]
    /\ at' = [at EXCEPT ![j] = n]
    /\ CallSchedule(n)
    /\ UNCHANGED events

(* admit(job, node): the durable home is written first; when that fails    *)
(* the request is refused and nothing else happens.                        *)
Admit(j, k, n) ==
    \/ /\ k # NoKey /\ home[k] # n
       /\ events < MaxEvents
       /\ events' = events + 1
       /\ st' = [st EXCEPT ![j] = "rejected"]
       /\ at' = [at EXCEPT ![j] = NoNode]
       /\ UNCHANGED <<home, cur, ix>>
    \/ /\ home' = IF k = NoKey THEN home ELSE [home EXCEPT ![k] = n]
       /\ st' = [st EXCEPT ![j] = "queued"]
       /\ at' = [at EXCEPT ![j] = n]
       /\ CallSchedule(n)
       /\ UNCHANGED events

(* The turn allocation of slot i of n after it was given to request j.     *)
DispatchedTurn(n, i, j) ==
    LET t == KeptTurn(n, i) IN
    IF turns = 1 \/ req[j].key = NoKey THEN NoTurn
    ELSE [key |-> req[j].key, rank |-> prio[j], grace |-> "none",
          used |-> IF t.key = req[j].key /\ t.used < turns THEN t.used + 1 ELSE 1]

(* The slot takes the request and dispatch(node, job) sends it upstream.   *)
Dispatch(n, i, j) ==
    /\ st' = [st EXCEPT ![j] = "active"]
    /\ slot' = [slot EXCEPT ![j] = i]
    /\ fresh' = fresh \ {j}
    /\ turn' = [turn EXCEPT ![n][i] = DispatchedTurn(n, i, j)]

(* One step of schedule(cur).  The loop ends with the slots or the queue.  *)
ScheduleReturns ==
    /\ cur # NoNode
    /\ ix > Capacity[cur] \/ Queue(cur) = {}
    /\ cur' = NoNode
    /\ ix' = 0
    /\ UNCHANGED <<reqVars, nodeVars, turn, gateVars, pumping, todo, due, events>>

(* The slot is busy, or queuedChoice finds nothing for it to run.          *)
ScheduleSkips ==
    /\ cur # NoNode
    /\ ix <= Capacity[cur] /\ Queue(cur) # {}
    /\ IF ActiveIn(cur, ix) # {}
       THEN UNCHANGED turn
       ELSE /\ QueuedNothing(cur, ix, Queue(cur), turn[cur])
            /\ turn' = [turn EXCEPT ![cur][ix] = KeptTurn(cur, ix)]
    /\ ix' = ix + 1
    /\ UNCHANGED <<reqVars, nodeVars, gateVars, pumping, todo, cur, due, events>>

(* An unserviceable worker hands its chosen request to the waiting list    *)
(* and the loop looks at the same slot again.                              *)
ScheduleParks ==
    /\ cur # NoNode
    /\ ix <= Capacity[cur] /\ ActiveIn(cur, ix) = {}
    /\ ~Serviceable(cur)
    /\ \E j \in Queue(cur) :
          /\ QueuedChoice(cur, ix, Queue(cur), turn[cur], j)
          /\ Park(j, cur)
    /\ turn' = [turn EXCEPT ![cur][ix] = NoTurn]
    /\ UNCHANGED <<next, req, prio, slot, fresh, cancelled,
                   nodeVars, gateVars, callVars, events>>

ScheduleDispatches ==
    /\ cur # NoNode
    /\ ix <= Capacity[cur] /\ ActiveIn(cur, ix) = {}
    /\ Serviceable(cur)
    /\ \E j \in Queue(cur) :
          /\ QueuedChoice(cur, ix, Queue(cur), turn[cur], j)
          /\ Dispatch(cur, ix, j)
    /\ ix' = ix + 1
    /\ UNCHANGED <<next, req, prio, at, cancelled,
                   nodeVars, gateVars, pumping, todo, cur, due, events>>

----------------------------------------------------------------------------
(* pumpWaiting visits the waiting requests in priority order.              *)

(* The conversation's home, when it cannot take the request any more.      *)
HomeLost(j) ==
    LET h == Home(req[j].key) IN
    h # NoNode /\ (h \notin req[j].route \/ drained[h] \/ ~Serviceable(h))

(* The workers pumpWaiting may choose for the waiting request j.           *)
PumpTargets(j) ==
    LET k == req[j].key
        h == Home(k)
        f == at[j]
    IN  IF Flexible(j) THEN FreeGenieNodes(j, req[j].route)
        ELSE IF \E i \in Waiting : i < j /\ SameKey(i, j) THEN {}
        ELSE IF f # NoNode THEN IF Serviceable(f) /\ ~drained[f] THEN {f} ELSE {}
        ELSE IF HomeLost(j)
        THEN IF SessionBusy(k) THEN {} ELSE Pick(req[j].route, h)
        ELSE IF h # NoNode THEN {h} ELSE Pick(req[j].route, NoNode)

(* Mutant: max_queued_per_node is not enforced on waiting requests.        *)
PumpAdmitsUnbounded(j, n) ==
    Flexible(j) \/ (SessionBusy(req[j].key) => OutstandingNode(req[j].key, n))

(* It admits j to the worker n it chose, or leaves it waiting because of   *)
(* work of the conversation elsewhere or a full queue.                     *)
PumpAdmits(j, n) ==
    \/ Flexible(j)
    \/ /\ SessionBusy(req[j].key) => OutstandingNode(req[j].key, n)
       /\ \/ Cardinality(Queue(n)) < QueueBound
          \/ CanStartNow(n, j, Queue(n) \cup {j})

(* pumpWaiting gave the request another home than its durable one.         *)
Reassigned(j) ==
    /\ ~Flexible(j) /\ at[j] = NoNode
    /\ \A i \in Waiting : SameKey(i, j) => j <= i
    /\ HomeLost(j) /\ ~SessionBusy(req[j].key)

PumpVisits ==
    /\ cur = NoNode /\ pumping
    /\ \E j \in todo :
          /\ PriorityIndex(todo, j)
          /\ todo' = todo \ {j}
          /\ fresh' = IF Reassigned(j) THEN fresh \ {j} ELSE fresh
          /\ \/ \E n \in PumpTargets(j) : PumpAdmits(j, n) /\ Admit(j, req[j].key, n)
             \/ /\ \E n \in PumpTargets(j) \cup {NoNode} :
                      IF n = NoNode THEN PumpTargets(j) = {} ELSE ~PumpAdmits(j, n)
                /\ UNCHANGED <<st, at, home, cur, ix, events>>
    /\ UNCHANGED <<next, req, prio, slot, cancelled, nodeVars, turn,
                   turns, draining, shuttingDown, pumping, due>>

(* eligibleDestination                                                     *)
EligibleDestination(n) ==
    Serviceable(n) /\ ~drained[n] /\ Active(n) = {} /\ Queue(n) = {}

(* conflictingSessionWork                                                  *)
ConflictingSessionWork(j) ==
    \E i \in Job \ {j} : SameKey(i, j) /\ st[i] \in {"waiting", "queued", "active"}

(* relocationDecision: request j may move from worker s to worker d.       *)
RelocationOffer(j, s, d) ==
    /\ PriorityIndex(Queue(s), j)
    /\ Active(s) # {}
    /\ ~ConflictingSessionWork(j)
    /\ d # s /\ d \in req[j].route /\ EligibleDestination(d)
    /\ req[j].key # NoKey => home[req[j].key] = s

(* Mutant: the durable home is not moved with the request.                 *)
RelocateUnrecorded(j, d) ==
    /\ at' = [at EXCEPT ![j] = d]
    /\ fresh' = fresh \ {j}
    /\ CallSchedule(d)
    /\ UNCHANGED <<home, events>>

(* relocateQueued persists the new owner first; a failed write leaves the  *)
(* request where it is.                                                    *)
Relocate(j, d) ==
    \/ /\ req[j].key # NoKey
       /\ events < MaxEvents
       /\ events' = events + 1
       /\ UNCHANGED <<home, at, fresh, cur, ix>>
    \/ /\ home' = IF req[j].key = NoKey THEN home ELSE [home EXCEPT ![req[j].key] = d]
       /\ at' = [at EXCEPT ![j] = d]
       /\ fresh' = fresh \ {j}
       /\ CallSchedule(d)
       /\ UNCHANGED events

(* rebalanceUndispatched, the last statement of pumpWaiting, takes the     *)
(* best offer: the highest rank, then the longest wait.  Requests in late  *)
(* have waited automatic_affinity_rebalance_min_wait_ms.                   *)
RebalanceUndispatched ==
    LET Offers == {j \in Job : \E s \in Node : \E d \in Node : RelocationOffer(j, s, d)}
    IN  \/ /\ draining \/ shuttingDown \/ Offers \cap fresh = {}
           /\ UNCHANGED <<home, at, fresh, cur, ix, events>>
        \/ /\ ~draining /\ ~shuttingDown
           /\ \E late \in SUBSET (Offers \ fresh) :
                \E j \in (Offers \cap fresh) \cup late :
                  /\ \A i \in (Offers \cap fresh) \cup late :
                        prio[i] < prio[j] \/ (prio[i] = prio[j] /\ j <= i)
                  /\ \E s \in Node : \E d \in Node : RelocationOffer(j, s, d) /\ Relocate(j, d)

PumpReturns ==
    /\ cur = NoNode /\ pumping /\ todo = {}
    /\ pumping' = FALSE
    /\ RebalanceUndispatched
    /\ UNCHANGED <<next, req, prio, st, slot, cancelled, nodeVars, turn,
                   turns, draining, shuttingDown, todo, due>>

(* The callback goes on to schedule(n).                                    *)
ScheduleCalled ==
    /\ cur = NoNode /\ ~pumping
    /\ \E n \in due : CallSchedule(n) /\ due' = due \ {n}
    /\ UNCHANGED <<reqVars, nodeVars, turn, gateVars, pumping, todo, events>>

CallbackStep == \/ ScheduleReturns \/ ScheduleSkips \/ ScheduleParks
                \/ ScheduleDispatches \/ PumpVisits \/ PumpReturns
                \/ ScheduleCalled

----------------------------------------------------------------------------
(* Callbacks of the client's connection.                                   *)

(* Mutant: waiting requests of the conversation are not looked at.         *)
ArrivalTargetsOvertaking(j) ==
    LET k == req[j].key
        h == Home(k)
        lost == h # NoNode /\ (h \notin req[j].route \/ ~healthy[h] \/ drained[h])
    IN  IF Flexible(j) THEN FreeGenieNodes(j, req[j].route)
        ELSE IF lost THEN IF SessionBusy(k) THEN {} ELSE Pick(req[j].route, h)
        ELSE IF h # NoNode THEN {h} ELSE Pick(req[j].route, NoNode)

(* The workers the request handler may choose for the new request j; none  *)
(* sends it to the waiting list.                                           *)
ArrivalTargets(j) ==
    LET k == req[j].key
        h == Home(k)
        lost == h # NoNode /\ (h \notin req[j].route \/ ~healthy[h] \/ drained[h])
    IN  IF Flexible(j) THEN FreeGenieNodes(j, req[j].route)
        ELSE IF \E i \in Waiting : SameKey(i, j) THEN {}
        ELSE IF lost THEN IF SessionBusy(k) THEN {} ELSE Pick(req[j].route, h)
        ELSE IF h # NoNode THEN {h} ELSE Pick(req[j].route, NoNode)

(* x-dsg-review-no-wait: refused unless the chosen worker is free now.     *)
NoWaitRefuses(j, n) ==
    /\ "noWait" \in req[j].class
    /\ \/ req[j].key # NoKey \/ n = NoNode
       \/ ~HasCapacity(n) \/ Queue(n) # {} \/ ParkedFor(n) # {}
       \/ quarantined[n] \/ recovering[n]

QueueFull(n) ==
    IF n = NoNode
    THEN Cardinality(Waiting) >= Cardinality(Node) * QueueBound
    ELSE Cardinality(Queue(n)) + Cardinality(ParkedFor(n)) >= QueueBound

(* The request handler.  A refusal carries the not_dispatched certificate. *)
RequestArrives ==
    /\ Quiet /\ next \in Job
    /\ next' = next + 1
    /\ \/ /\ draining
          /\ st' = [st EXCEPT ![next] = "rejected"]
          /\ UNCHANGED <<at, fresh, home, cur, ix, events>>
       \/ /\ ~draining
          /\ \E n \in IF ArrivalTargets(next) = {} THEN {NoNode} ELSE ArrivalTargets(next) :
               IF NoWaitRefuses(next, n) \/ QueueFull(n)
               THEN /\ st' = [st EXCEPT ![next] = "rejected"]
                    /\ UNCHANGED <<at, fresh, home, cur, ix, events>>
               ELSE /\ fresh' = IF Home(req[next].key) = NoNode
                                THEN fresh \cup {next} ELSE fresh
                    /\ \/ /\ n # NoNode
                          /\ Admit(next, req[next].key, n)
                       \/ /\ n = NoNode
                          /\ Park(next, NoNode)
                          /\ UNCHANGED <<home, cur, ix, events>>
    /\ UNCHANGED <<req, prio, slot, cancelled, nodeVars, turn, turns,
                   draining, shuttingDown, pumping, todo, due>>

(* Mutant: the slot of a dispatched request is free as soon as its client  *)
(* has gone, while the worker still runs it.                               *)
ClientCancelsReleasing(j) ==
    /\ Quiet
    /\ st[j] \in {"waiting", "queued", "active"}
    /\ Leave(j, "cancelled")
    /\ PumpThenSchedule({})
    /\ UNCHANGED <<next, req, prio, cancelled, nodeVars, turn, gateVars, events>>

(* cancel: the client closed its connection.  An undispatched request      *)
(* leaves its queue; for a dispatched one both upstream halves are         *)
(* destroyed and it keeps its slot until they have closed.                 *)
ClientCancels(j) ==
    /\ Quiet
    /\ \/ /\ st[j] \in {"waiting", "queued"}
          /\ Leave(j, "cancelled")
          /\ PumpThenSchedule({})
          /\ UNCHANGED cancelled
       \/ /\ st[j] = "active" /\ j \notin cancelled
          /\ cancelled' = cancelled \cup {j}
          /\ UNCHANGED <<st, at, slot, fresh, callVars>>
    /\ UNCHANGED <<next, req, prio, nodeVars, turn, gateVars, events>>

(* job.queueTimer: the queue waiting allowance of the request ran out.     *)
QueueTimeout(j) ==
    /\ Quiet
    /\ st[j] \in {"waiting", "queued"}
    /\ Leave(j, "rejected")
    /\ PumpThenSchedule({})
    /\ UNCHANGED <<next, req, prio, cancelled, nodeVars, turn, gateVars, events>>

----------------------------------------------------------------------------
(* Callbacks of the upstream connection of a dispatched request.           *)

(* quarantine(node, reason): a worker that cannot be recorded as           *)
(* quarantined stops admission to the whole gateway.                       *)
Quarantine(n) ==
    \/ quarantined[n] /\ UNCHANGED <<quarantined, healthy, draining, events>>
    \/ /\ ~quarantined[n]
       /\ quarantined' = [quarantined EXCEPT ![n] = TRUE]
       /\ healthy' = [healthy EXCEPT ![n] = FALSE]
       /\ \/ UNCHANGED <<draining, events>>
          \/ events < MaxEvents /\ events' = events + 1 /\ draining' = TRUE

(* finishTurn                                                              *)
FinishedTurn(n, i, outcome) ==
    IF outcome # "complete" \/ shuttingDown \/ turn[n][i].key = NoKey THEN NoTurn
    ELSE IF turn[n][i].used >= turns THEN turn[n][i]
    ELSE [turn[n][i] EXCEPT !.grace = "armed"]

(* finish(outcome) of dispatch.  "fault" is an accelerator fault seen in   *)
(* the response, "failure" an outcome that counts against the worker and   *)
(* "other" one that does not: guidance, a client error, a cancellation.    *)
Finish(j, outcome, result) ==
    LET n == at[j] IN
    /\ \/ outcome = "fault" /\ Quarantine(n) /\ UNCHANGED inferenceFailures
       \/ /\ outcome = "failure"
          /\ inferenceFailures[n] + 1 >= InferenceFailures
          /\ Quarantine(n)
          /\ UNCHANGED inferenceFailures
       \/ /\ outcome = "failure"
          /\ inferenceFailures[n] + 1 < InferenceFailures
          /\ inferenceFailures' = [inferenceFailures EXCEPT ![n] = @ + 1]
          /\ UNCHANGED <<quarantined, healthy, draining, events>>
       \/ /\ outcome = "complete"
          /\ inferenceFailures' = [inferenceFailures EXCEPT ![n] = 0]
          /\ UNCHANGED <<quarantined, healthy, draining, events>>
       \/ /\ outcome = "other"
          /\ UNCHANGED <<quarantined, healthy, draining, events, inferenceFailures>>
    /\ Leave(j, result)
    /\ cancelled' = cancelled \ {j}
    /\ turn' = [turn EXCEPT ![n][slot[j]] = FinishedTurn(n, slot[j], outcome)]
    /\ PumpThenSchedule({n})
    /\ UNCHANGED <<next, req, prio, drained,
                   recovering, failures, resuming, home, turns, shuttingDown>>

(* The upstream answered, failed or was closed.  A refused connection is   *)
(* answered with the not_dispatched certificate (module Dispatch).         *)
UpstreamEnds(j) ==
    /\ Quiet /\ st[j] = "active"
    /\ \E outcome \in {"complete", "fault", "failure", "other"} :
          /\ j \in cancelled => outcome # "failure"
          /\ \/ Finish(j, outcome, "finished")
             \/ outcome = "failure" /\ Finish(j, outcome, "rejected")

(* performance.now() passes the end of an idle gap.                        *)
TurnDeadlinePasses(n, i) ==
    /\ turn[n][i].grace = "armed"
    /\ turn' = [turn EXCEPT ![n][i].grace = "passed"]
    /\ UNCHANGED <<reqVars, nodeVars, gateVars, callVars, events>>

(* Mutant: the timer releases the turn without schedule(node).             *)
TurnTimerUnscheduled(n, i) ==
    /\ Quiet
    /\ turn[n][i].grace # "none"
    /\ turn' = [turn EXCEPT ![n][i] = NoTurn]
    /\ UNCHANGED <<reqVars, nodeVars, gateVars, events>>
    /\ PumpThenSchedule({})

(* slot.turnTimer                                                          *)
TurnTimer(n, i) ==
    /\ Quiet
    /\ turn[n][i].grace # "none"
    /\ turn' = [turn EXCEPT ![n][i] = NoTurn]
    /\ UNCHANGED <<reqVars, nodeVars, gateVars, events>>
    /\ PumpThenSchedule({n})

(* waitingTimer, once a second.                                            *)
WaitingTimer ==
    /\ Quiet /\ ~shuttingDown
    /\ UNCHANGED <<reqVars, nodeVars, turn, gateVars, events>>
    /\ PumpThenSchedule({})

----------------------------------------------------------------------------
(* Health probes, recovery and the operator's control socket.              *)

(* An operator, health or storage event; MaxEvents bounds their number.    *)
Event == Quiet /\ events < MaxEvents /\ events' = events + 1

ProbeSucceeds(n) ==
    /\ Quiet
    /\ failures' = [failures EXCEPT ![n] = 0]
    /\ healthy' = [healthy EXCEPT ![n] = ~quarantined[n] /\ ~recovering[n]]
    /\ UNCHANGED <<reqVars, drained, quarantined, recovering, inferenceFailures,
                   resuming, turn, gateVars, callVars, events>>

ProbeFails(n) ==
    /\ Event
    /\ IF failures[n] + 1 >= HealthFailures
       THEN healthy' = [healthy EXCEPT ![n] = FALSE] /\ UNCHANGED failures
       ELSE failures' = [failures EXCEPT ![n] = @ + 1] /\ UNCHANGED healthy
    /\ UNCHANGED <<reqVars, drained, quarantined, recovering, inferenceFailures,
                   resuming, turn, gateVars, callVars>>

(* The control socket's requests are serialised: one waits for the awaits  *)
(* of the one before it.                                                   *)
ControlFree == \A n \in Node : resuming[n] = "no"

(* drainNodes(ids, true): admitted work stays where it is.                 *)
DrainWorker(n) ==
    /\ Event /\ ControlFree
    /\ ~drained[n]
    /\ drained' = [drained EXCEPT ![n] = TRUE]
    /\ UNCHANGED <<reqVars, healthy, quarantined, recovering, failures,
                   inferenceFailures, resuming, turn, gateVars, callVars>>

(* /resume-workers up to its first await: recovery must not own the worker. *)
ResumeBegins(n) ==
    /\ Event /\ ControlFree
    /\ ~recovering[n]
    /\ drained[n] \/ quarantined[n]
    /\ resuming' = [resuming EXCEPT ![n] = "probing"]
    /\ UNCHANGED <<reqVars, healthy, drained, quarantined, recovering, failures,
                   inferenceFailures, turn, gateVars, callVars>>

(* The fresh probe returned: a quarantined, idle worker goes on to the     *)
(* generation check, any other is enabled at once.                         *)
ResumeProbed(n) ==
    /\ Quiet /\ resuming[n] = "probing"
    /\ \/ /\ quarantined[n] /\ Active(n) = {} /\ Queue(n) = {}
          /\ resuming' = [resuming EXCEPT ![n] = "verifying"]
          /\ UNCHANGED drained
       \/ /\ ~quarantined[n]
          /\ resuming' = [resuming EXCEPT ![n] = "no"]
          /\ drained' = [drained EXCEPT ![n] = FALSE]
    /\ UNCHANGED <<reqVars, healthy, quarantined, recovering, failures,
                   inferenceFailures, turn, gateVars, callVars, events>>

(* The generation check returned its proof: the worker is readmitted.      *)
ResumeCommits(n) ==
    /\ Quiet /\ resuming[n] = "verifying"
    /\ ~draining /\ ~shuttingDown
    /\ resuming' = [resuming EXCEPT ![n] = "no"]
    /\ quarantined' = [quarantined EXCEPT ![n] = FALSE]
    /\ inferenceFailures' = [inferenceFailures EXCEPT ![n] = 0]
    /\ healthy' = [healthy EXCEPT ![n] = TRUE]
    /\ drained' = [drained EXCEPT ![n] = FALSE]
    /\ UNCHANGED <<reqVars, recovering, failures, turn, gateVars, callVars, events>>

(* The probe or the generation check failed: nothing was changed.          *)
ResumeFails(n) ==
    /\ Quiet /\ resuming[n] # "no"
    /\ resuming' = [resuming EXCEPT ![n] = "no"]
    /\ UNCHANGED <<reqVars, healthy, drained, quarantined, recovering, failures,
                   inferenceFailures, turn, gateVars, callVars, events>>

(* Recovery.request: one operation at a time takes an idle worker that has *)
(* failed, or a paused one for a drill.                                    *)
RecoveryBegins(n) ==
    /\ Event
    /\ ~draining /\ ~shuttingDown
    /\ \A m \in Node : ~recovering[m]
    /\ Active(n) = {} /\ Queue(n) = {}
    /\ drained[n] \/ quarantined[n] \/ ~healthy[n]
    /\ recovering' = [recovering EXCEPT ![n] = TRUE]
    /\ healthy' = [healthy EXCEPT ![n] = FALSE]
    /\ UNCHANGED <<reqVars, drained, quarantined, failures, inferenceFailures,
                   resuming, turn, gateVars, callVars>>

(* Recovery.execute ends: the worker is reinstated, or left out of service *)
(* because the operation failed, was overridden or the worker is paused.   *)
RecoveryEnds(n) ==
    /\ Quiet /\ recovering[n]
    /\ recovering' = [recovering EXCEPT ![n] = FALSE]
    /\ \/ /\ healthy' = [healthy EXCEPT ![n] = FALSE]
          /\ UNCHANGED <<quarantined, failures, inferenceFailures>>
       \/ /\ ~drained[n] /\ Active(n) = {} /\ Queue(n) = {}
          /\ ~draining /\ ~shuttingDown
          /\ quarantined' = [quarantined EXCEPT ![n] = FALSE]
          /\ inferenceFailures' = [inferenceFailures EXCEPT ![n] = 0]
          /\ healthy' = [healthy EXCEPT ![n] = TRUE]
          /\ failures' = [failures EXCEPT ![n] = 0]
    /\ UNCHANGED <<reqVars, drained, resuming, turn, gateVars, callVars, events>>

(* setJobPriority                                                          *)
SetJobPriority(j, p) ==
    /\ Event /\ ControlFree
    /\ st[j] \in {"waiting", "queued"} /\ prio[j] # p
    /\ prio' = [prio EXCEPT ![j] = p]
    /\ UNCHANGED <<next, req, st, at, slot, fresh, cancelled,
                   nodeVars, turn, gateVars>>
    /\ PumpThenSchedule(Node)

(* relocateQueued on an operator's or Genie's exact offer.                 *)
RelocateQueued(j, s, d) ==
    /\ Quiet /\ ControlFree
    /\ RelocationOffer(j, s, d)
    /\ Relocate(j, d)
    /\ UNCHANGED <<next, req, prio, st, slot, cancelled, nodeVars, turn,
                   turns, draining, shuttingDown, pumping, todo, due>>

(* The allocation of slot i of n when the allowance changes to t.          *)
RecountedTurn(n, i, t) ==
    LET a == turn[n][i] IN
    IF ActiveIn(n, i) # {}
    THEN LET j == CHOOSE j \in ActiveIn(n, i) : TRUE IN
         IF a.key = NoKey /\ t > 1 /\ req[j].key # NoKey
         THEN [key |-> req[j].key, rank |-> prio[j], used |-> 1, grace |-> "none"]
         ELSE a
    ELSE IF a.used >= turns /\ t > turns THEN NoTurn
    ELSE IF a.used >= t THEN [a EXCEPT !.grace = "none"]
    ELSE a

(* Mutant: the new allowance is applied without schedule(node).            *)
SetConversationTurnsUnscheduled(t) ==
    /\ Event /\ ControlFree
    /\ ~draining /\ ~shuttingDown /\ t # turns
    /\ turns' = t
    /\ turn' = [n \in Node |-> [i \in Slot |-> RecountedTurn(n, i, t)]]
    /\ UNCHANGED <<reqVars, nodeVars, home, draining, shuttingDown,
                   pumping, todo, cur, ix, due>>

(* setConversationTurns                                                    *)
SetConversationTurns(t) ==
    /\ Event /\ ControlFree
    /\ ~draining /\ ~shuttingDown /\ t # turns
    /\ turns' = t
    /\ turn' = [n \in Node |-> [i \in Slot |-> RecountedTurn(n, i, t)]]
    /\ due' = Node
    /\ UNCHANGED <<reqVars, nodeVars, home, draining, shuttingDown,
                   pumping, todo, cur, ix>>

(* SIGUSR1 and SIGUSR2                                                     *)
Drain(value) ==
    /\ Event
    /\ draining # value
    /\ draining' = value
    /\ UNCHANGED <<reqVars, nodeVars, turn, home, turns, shuttingDown, callVars>>

(* close(): SIGTERM.  Every turn is released with its timer and every      *)
(* waiting request is refused; queued and active work is left to drain.    *)
Close ==
    /\ Event
    /\ ~shuttingDown
    /\ shuttingDown' = TRUE
    /\ draining' = TRUE
    /\ turn' = [n \in Node |-> [i \in Slot |-> NoTurn]]
    /\ st' = [j \in Job |-> IF st[j] = "waiting" THEN "rejected" ELSE st[j]]
    /\ at' = [j \in Job |-> IF st[j] = "waiting" THEN NoNode ELSE at[j]]
    /\ UNCHANGED <<next, req, prio, slot, fresh, cancelled,
                   nodeVars, home, turns, callVars>>

----------------------------------------------------------------------------
(* The gateway has started; conversations may have homes from earlier      *)
(* runs, workers have not been probed yet and none was left paused or      *)
(* quarantined (DrainWorker and Quarantine lead there).                    *)
Init ==
    /\ next = 1
    /\ req \in [Job -> [key : KeyOrNone, route : Routes, class : Classes]]
    /\ \A j \in Job : Flexible(j) => req[j].key = NoKey
    /\ prio \in [Job -> Priorities]
    /\ st = [j \in Job |-> "new"]
    /\ at = [j \in Job |-> NoNode]
    /\ slot = [j \in Job |-> 0]
    /\ fresh = {} /\ cancelled = {}
    /\ healthy = [n \in Node |-> FALSE]
    /\ drained = [n \in Node |-> FALSE]
    /\ quarantined = [n \in Node |-> FALSE]
    /\ recovering = [n \in Node |-> FALSE]
    /\ failures = [n \in Node |-> 0]
    /\ inferenceFailures = [n \in Node |-> 0]
    /\ turn = [n \in Node |-> [i \in Slot |-> NoTurn]]
    /\ resuming = [n \in Node |-> "no"]
    /\ home \in [Key -> NodeOrNone]
    /\ turns \in TurnSettings
    /\ draining = FALSE /\ shuttingDown = FALSE
    /\ pumping = FALSE /\ todo = {} /\ cur = NoNode /\ ix = 0 /\ due = {}
    /\ events = 0

ClientCallback == \/ RequestArrives
                  \/ \E j \in Job : ClientCancels(j) \/ QueueTimeout(j)
UpstreamCallback == \E j \in Job : UpstreamEnds(j)
TimerCallback == \/ \E n \in Node : \E i \in Slot : TurnDeadlinePasses(n, i) \/ TurnTimer(n, i)
                 \/ WaitingTimer
WorkerCallback == \E n \in Node : \/ ProbeSucceeds(n) \/ ProbeFails(n)
                                  \/ RecoveryBegins(n) \/ RecoveryEnds(n)
ControlCallback ==
    \/ \E n \in Node : DrainWorker(n) \/ ResumeBegins(n) \/ ResumeProbed(n)
                     \/ ResumeCommits(n) \/ ResumeFails(n)
    \/ \E j \in Job : \E p \in 0..2 : SetJobPriority(j, p)
    \/ \E j \in Job : \E s \in Node : \E d \in Node : RelocateQueued(j, s, d)
    \/ \E t \in TurnSettings : SetConversationTurns(t)
    \/ \E value \in BOOLEAN : Drain(value)
    \/ Close

Next == \/ CallbackStep \/ ClientCallback \/ UpstreamCallback
        \/ TimerCallback \/ WorkerCallback \/ ControlCallback

Spec == Init /\ [][Next]_vars

(* Every pending event of the loop is delivered in its turn, a running     *)
(* callback returns, and every upstream request ends: request_timeout_ms   *)
(* destroys one that does not.                                             *)
FairSpec ==
    /\ Spec
    /\ WF_vars(CallbackStep)
    /\ \A j \in Job : SF_vars(UpstreamEnds(j))
    /\ \A n \in Node : \A i \in Slot : SF_vars(TurnTimer(n, i))

----------------------------------------------------------------------------
(* Properties.                                                             *)

(* Two requests of one conversation never run at the same time, on one     *)
(* worker or on two (queuedChoice checks every worker's active requests).  *)
OneActivePerConversation ==
    \A i, j \in Job : st[i] = "active" /\ st[j] = "active" /\ SameKey(i, j) => i = j

(* A request is not dispatched before an earlier one of its conversation   *)
(* and, schedule's parking loop aside, not even queued on a worker while   *)
(* an earlier one waits: whatever parking, priorities, turn allocations    *)
(* and relocation did in between.                                          *)
ConversationOrder ==
    \A i, j \in Job :
        i < j /\ SameKey(i, j) =>
            /\ st[j] = "active" => st[i] \notin {"waiting", "queued"}
            /\ st[j] = "queued" /\ cur = NoNode => st[i] # "waiting"

(* All queued and running work of a conversation is on the worker that the *)
(* durable store names as its home, so a restart finds the same owner.     *)
HomeOwnsWork ==
    \A j \in Job : st[j] \in {"queued", "active"} /\ req[j].key # NoKey =>
        at[j] = home[req[j].key]

(* Between callbacks no queue of users' requests exceeds                   *)
(* max_queued_per_node, although pumpWaiting may admit one to a full queue. *)
(* Flexible advisory requests of mixed priorities can break it (README).   *)
QueueBounded == Quiet => \A n \in Node : Cardinality(Queue(n)) <= QueueBound

(* A worker never runs two requests in one slot or a request in a slot     *)
(* beyond max_concurrent_requests.                                         *)
CapacityRespected ==
    \A i, j \in Job : st[i] = "active" =>
        /\ at[i] \in Node /\ slot[i] \in 1..Capacity[at[i]]
        /\ (st[j] = "active" /\ at[j] = at[i] /\ slot[j] = slot[i]) => i = j

(* A conversation holds an unexhausted turn allocation in at most one slot *)
(* of a worker.                                                            *)
OneAllocationPerConversation ==
    \A n \in Node : \A i, o \in Slot :
        (/\ turn[n][i].key # NoKey /\ turn[n][i].key = turn[n][o].key
         /\ turn[n][i].used < turns /\ turn[n][o].used < turns) => i = o

(* Slot i of n is free or keeps nothing asleep: a queued request it may    *)
(* run waits only for the end of a reservation of another conversation,    *)
(* whose timer is running.                                                 *)
Awake(n, i) ==
    ActiveIn(n, i) = {} =>
        \A j \in Eligible(n, i, Queue(n), turn[n]) :
            turn[n][i].grace # "none" /\ req[j].key # turn[n][i].key

(* No wakeup is lost: between callbacks a request that queuedChoice would  *)
(* give to a free slot is asleep only while a turn timer is due to wake it. *)
NoLostWakeup ==
    Quiet /\ ~shuttingDown => \A n \in Node : \A i \in 1..Capacity[n] : Awake(n, i)

(* A flexible advisory request is assigned to a worker only when it starts *)
(* there at once (freeGenieNode): among requests of one priority it never  *)
(* sits in a worker's queue, where a user's request would find it.  With   *)
(* three priorities and full queues it can (README, known limits).         *)
FlexibleNeverQueued ==
    Quiet => \A j \in Job : Flexible(j) => st[j] # "queued"

(* The parts of the inductive invariant that the proofs of the properties  *)
(* above need and that are no requirement in themselves.                   *)

(* Requests are created in the order of their numbers.                     *)
Numbered == next > 0 /\ \A j \in Job : j >= next <=> st[j] = "new"

(* Queued and active requests have a worker, active ones a slot of it.     *)
Placed ==
    \A j \in Job : /\ st[j] \in {"queued", "active"} => at[j] \in Node
                   /\ st[j] = "active" => slot[j] \in 1..Capacity[at[j]]

(* pumpWaiting visits waiting requests only.                               *)
PumpedWait == todo \subseteq Waiting /\ (~pumping => todo = {})

FlexibleUnaffined == \A j \in Job : Flexible(j) => req[j].key = NoKey

(* Why schedule's parking loop keeps the order of a conversation: a        *)
(* request may be queued behind a waiting one only while schedule is about *)
(* to park it as well, at the same free slot of the same unserviceable     *)
(* worker.                                                                 *)
ParkingOrder ==
    \A i, j \in Job :
        (i < j /\ SameKey(i, j) /\ st[i] = "waiting" /\ st[j] = "queued") =>
            /\ cur = at[j] /\ ~Serviceable(cur)
            /\ ix <= Capacity[cur] /\ ActiveIn(cur, ix) = {}
            /\ j \in Eligible(cur, ix, Queue(cur), turn[cur])

(* No request overtakes an earlier one of its conversation.                *)
DispatchOrder ==
    \A i, j \in Job :
        i < j /\ SameKey(i, j) /\ st[j] = "active" => st[i] \notin {"waiting", "queued"}

(* Slot i of n holds an unexhausted turn allocation of conversation k.     *)
Holds(n, i, k) == turn[n][i].key = k /\ turn[n][i].used < turns

(* Why setConversationTurns makes no second allocation: those of a busy    *)
(* slot are of the conversation it runs, and a conversation that runs in   *)
(* one slot holds none in another.                                         *)
TurnsOwned ==
    /\ \A n \in Node : \A i \in Slot : i > Capacity[n] => turn[n][i].key = NoKey
    /\ \A j \in Job : st[j] = "active" =>
          /\ turn[at[j]][slot[j]].key \in {NoKey, req[j].key}
          /\ req[j].key # NoKey =>
                \A o \in Slot \ {slot[j]} : ~Holds(at[j], o, req[j].key)

(* The idle gap runs for an allocation that is not exhausted, in a free    *)
(* slot.                                                                   *)
GraceSound ==
    \A n \in Node : \A i \in Slot : turn[n][i].grace # "none" =>
        turn[n][i].key # NoKey /\ turn[n][i].used < turns /\ ActiveIn(n, i) = {}

(* What schedule(cur) leaves behind: the slots it has passed keep nothing  *)
(* asleep, except what the parking loop at slot ix is about to park.       *)
Passed(i) ==
    \/ Awake(cur, i)
    \/ /\ ~Serviceable(cur) /\ ix <= Capacity[cur] /\ ActiveIn(cur, ix) = {}
       /\ Eligible(cur, i, Queue(cur), turn[cur]) \subseteq
             Eligible(cur, ix, Queue(cur), turn[cur])

(* Why no wakeup is lost: only the workers that the callback is going to   *)
(* schedule, and the slots schedule has yet to visit, may keep work asleep. *)
WakeupsPending ==
    ~shuttingDown =>
        \A n \in Node \ due : \A i \in 1..Capacity[n] :
            IF n = cur THEN i < ix => Passed(i) ELSE Awake(n, i)

IInv == /\ TypeOK /\ Numbered /\ Placed /\ PumpedWait /\ FlexibleUnaffined
        /\ HomeOwnsWork /\ OneActivePerConversation /\ CapacityRespected
        /\ DispatchOrder /\ ParkingOrder
        /\ TurnsOwned /\ OneAllocationPerConversation
        /\ GraceSound /\ WakeupsPending

(* The conversation service a client relies on; see module Conversations.  *)
PhaseOf(s) == CASE s = "new" -> "idle"
                [] s \in {"waiting", "queued"} -> "pending"
                [] s = "active" -> "running"
                [] s = "finished" -> "answered"
                [] s = "rejected" -> "refused"
                [] s = "cancelled" -> "withdrawn"
Phase == [j \in Job |-> PhaseOf(st[j])]
Conversation == [j \in Job |-> req[j].key]

Service == INSTANCE Conversations WITH
               Request <- Job, NoConversation <- NoKey,
               phase <- Phase, conversation <- Conversation

(* The gateway serves each conversation as a serial, first-come queue.     *)
ServesConversations == Service!Spec

(* A queued request is dispatched, parked or answered: no chain of turn    *)
(* reservations, priorities and lost wakeups keeps it in the queue of a    *)
(* running gateway forever.                                                *)
QueuedMovesOn ==
    \A j \in Job : st[j] = "queued" ~> st[j] # "queued" \/ shuttingDown

(* While recovery owns a worker, it is not put back into service.          *)
RecoveryOwnsWorker == \A n \in Node : ~(recovering[n] /\ healthy[n])
============================================================================
