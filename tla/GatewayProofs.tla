--------------------------- MODULE GatewayProofs ---------------------------
(***************************************************************************)
(* Proofs about module Gateway, for every number of workers, slots,        *)
(* conversations, requests and events.                                     *)
(***************************************************************************)
EXTENDS Gateway, TLAPS

(* The slots below a worker's capacity are slots.                          *)
LEMMA SlotFact ==
    ASSUME NEW n \in Node, NEW i \in Nat, i > 0, i <= Capacity[n]
    PROVE  i \in Slot /\ Capacity[n] \in Nat
<1>1. Capacity[n] \in Slot  BY SlotAssumption DEF SlotAssumption
<1>2. Slot \subseteq Nat \ {0}  BY SlotAssumption DEF SlotAssumption
<1>3. Capacity[n] \in Nat  BY <1>1, <1>2
<1>4. i \in 1..Capacity[n]  BY <1>3
<1>5. 1..Capacity[n] \subseteq Slot  BY <1>1, SlotAssumption DEF SlotAssumption
<1>. QED  BY <1>3, <1>4, <1>5

LEMMA NoTurnType == NoTurn \in Turn
BY DEF NoTurn, Turn, KeyOrNone

LEMMA KeptTurnType ==
    ASSUME TypeOK, NEW n \in Node, NEW i \in Slot
    PROVE  KeptTurn(n, i) \in Turn
BY NoTurnType DEF TypeOK, KeptTurn, Kept

LEMMA DispatchedTurnType ==
    ASSUME TypeOK, NEW n \in Node, NEW i \in Slot, NEW j \in Job
    PROVE  DispatchedTurn(n, i, j) \in Turn
<1>1. KeptTurn(n, i) \in Turn  BY KeptTurnType
<1>2. req[j].key \in KeyOrNone /\ prio[j] \in 0..2
  BY DEF TypeOK, Request
<1>. QED  BY <1>1, <1>2, NoTurnType DEF DispatchedTurn, Turn

LEMMA FinishedTurnType ==
    ASSUME TypeOK, NEW n \in Node, NEW i \in Slot, NEW outcome
    PROVE  FinishedTurn(n, i, outcome) \in Turn
<1>1. turn[n][i] \in Turn  BY DEF TypeOK
<1>. QED  BY <1>1, NoTurnType DEF FinishedTurn, Turn

LEMMA RecountedTurnType ==
    ASSUME TypeOK, NEW n \in Node, NEW i \in Slot, NEW t \in Nat
    PROVE  RecountedTurn(n, i, t) \in Turn
<1>. DEFINE j == CHOOSE j \in ActiveIn(n, i) : TRUE
<1>1. turn[n][i] \in Turn  BY DEF TypeOK
<1>2. CASE ActiveIn(n, i) = {}
  BY <1>1, <1>2, NoTurnType DEF RecountedTurn, Turn
<1>3. CASE ActiveIn(n, i) # {}
  <2>1. j \in Job  BY <1>3 DEF ActiveIn, Active
  <2>2. req[j].key \in KeyOrNone /\ prio[j] \in 0..2
    BY <2>1 DEF TypeOK, Request
  <2>. QED  BY <1>1, <1>3, <2>2 DEF RecountedTurn, Turn
<1>. QED  BY <1>2, <1>3

----------------------------------------------------------------------------
(* TypeOK is preserved.  Placed is needed where finish returns a slot.     *)

LEMMA TypeInit == ASSUME Init PROVE TypeOK
<1>1. 1 \in Nat /\ 0 \in Nat  OBVIOUS
<1>2. Priorities \subseteq 0..2 /\ Routes \subseteq SUBSET Node
  BY SettingAssumption DEF SettingAssumption
<1>3. req \in [Job -> Request]
  BY <1>2 DEF Init, Request
<1>4. prio \in [Job -> 0..2]
  BY <1>2 DEF Init
<1>5. turn \in [Node -> [Slot -> Turn]]
  BY NoTurnType DEF Init
<1>. QED  BY <1>3, <1>4, <1>5 DEF Init, TypeOK, Status, NodeOrNone

LEMMA AdmitTypes ==
    ASSUME TypeOK, NEW j \in Job, NEW k \in KeyOrNone, NEW n \in Node, Admit(j, k, n)
    PROVE  /\ st' \in [Job -> Status] /\ at' \in [Job -> NodeOrNone]
           /\ home' \in [Key -> NodeOrNone]
           /\ cur' \in NodeOrNone /\ ix' \in Nat /\ (cur' # NoNode => ix' > 0)
           /\ events' \in Nat
<1>1. st' \in [Job -> Status] /\ at' \in [Job -> NodeOrNone]
  BY DEF Admit, TypeOK, Status, NodeOrNone
<1>2. home' \in [Key -> NodeOrNone]
  BY DEF Admit, TypeOK, NodeOrNone, KeyOrNone
<1>3. cur' \in NodeOrNone /\ ix' \in Nat /\ (cur' # NoNode => ix' > 0)
  BY DEF Admit, CallSchedule, TypeOK, NodeOrNone
<1>4. events' \in Nat
  BY DEF Admit, TypeOK
<1>. QED  BY <1>1, <1>2, <1>3, <1>4

LEMMA RelocateTypes ==
    ASSUME TypeOK, NEW j \in Job, NEW d \in Node, Relocate(j, d)
    PROVE  /\ at' \in [Job -> NodeOrNone] /\ home' \in [Key -> NodeOrNone]
           /\ fresh' \subseteq Job
           /\ cur' \in NodeOrNone /\ ix' \in Nat /\ (cur' # NoNode => ix' > 0)
           /\ events' \in Nat
<1>1. at' \in [Job -> NodeOrNone] /\ fresh' \subseteq Job
  BY DEF Relocate, TypeOK, NodeOrNone
<1>2. home' \in [Key -> NodeOrNone]
  BY DEF Relocate, TypeOK, NodeOrNone
<1>3. cur' \in NodeOrNone /\ ix' \in Nat /\ (cur' # NoNode => ix' > 0)
  BY DEF Relocate, CallSchedule, TypeOK, NodeOrNone
<1>4. events' \in Nat
  BY DEF Relocate, TypeOK
<1>. QED  BY <1>1, <1>2, <1>3, <1>4

LEMMA CallbackTypes ==
    ASSUME TypeOK, CallbackStep
    PROVE  TypeOK'
<1>. USE DEF nodeVars, gateVars, reqVars
<1>0. cur # NoNode => cur \in Node  BY DEF TypeOK, NodeOrNone
<1>1. CASE ScheduleReturns
  BY <1>1 DEF ScheduleReturns, TypeOK, NodeOrNone
<1>2. CASE ScheduleSkips
  <2>1. turn' \in [Node -> [Slot -> Turn]]
    <3>1. CASE ActiveIn(cur, ix) # {}  BY <1>2, <3>1 DEF ScheduleSkips, TypeOK
    <3>2. CASE ActiveIn(cur, ix) = {}
      <4>1. ix \in Slot  BY <1>0, <1>2, SlotFact DEF ScheduleSkips, TypeOK
      <4>2. KeptTurn(cur, ix) \in Turn  BY <4>1, <1>0, <1>2, KeptTurnType DEF ScheduleSkips
      <4>3. turn' = [turn EXCEPT ![cur][ix] = KeptTurn(cur, ix)]
        BY <1>2, <3>2 DEF ScheduleSkips
      <4>4. turn \in [Node -> [Slot -> Turn]]  BY DEF TypeOK
      <4>. QED  BY <4>2, <4>3, <4>4
    <3>. QED  BY <3>1, <3>2
  <2>. QED  BY <1>2, <2>1 DEF ScheduleSkips, TypeOK
<1>3. CASE ScheduleParks
  <2>1. PICK j \in Job : Park(j, cur)  BY <1>3 DEF ScheduleParks, Queue
  <2>2. st' \in [Job -> Status] /\ at' \in [Job -> NodeOrNone]
    BY <2>1 DEF Park, TypeOK, Status, NodeOrNone
  <2>3. turn' \in [Node -> [Slot -> Turn]]
    BY <1>3, NoTurnType DEF ScheduleParks, TypeOK
  <2>. QED  BY <1>3, <2>2, <2>3 DEF ScheduleParks, callVars, TypeOK
<1>4. CASE ScheduleDispatches
  <2>1. PICK j \in Job : Dispatch(cur, ix, j)  BY <1>4 DEF ScheduleDispatches, Queue
  <2>2. ix \in Slot  BY <1>0, <1>4, SlotFact DEF ScheduleDispatches, TypeOK
  <2>3. DispatchedTurn(cur, ix, j) \in Turn
    BY <1>0, <1>4, <2>2, DispatchedTurnType DEF ScheduleDispatches
  <2>4. turn' \in [Node -> [Slot -> Turn]]  BY <2>1, <2>3 DEF Dispatch, TypeOK
  <2>5. st' \in [Job -> Status] /\ slot' \in [Job -> Slot \cup {0}] /\ fresh' \subseteq Job
    BY <2>1, <2>2 DEF Dispatch, TypeOK, Status
  <2>. QED  BY <1>4, <2>4, <2>5 DEF ScheduleDispatches, TypeOK
<1>5. CASE PumpVisits
  <2>1. PICK j \in todo :
          /\ todo' = todo \ {j}
          /\ fresh' = IF Reassigned(j) THEN fresh \ {j} ELSE fresh
          /\ \/ \E n \in PumpTargets(j) : Admit(j, req[j].key, n)
             \/ UNCHANGED <<st, at, home, cur, ix, events>>
    BY <1>5 DEF PumpVisits
  <2>2. CASE UNCHANGED <<st, at, home, cur, ix, events>>
    BY <1>5, <2>1, <2>2 DEF PumpVisits, TypeOK
  <2>3. CASE \E n \in PumpTargets(j) : Admit(j, req[j].key, n)
    <3>1. PICK n \in PumpTargets(j) : Admit(j, req[j].key, n)  BY <2>3
    <3>2. j \in Job /\ req[j].route \subseteq Node /\ at[j] \in NodeOrNone
             /\ req[j].key \in KeyOrNone
      BY DEF TypeOK, Request
    <3>3. Home(req[j].key) \in NodeOrNone
      BY <3>2 DEF Home, KeyOrNone, TypeOK, NodeOrNone
    <3>4. n \in Node
      BY <3>1, <3>2, <3>3 DEF PumpTargets, FreeGenieNodes, Pick, Pickable, NodeOrNone
    <3>5. /\ st' \in [Job -> Status] /\ at' \in [Job -> NodeOrNone]
          /\ home' \in [Key -> NodeOrNone]
          /\ cur' \in NodeOrNone /\ ix' \in Nat /\ (cur' # NoNode => ix' > 0)
          /\ events' \in Nat
      BY <3>1, <3>2, <3>4, AdmitTypes
    <3>. QED  BY <1>5, <2>1, <3>5 DEF PumpVisits, TypeOK
  <2>. QED  BY <2>1, <2>2, <2>3
<1>6. CASE PumpReturns
  <2>1. \/ UNCHANGED <<home, at, fresh, cur, ix, events>>
        \/ \E j \in Job, d \in Node : Relocate(j, d)
    BY <1>6 DEF PumpReturns, RebalanceUndispatched
  <2>2. CASE UNCHANGED <<home, at, fresh, cur, ix, events>>
    BY <1>6, <2>2 DEF PumpReturns, TypeOK
  <2>3. ASSUME NEW j \in Job, NEW d \in Node, Relocate(j, d) PROVE TypeOK'
    BY <1>6, <2>3, RelocateTypes DEF PumpReturns, TypeOK
  <2>. QED  BY <2>1, <2>2, <2>3
<1>7. CASE ScheduleCalled
  BY <1>7 DEF ScheduleCalled, CallSchedule, TypeOK, NodeOrNone
<1>. QED  BY <1>1, <1>2, <1>3, <1>4, <1>5, <1>6, <1>7 DEF CallbackStep

LEMMA PumpTypes ==
    ASSUME TypeOK, NEW ns \in SUBSET Node, PumpThenSchedule(ns)
    PROVE  /\ pumping' \in BOOLEAN /\ todo' \subseteq Job /\ cur' \in NodeOrNone
           /\ ix' \in Nat /\ (cur' # NoNode => ix' > 0) /\ due' \subseteq Node
<1>1. todo' \subseteq Job  BY DEF PumpThenSchedule
<1>. QED  BY <1>1 DEF PumpThenSchedule, TypeOK

LEMMA LeaveTypes ==
    ASSUME TypeOK, NEW j \in Job, NEW result \in Status, Leave(j, result)
    PROVE  /\ st' \in [Job -> Status] /\ at' \in [Job -> NodeOrNone]
           /\ slot' \in [Job -> Slot \cup {0}] /\ fresh' \subseteq Job
BY DEF Leave, TypeOK, NodeOrNone

LEMMA ArrivalTargetsType ==
    ASSUME TypeOK, NEW j \in Job
    PROVE  ArrivalTargets(j) \subseteq Node
<1>1. req[j].route \subseteq Node /\ req[j].key \in KeyOrNone
  BY DEF TypeOK, Request
<1>2. Home(req[j].key) \in NodeOrNone
  BY <1>1 DEF Home, KeyOrNone, TypeOK, NodeOrNone
<1>. QED  BY <1>1, <1>2 DEF ArrivalTargets, FreeGenieNodes, Pick, Pickable, NodeOrNone

LEMMA ClientTypes ==
    ASSUME TypeOK, ClientCallback
    PROVE  TypeOK'
<1>. USE DEF nodeVars, gateVars, callVars
<1>1. CASE RequestArrives
  <2>1. next \in Job /\ next' \in Nat  BY <1>1 DEF RequestArrives, TypeOK
  <2>2. req[next].key \in KeyOrNone  BY <2>1 DEF TypeOK, Request
  <2>3. \/ /\ st' = [st EXCEPT ![next] = "rejected"]
           /\ UNCHANGED <<at, fresh, home, cur, ix, events>>
        \/ /\ fresh' \subseteq Job
           /\ \/ \E n \in Node : Admit(next, req[next].key, n)
              \/ /\ Park(next, NoNode)
                 /\ UNCHANGED <<home, cur, ix, events>>
    <3>1. CASE draining  BY <1>1, <3>1 DEF RequestArrives
    <3>2. CASE ~draining
      <4>1. PICK n \in IF ArrivalTargets(next) = {} THEN {NoNode} ELSE ArrivalTargets(next) :
               IF NoWaitRefuses(next, n) \/ QueueFull(n)
               THEN /\ st' = [st EXCEPT ![next] = "rejected"]
                    /\ UNCHANGED <<at, fresh, home, cur, ix, events>>
               ELSE /\ fresh' = IF Home(req[next].key) = NoNode
                                THEN fresh \cup {next} ELSE fresh
                    /\ \/ /\ n # NoNode
                          /\ Admit(next, req[next].key, n)
                       \/ /\ n = NoNode
                          /\ Park(next, NoNode)
                          /\ UNCHANGED <<home, cur, ix, events>>
        BY <1>1, <3>2 DEF RequestArrives
      <4>2. n # NoNode => n \in Node  BY <2>1, ArrivalTargetsType
      <4>3. fresh \subseteq Job  BY DEF TypeOK
      <4>. QED  BY <2>1, <4>1, <4>2, <4>3
    <3>. QED  BY <3>1, <3>2
  <2>4. CASE /\ st' = [st EXCEPT ![next] = "rejected"]
             /\ UNCHANGED <<at, fresh, home, cur, ix, events>>
    BY <1>1, <2>1, <2>4 DEF RequestArrives, TypeOK, Status
  <2>5. CASE fresh' \subseteq Job /\ \E n \in Node : Admit(next, req[next].key, n)
    BY <1>1, <2>1, <2>2, <2>5, AdmitTypes DEF RequestArrives, TypeOK
  <2>6. CASE fresh' \subseteq Job /\ Park(next, NoNode) /\ UNCHANGED <<home, cur, ix, events>>
    <3>1. st' \in [Job -> Status] /\ at' \in [Job -> NodeOrNone]
      BY <2>6 DEF Park, TypeOK, Status, NodeOrNone
    <3>. QED  BY <1>1, <2>1, <2>6, <3>1 DEF RequestArrives, TypeOK
  <2>. QED  BY <2>3, <2>4, <2>5, <2>6
<1>2. ASSUME NEW j \in Job, ClientCancels(j) PROVE TypeOK'
  <2>1. CASE Leave(j, "cancelled") /\ PumpThenSchedule({}) /\ UNCHANGED cancelled
    BY <1>2, <2>1, LeaveTypes, PumpTypes DEF ClientCancels, TypeOK, Status
  <2>2. CASE cancelled' = cancelled \cup {j} /\ UNCHANGED <<st, at, slot, fresh, callVars>>
    BY <1>2, <2>2 DEF ClientCancels, TypeOK
  <2>. QED  BY <1>2, <2>1, <2>2 DEF ClientCancels
<1>3. ASSUME NEW j \in Job, QueueTimeout(j) PROVE TypeOK'
  BY <1>3, LeaveTypes, PumpTypes DEF QueueTimeout, TypeOK, Status
<1>. QED  BY <1>1, <1>2, <1>3 DEF ClientCallback

LEMMA UpstreamTypes ==
    ASSUME TypeOK, Placed, UpstreamCallback
    PROVE  TypeOK'
<1>1. PICK j \in Job : UpstreamEnds(j)  BY DEF UpstreamCallback
<1>2. PICK outcome \in {"complete", "fault", "failure", "other"},
           result \in {"finished", "rejected"} : Finish(j, outcome, result)
  BY <1>1 DEF UpstreamEnds
<1>. DEFINE n == at[j]
<1>3. n \in Node /\ slot[j] \in Slot
  <2>1. n \in Node /\ slot[j] \in 1..Capacity[n]  BY <1>1 DEF UpstreamEnds, Placed
  <2>. QED  BY <2>1, SlotFact, SlotAssumption DEF SlotAssumption
<1>4. /\ quarantined' \in [Node -> BOOLEAN] /\ healthy' \in [Node -> BOOLEAN]
      /\ draining' \in BOOLEAN /\ events' \in Nat
  <2>1. \/ Quarantine(n) \/ UNCHANGED <<quarantined, healthy, draining, events>>
    BY <1>2 DEF Finish
  <2>2. \/ UNCHANGED <<quarantined, healthy>>
        \/ /\ quarantined' = [quarantined EXCEPT ![n] = TRUE]
           /\ healthy' = [healthy EXCEPT ![n] = FALSE]
    BY <2>1 DEF Quarantine
  <2>3. /\ \/ UNCHANGED draining \/ draining' = TRUE
        /\ \/ UNCHANGED events \/ events' = events + 1
    BY <2>1 DEF Quarantine
  <2>4. quarantined' \in [Node -> BOOLEAN] /\ healthy' \in [Node -> BOOLEAN]
    BY <2>2 DEF TypeOK
  <2>5. draining' \in BOOLEAN  BY <2>3, Zenon DEF TypeOK
  <2>6. events' \in Nat  BY <2>3 DEF TypeOK
  <2>. QED  BY <2>4, <2>5, <2>6
<1>5. inferenceFailures' \in [Node -> Nat]
  <2>1. \/ UNCHANGED inferenceFailures
        \/ inferenceFailures' = [inferenceFailures EXCEPT ![n] = @ + 1]
        \/ inferenceFailures' = [inferenceFailures EXCEPT ![n] = 0]
    BY <1>2 DEF Finish
  <2>. QED  BY <1>3, <2>1 DEF TypeOK
<1>6. turn' \in [Node -> [Slot -> Turn]]
  BY <1>2, <1>3, FinishedTurnType DEF Finish, TypeOK
<1>7. /\ st' \in [Job -> Status] /\ at' \in [Job -> NodeOrNone]
      /\ slot' \in [Job -> Slot \cup {0}] /\ fresh' \subseteq Job
  BY <1>2, LeaveTypes DEF Finish, Status
<1>8. /\ pumping' \in BOOLEAN /\ todo' \subseteq Job /\ cur' \in NodeOrNone
      /\ ix' \in Nat /\ (cur' # NoNode => ix' > 0) /\ due' \subseteq Node
  BY <1>2, <1>3, PumpTypes DEF Finish
<1>. QED  BY <1>2, <1>4, <1>5, <1>6, <1>7, <1>8 DEF Finish, TypeOK

LEMMA TimerTypes ==
    ASSUME TypeOK, TimerCallback
    PROVE  TypeOK'
<1>. USE DEF reqVars, nodeVars, gateVars, callVars
<1>1. ASSUME NEW n \in Node, NEW i \in Slot, TurnDeadlinePasses(n, i) PROVE TypeOK'
  <2>1. turn[n][i] \in Turn /\ turn \in [Node -> [Slot -> Turn]]  BY DEF TypeOK
  <2>2. turn' = [turn EXCEPT ![n][i] = [turn[n][i] EXCEPT !.grace = "passed"]]
    BY <1>1, <2>1 DEF TurnDeadlinePasses
  <2>3. [turn[n][i] EXCEPT !.grace = "passed"] \in Turn  BY <2>1 DEF Turn
  <2>4. turn' \in [Node -> [Slot -> Turn]]  BY <2>1, <2>2, <2>3
  <2>. QED  BY <1>1, <2>4 DEF TurnDeadlinePasses, TypeOK
<1>2. ASSUME NEW n \in Node, NEW i \in Slot, TurnTimer(n, i) PROVE TypeOK'
  <2>1. turn' \in [Node -> [Slot -> Turn]]
    BY <1>2, NoTurnType DEF TurnTimer, TypeOK
  <2>. QED  BY <1>2, <2>1, PumpTypes DEF TurnTimer, TypeOK
<1>3. CASE WaitingTimer
  BY <1>3, PumpTypes DEF WaitingTimer, TypeOK
<1>. QED  BY <1>1, <1>2, <1>3 DEF TimerCallback

LEMMA WorkerTypes ==
    ASSUME TypeOK, WorkerCallback
    PROVE  TypeOK'
<1>. USE DEF reqVars, gateVars, callVars, Event
<1>1. ASSUME NEW n \in Node, ProbeSucceeds(n) PROVE TypeOK'
  <2>1. (~quarantined[n] /\ ~recovering[n]) \in BOOLEAN  OBVIOUS
  <2>2. healthy' = [healthy EXCEPT ![n] = ~quarantined[n] /\ ~recovering[n]]
    BY <1>1 DEF ProbeSucceeds
  <2>3. healthy \in [Node -> BOOLEAN]  BY DEF TypeOK
  <2>4. healthy' \in [Node -> BOOLEAN]  BY <2>1, <2>2, <2>3, Zenon
  <2>. QED  BY <1>1, <2>4 DEF ProbeSucceeds, TypeOK
<1>2. ASSUME NEW n \in Node, ProbeFails(n) PROVE TypeOK'
  <2>1. CASE failures[n] + 1 >= HealthFailures
    <3>1. healthy' \in [Node -> BOOLEAN]  BY <1>2, <2>1, Zenon DEF ProbeFails, TypeOK
    <3>. QED  BY <1>2, <2>1, <3>1 DEF ProbeFails, TypeOK
  <2>2. CASE ~(failures[n] + 1 >= HealthFailures)
    BY <1>2, <2>2 DEF ProbeFails, TypeOK
  <2>. QED  BY <2>1, <2>2
<1>3. ASSUME NEW n \in Node, RecoveryBegins(n) PROVE TypeOK'
  BY <1>3 DEF RecoveryBegins, TypeOK
<1>4. ASSUME NEW n \in Node, RecoveryEnds(n) PROVE TypeOK'
  <2>1. /\ recovering' = [recovering EXCEPT ![n] = FALSE]
        /\ \/ /\ healthy' = [healthy EXCEPT ![n] = FALSE]
              /\ UNCHANGED <<quarantined, failures, inferenceFailures>>
           \/ /\ quarantined' = [quarantined EXCEPT ![n] = FALSE]
              /\ inferenceFailures' = [inferenceFailures EXCEPT ![n] = 0]
              /\ healthy' = [healthy EXCEPT ![n] = TRUE]
              /\ failures' = [failures EXCEPT ![n] = 0]
    BY <1>4 DEF RecoveryEnds
  <2>2. recovering' \in [Node -> BOOLEAN] /\ healthy' \in [Node -> BOOLEAN]
    BY <2>1, Zenon DEF TypeOK
  <2>3. quarantined' \in [Node -> BOOLEAN]
    BY <2>1, Zenon DEF TypeOK
  <2>4. failures' \in [Node -> Nat] /\ inferenceFailures' \in [Node -> Nat]
    <3>1. 0 \in Nat  OBVIOUS
    <3>. QED  BY <2>1, <3>1, Zenon DEF TypeOK
  <2>. QED  BY <1>4, <2>2, <2>3, <2>4 DEF RecoveryEnds, TypeOK
<1>. QED  BY <1>1, <1>2, <1>3, <1>4 DEF WorkerCallback

LEMMA ControlTypes ==
    ASSUME TypeOK, ControlCallback
    PROVE  TypeOK'
<1>. USE DEF reqVars, nodeVars, gateVars, callVars, Event
<1>1. ASSUME NEW n \in Node, DrainWorker(n) \/ ResumeBegins(n) \/ ResumeProbed(n)
                               \/ ResumeCommits(n) \/ ResumeFails(n)
      PROVE  TypeOK'
  <2>1. CASE DrainWorker(n)  BY <2>1 DEF DrainWorker, TypeOK
  <2>2. CASE ResumeBegins(n)  BY <2>2 DEF ResumeBegins, TypeOK
  <2>3. CASE ResumeProbed(n)  BY <2>3 DEF ResumeProbed, TypeOK
  <2>4. CASE ResumeCommits(n)  BY <2>4 DEF ResumeCommits, TypeOK
  <2>5. CASE ResumeFails(n)  BY <2>5 DEF ResumeFails, TypeOK
  <2>. QED  BY <1>1, <2>1, <2>2, <2>3, <2>4, <2>5
<1>2. ASSUME NEW j \in Job, NEW p \in 0..2, SetJobPriority(j, p) PROVE TypeOK'
  BY <1>2, PumpTypes DEF SetJobPriority, TypeOK
<1>3. ASSUME NEW j \in Job, NEW s \in Node, NEW d \in Node, RelocateQueued(j, s, d)
      PROVE  TypeOK'
  BY <1>3, RelocateTypes DEF RelocateQueued, TypeOK
<1>4. ASSUME NEW t \in TurnSettings, SetConversationTurns(t) PROVE TypeOK'
  <2>1. t \in Nat  BY SettingAssumption DEF SettingAssumption
  <2>2. turn' \in [Node -> [Slot -> Turn]]
    BY <1>4, <2>1, RecountedTurnType DEF SetConversationTurns
  <2>. QED  BY <1>4, <2>2 DEF SetConversationTurns, TypeOK
<1>5. ASSUME NEW value \in BOOLEAN, Drain(value) PROVE TypeOK'
  BY <1>5 DEF Drain, TypeOK
<1>6. CASE Close
  <2>1. turn' \in [Node -> [Slot -> Turn]]  BY <1>6, NoTurnType DEF Close
  <2>2. st' \in [Job -> Status] /\ at' \in [Job -> NodeOrNone]
    BY <1>6 DEF Close, TypeOK, Status, NodeOrNone
  <2>. QED  BY <1>6, <2>1, <2>2 DEF Close, TypeOK
<1>. QED  BY <1>1, <1>2, <1>3, <1>4, <1>5, <1>6 DEF ControlCallback

LEMMA TypeStep ==
    ASSUME TypeOK, Placed, [Next]_vars
    PROVE  TypeOK'
<1>1. CASE Next
  BY <1>1, CallbackTypes, ClientTypes, UpstreamTypes, TimerTypes, WorkerTypes, ControlTypes
  DEF Next
<1>2. CASE UNCHANGED vars
  BY <1>2 DEF vars, reqVars, nodeVars, gateVars, callVars, TypeOK
<1>. QED  BY <1>1, <1>2

----------------------------------------------------------------------------
(* The effects a step may have on the requests and on the homes of their   *)
(* conversations.  The safety invariants are proved from these.            *)

Keeps == UNCHANGED <<next, req, st, at, slot, home>>

Created(j) == st[j] = "new" /\ j = next /\ next' = next + 1

Settles(j, result) ==
    /\ st' = [st EXCEPT ![j] = result]
    /\ \A i \in Job \ {j} : at'[i] = at[i] /\ slot'[i] = slot[i]
    /\ UNCHANGED <<req, home>>
    /\ \/ Created(j) /\ result = "rejected"
       \/ st[j] \in {"waiting", "queued"} /\ result \in {"rejected", "cancelled"} /\ next' = next
       \/ st[j] = "active" /\ result \in {"finished", "rejected"} /\ next' = next

Queues(j, n) ==
    /\ st' = [st EXCEPT ![j] = "queued"]
    /\ at' = [at EXCEPT ![j] = n]
    /\ home' = IF req[j].key = NoKey THEN home ELSE [home EXCEPT ![req[j].key] = n]
    /\ UNCHANGED <<req, slot>>
    /\ Created(j) \/ (st[j] = "waiting" /\ next' = next)
    /\ \A i \in Waiting : SameKey(i, j) => j <= i
    /\ SessionBusy(req[j].key) => n = home[req[j].key]

Waits(j) ==
    /\ st' = [st EXCEPT ![j] = "waiting"]
    /\ \A i \in Job \ {j} : at'[i] = at[i]
    /\ UNCHANGED <<req, slot, home>>
    /\ Created(j) \/ (st[j] = "queued" /\ next' = next /\ cur # NoNode)

Starts(j) ==
    /\ cur \in Node /\ Serviceable(cur)
    /\ j \in Queue(cur)
    /\ ix \in 1..Capacity[cur] /\ ActiveIn(cur, ix) = {}
    /\ req[j].key = NoKey \/ ~KeyActive(req[j].key)
    /\ \A i \in Queue(cur) : SameKey(i, j) => j <= i
    /\ st' = [st EXCEPT ![j] = "active"]
    /\ slot' = [slot EXCEPT ![j] = ix]
    /\ UNCHANGED <<next, req, at, home>>

Moves(j, d) ==
    /\ st[j] = "queued" /\ ~ConflictingSessionWork(j)
    /\ at' = [at EXCEPT ![j] = d]
    /\ home' = IF req[j].key = NoKey THEN home ELSE [home EXCEPT ![req[j].key] = d]
    /\ UNCHANGED <<next, req, st, slot>>

Stops ==
    /\ st' = [j \in Job |-> IF st[j] = "waiting" THEN "rejected" ELSE st[j]]
    /\ \A j \in Job : st[j] # "waiting" => at'[j] = at[j]
    /\ UNCHANGED <<next, req, slot, home>>

Effect ==
    \/ Keeps \/ Stops
    \/ \E j \in Job : \/ Waits(j) \/ Starts(j)
                      \/ \E n \in Node : Queues(j, n) \/ Moves(j, n)
                      \/ \E result \in Status : Settles(j, result)

(* queuedChoice returns an eligible request, the first of its conversation *)
(* in the queue.                                                           *)
LEMMA ChoiceEligible ==
    ASSUME NEW n, NEW i, NEW S, NEW T, NEW j, QueuedChoice(n, i, S, T, j)
    PROVE  j \in Eligible(n, i, S, T) /\ j \in S
<1>1. j \in Eligible(n, i, S, T)
  BY DEF QueuedChoice, PriorityIndex, Heads
<1>. QED  BY <1>1 DEF Eligible

LEMMA SameEligible ==
    ASSUME NEW n, NEW i, NEW S, NEW T, NEW j \in Eligible(n, i, S, T),
           NEW m \in S, SameKey(m, j)
    PROVE  m \in Eligible(n, i, S, T)
BY DEF Eligible, SameKey

LEMMA ChoiceFirst ==
    ASSUME NEW n, NEW i, NEW S, NEW T, NEW j, QueuedChoice(n, i, S, T, j),
           NEW m \in S, SameKey(m, j)
    PROVE  j <= m
<1>. DEFINE E == Eligible(n, i, S, T)
           t == Kept(n, T[i])
           Mine == {x \in E : req[x].key = t.key}
<1>1. m \in E  BY ChoiceEligible, SameEligible
<1>2. PICK f \in E :
          /\ PriorityIndex(E, f)
          /\ j = f \/ j \in Heads(Mine) \/ PriorityIndex(E \ Mine, j)
  BY DEF QueuedChoice
<1>3. CASE j = f  BY <1>1, <1>2, <1>3 DEF PriorityIndex, Heads
<1>4. CASE j \in Heads(Mine)  BY <1>1, <1>4 DEF Heads, SameKey
<1>5. CASE PriorityIndex(E \ Mine, j)  BY <1>1, <1>5 DEF PriorityIndex, Heads, SameKey
<1>. QED  BY <1>2, <1>3, <1>4, <1>5

(* A conversation with work in progress has a home, and a worker that      *)
(* sessionWork returns is that home.                                       *)
LEMMA BusyHome ==
    ASSUME TypeOK, Placed, HomeOwnsWork, NEW k \in Key, SessionBusy(k)
    PROVE  /\ home[k] \in Node
           /\ \A n : OutstandingNode(k, n) => n = home[k]
<1>1. k # NoKey  BY DEF SessionBusy
<1>2. \A j \in SessionWork(k) : at[j] = home[k] /\ at[j] \in Node
  BY <1>1 DEF SessionWork, HomeOwnsWork, Placed
<1>3. SessionWork(k) # {}  BY DEF SessionBusy
<1>. QED  BY <1>2, <1>3 DEF OutstandingNode

LEMMA AdmitEffect ==
    ASSUME TypeOK, NEW j \in Job, NEW n \in Node, Admit(j, req[j].key, n),
           Created(j) \/ (st[j] = "waiting" /\ next' = next),
           \A i \in Waiting : SameKey(i, j) => j <= i,
           SessionBusy(req[j].key) => n = home[req[j].key],
           UNCHANGED <<req, slot>>
    PROVE  Effect
<1>1. CASE st' = [st EXCEPT ![j] = "queued"]
  <2>1. Queues(j, n)  BY <1>1 DEF Admit, Queues, TypeOK
  <2>. QED  BY <2>1 DEF Effect
<1>2. CASE st' = [st EXCEPT ![j] = "rejected"] /\ at' = [at EXCEPT ![j] = NoNode] /\ UNCHANGED home
  <2>1. \A i \in Job \ {j} : at'[i] = at[i] /\ slot'[i] = slot[i]
    BY <1>2 DEF TypeOK
  <2>2. Settles(j, "rejected")  BY <1>2, <2>1 DEF Settles
  <2>3. "rejected" \in Status  BY DEF Status
  <2>. QED  BY <2>2, <2>3 DEF Effect
<1>. QED  BY <1>1, <1>2 DEF Admit

LEMMA PumpTargetsFact ==
    ASSUME TypeOK, FlexibleUnaffined, NEW j \in Job, NEW n \in PumpTargets(j)
    PROVE  /\ n \in Node
           /\ \A i \in Waiting : SameKey(i, j) => j <= i
<1>1. req[j].route \subseteq Node /\ at[j] \in NodeOrNone /\ req[j].key \in KeyOrNone
  BY DEF TypeOK, Request
<1>2. Home(req[j].key) \in NodeOrNone
  BY <1>1 DEF Home, KeyOrNone, TypeOK, NodeOrNone
<1>3. n \in Node
  BY <1>1, <1>2 DEF PumpTargets, FreeGenieNodes, Pick, Pickable, NodeOrNone
<1>4. ASSUME NEW i \in Waiting, SameKey(i, j) PROVE j <= i
  <2>1. ~Flexible(j)  BY <1>4 DEF FlexibleUnaffined, SameKey
  <2>2. ~(i < j)  BY <1>4, <2>1 DEF PumpTargets
  <2>3. i \in Nat /\ j \in Nat  BY DEF Waiting, Job
  <2>. QED  BY <2>2, <2>3
<1>. QED  BY <1>3, <1>4

LEMMA PumpEffect ==
    ASSUME IInv, PumpVisits
    PROVE  Effect
<1>. USE DEF IInv
<1>1. PICK j \in todo :
        \/ \E n \in PumpTargets(j) : PumpAdmits(j, n) /\ Admit(j, req[j].key, n)
        \/ UNCHANGED <<st, at, home, cur, ix, events>>
  BY DEF PumpVisits
<1>2. j \in Job /\ st[j] = "waiting"  BY DEF PumpedWait, Waiting
<1>3. UNCHANGED <<next, req, slot>>  BY DEF PumpVisits
<1>4. CASE UNCHANGED <<st, at, home, cur, ix, events>>
  BY <1>3, <1>4 DEF Effect, Keeps
<1>5. ASSUME NEW n \in PumpTargets(j), PumpAdmits(j, n), Admit(j, req[j].key, n)
      PROVE  Effect
  <2>1. n \in Node /\ \A i \in Waiting : SameKey(i, j) => j <= i
    BY <1>2, PumpTargetsFact
  <2>2. ASSUME SessionBusy(req[j].key) PROVE n = home[req[j].key]
    <3>1. req[j].key \in Key
      BY <1>2, <2>2 DEF SessionBusy, TypeOK, Request, KeyOrNone
    <3>2. ~Flexible(j)  BY <1>2, <2>2 DEF SessionBusy, FlexibleUnaffined
    <3>3. OutstandingNode(req[j].key, n)  BY <1>5, <2>2, <3>2 DEF PumpAdmits
    <3>. QED  BY <2>2, <3>1, <3>3, BusyHome
  <2>. QED  BY <1>2, <1>3, <1>5, <2>1, <2>2, AdmitEffect
<1>. QED  BY <1>1, <1>4, <1>5

LEMMA ArrivalEffect ==
    ASSUME IInv, RequestArrives
    PROVE  Effect
<1>. USE DEF IInv
<1>1. next \in Job /\ Created(next) /\ UNCHANGED <<req, slot>>
  <2>1. next \in Job /\ next' = next + 1 /\ UNCHANGED <<req, slot>>  BY DEF RequestArrives
  <2>2. st[next] = "new"  BY <2>1 DEF Numbered, Job
  <2>. QED  BY <2>1, <2>2 DEF Created
<1>2. CASE st' = [st EXCEPT ![next] = "rejected"] /\ UNCHANGED <<at, home>>
  <2>1. Settles(next, "rejected")  BY <1>1, <1>2 DEF Settles
  <2>2. "rejected" \in Status  BY DEF Status
  <2>. QED  BY <1>1, <2>1, <2>2 DEF Effect
<1>3. CASE Park(next, NoNode) /\ UNCHANGED home
  <2>1. \A i \in Job \ {next} : at'[i] = at[i] /\ slot'[i] = slot[i]
    BY <1>1, <1>3 DEF Park, TypeOK
  <2>2. CASE shuttingDown
    <3>1. Settles(next, "rejected")  BY <1>1, <1>3, <2>1, <2>2 DEF Settles, Park
    <3>2. "rejected" \in Status  BY DEF Status
    <3>. QED  BY <1>1, <3>1, <3>2 DEF Effect
  <2>3. CASE ~shuttingDown
    <3>1. Waits(next)  BY <1>1, <1>3, <2>1, <2>3 DEF Waits, Park
    <3>. QED  BY <1>1, <3>1 DEF Effect
  <2>. QED  BY <2>2, <2>3
<1>4. ASSUME NEW n \in ArrivalTargets(next), Admit(next, req[next].key, n) PROVE Effect
  <2>1. n \in Node  BY <1>1, ArrivalTargetsType
  <2>2. ASSUME NEW i \in Waiting, SameKey(i, next) PROVE FALSE
    <3>1. ~Flexible(next)  BY <1>1, <2>2 DEF FlexibleUnaffined, SameKey
    <3>. QED  BY <1>4, <2>2, <3>1 DEF ArrivalTargets
  <2>3. ASSUME SessionBusy(req[next].key) PROVE n = home[req[next].key]
    <3>1. req[next].key \in Key
      BY <1>1, <2>3 DEF SessionBusy, TypeOK, Request, KeyOrNone
    <3>2. ~Flexible(next)  BY <1>1, <2>3 DEF SessionBusy, FlexibleUnaffined
    <3>3. home[req[next].key] # NoNode
      BY <2>3, <3>1, BusyHome, NullAssumption DEF NullAssumption
    <3>4. Home(req[next].key) = home[req[next].key]  BY <2>3 DEF Home, SessionBusy
    <3>. QED  BY <1>4, <2>3, <3>2, <3>3, <3>4 DEF ArrivalTargets
  <2>. QED  BY <1>1, <1>4, <2>1, <2>2, <2>3, AdmitEffect
<1>. QED  BY <1>1, <1>2, <1>3, <1>4 DEF RequestArrives

LEMMA LeaveEffect ==
    ASSUME TypeOK, NEW j \in Job, NEW result \in Status, Leave(j, result),
           UNCHANGED <<next, req, home>>,
           \/ st[j] \in {"waiting", "queued"} /\ result \in {"rejected", "cancelled"}
           \/ st[j] = "active" /\ result \in {"finished", "rejected"}
    PROVE  Effect
<1>1. \A i \in Job \ {j} : at'[i] = at[i] /\ slot'[i] = slot[i]
  BY DEF Leave, TypeOK
<1>2. Settles(j, result)  BY <1>1 DEF Leave, Settles
<1>. QED  BY <1>2 DEF Effect

LEMMA RelocateEffect ==
    ASSUME TypeOK, NEW j \in Job, NEW s \in Node, NEW d \in Node,
           RelocationOffer(j, s, d), Relocate(j, d), UNCHANGED <<next, req, st, slot>>
    PROVE  Effect
<1>1. CASE UNCHANGED <<home, at>>  BY <1>1 DEF Effect, Keeps
<1>2. CASE /\ home' = IF req[j].key = NoKey THEN home ELSE [home EXCEPT ![req[j].key] = d]
           /\ at' = [at EXCEPT ![j] = d]
  <2>1. st[j] = "queued" /\ ~ConflictingSessionWork(j)
    BY DEF RelocationOffer, PriorityIndex, Heads, Queue
  <2>2. Moves(j, d)  BY <1>2, <2>1 DEF Moves
  <2>. QED  BY <2>2 DEF Effect
<1>. QED  BY <1>1, <1>2 DEF Relocate

LEMMA ScheduleEffect ==
    ASSUME IInv, ScheduleParks \/ ScheduleDispatches
    PROVE  Effect
<1>. USE DEF IInv, nodeVars, gateVars, callVars
<1>1. cur \in Node /\ ix \in 1..Capacity[cur] /\ ActiveIn(cur, ix) = {}
  <2>1. cur \in Node /\ ix \in Nat /\ ix > 0 /\ ix <= Capacity[cur] /\ ActiveIn(cur, ix) = {}
    BY DEF ScheduleParks, ScheduleDispatches, TypeOK, NodeOrNone
  <2>. QED  BY <2>1, SlotFact
<1>2. CASE ScheduleParks
  <2>1. PICK j \in Queue(cur) : Park(j, cur)  BY <1>2 DEF ScheduleParks
  <2>2. j \in Job /\ st[j] = "queued"  BY DEF Queue
  <2>3. \A i \in Job \ {j} : at'[i] = at[i] /\ slot'[i] = slot[i]
    BY <1>2, <2>1, <2>2 DEF Park, TypeOK, ScheduleParks
  <2>4. UNCHANGED <<next, req, slot, home>>  BY <1>2 DEF ScheduleParks
  <2>5. CASE shuttingDown
    <3>1. Settles(j, "rejected")  BY <2>1, <2>2, <2>3, <2>4, <2>5 DEF Settles, Park
    <3>2. "rejected" \in Status  BY DEF Status
    <3>. QED  BY <2>2, <3>1, <3>2 DEF Effect
  <2>6. CASE ~shuttingDown
    <3>1. cur # NoNode  BY <1>2 DEF ScheduleParks
    <3>2. Waits(j)  BY <2>1, <2>2, <2>3, <2>4, <2>6, <3>1 DEF Waits, Park
    <3>. QED  BY <2>2, <3>2 DEF Effect
  <2>. QED  BY <2>5, <2>6
<1>3. CASE ScheduleDispatches
  <2>1. PICK j \in Queue(cur) :
           QueuedChoice(cur, ix, Queue(cur), turn[cur], j) /\ Dispatch(cur, ix, j)
    BY <1>3 DEF ScheduleDispatches
  <2>2. j \in Eligible(cur, ix, Queue(cur), turn[cur])  BY <2>1, ChoiceEligible
  <2>3. req[j].key = NoKey \/ ~KeyActive(req[j].key)  BY <2>2 DEF Eligible
  <2>4. \A i \in Queue(cur) : SameKey(i, j) => j <= i  BY <2>1, ChoiceFirst
  <2>5. Serviceable(cur) /\ UNCHANGED <<next, req, at, home>>
    BY <1>3 DEF ScheduleDispatches
  <2>6. Starts(j)  BY <1>1, <2>1, <2>3, <2>4, <2>5 DEF Starts, Dispatch
  <2>. QED  BY <2>6 DEF Effect, Queue
<1>. QED  BY <1>2, <1>3

LEMMA CallbackEffect ==
    ASSUME IInv, CallbackStep
    PROVE  Effect
<1>. USE DEF IInv, nodeVars, gateVars, callVars, reqVars
<1>1. CASE ScheduleReturns \/ ScheduleSkips \/ ScheduleCalled
  BY <1>1 DEF ScheduleReturns, ScheduleSkips, ScheduleCalled, Effect, Keeps
<1>2. CASE PumpReturns
  <2>1. UNCHANGED <<next, req, st, slot>>  BY <1>2 DEF PumpReturns
  <2>2. \/ UNCHANGED <<home, at>>
        \/ \E j \in Job : \E s \in Node : \E d \in Node :
              RelocationOffer(j, s, d) /\ Relocate(j, d)
    BY <1>2 DEF PumpReturns, RebalanceUndispatched
  <2>3. CASE UNCHANGED <<home, at>>  BY <2>1, <2>3 DEF Effect, Keeps
  <2>. QED  BY <2>1, <2>2, <2>3, RelocateEffect
<1>. QED  BY <1>1, <1>2, ScheduleEffect, PumpEffect DEF CallbackStep

LEMMA NextEffect ==
    ASSUME IInv, [Next]_vars
    PROVE  Effect
<1>. USE DEF IInv, nodeVars, gateVars, callVars, reqVars
<1>1. CASE UNCHANGED vars  BY <1>1 DEF vars, Effect, Keeps
<1>2. CASE ClientCallback
  <2>1. ASSUME NEW j \in Job, ClientCancels(j) PROVE Effect
    <3>1. CASE st[j] \in {"waiting", "queued"} /\ Leave(j, "cancelled")
      BY <2>1, <3>1, LeaveEffect DEF ClientCancels, Status
    <3>2. CASE UNCHANGED <<st, at, slot, fresh, callVars>>
      BY <2>1, <3>2 DEF ClientCancels, Effect, Keeps
    <3>. QED  BY <2>1, <3>1, <3>2 DEF ClientCancels
  <2>2. ASSUME NEW j \in Job, QueueTimeout(j) PROVE Effect
    BY <2>2, LeaveEffect DEF QueueTimeout, Status
  <2>. QED  BY <1>2, <2>1, <2>2, ArrivalEffect DEF ClientCallback
<1>3. CASE UpstreamCallback
  <2>1. PICK j \in Job : UpstreamEnds(j)  BY <1>3 DEF UpstreamCallback
  <2>2. PICK outcome \in {"complete", "fault", "failure", "other"},
             result \in {"finished", "rejected"} : Finish(j, outcome, result)
    BY <2>1 DEF UpstreamEnds
  <2>3. st[j] = "active"  BY <2>1 DEF UpstreamEnds
  <2>4. Leave(j, result) /\ UNCHANGED <<next, req, home>>  BY <2>2 DEF Finish
  <2>. QED  BY <2>2, <2>3, <2>4, LeaveEffect DEF Status
<1>4. CASE TimerCallback
  BY <1>4 DEF TimerCallback, TurnDeadlinePasses, TurnTimer, WaitingTimer, Effect, Keeps
<1>5. CASE WorkerCallback
  BY <1>5 DEF WorkerCallback, ProbeSucceeds, ProbeFails, RecoveryBegins, RecoveryEnds,
              Effect, Keeps
<1>6. CASE ControlCallback
  <2>1. CASE \E n \in Node : DrainWorker(n) \/ ResumeBegins(n) \/ ResumeProbed(n)
                               \/ ResumeCommits(n) \/ ResumeFails(n)
    BY <2>1 DEF DrainWorker, ResumeBegins, ResumeProbed, ResumeCommits, ResumeFails,
                Effect, Keeps
  <2>2. CASE \E j \in Job : \E p \in 0..2 : SetJobPriority(j, p)
    BY <2>2 DEF SetJobPriority, Effect, Keeps
  <2>3. CASE \E j \in Job : \E s \in Node : \E d \in Node : RelocateQueued(j, s, d)
    BY <2>3, RelocateEffect DEF RelocateQueued
  <2>4. CASE \E t \in TurnSettings : SetConversationTurns(t)
    BY <2>4 DEF SetConversationTurns, Effect, Keeps
  <2>5. CASE \E value \in BOOLEAN : Drain(value)
    BY <2>5 DEF Drain, Effect, Keeps
  <2>6. CASE Close
    <3>1. \A j \in Job : st[j] # "waiting" => at'[j] = at[j]  BY <2>6 DEF Close
    <3>2. Stops  BY <2>6, <3>1 DEF Close, Stops
    <3>. QED  BY <3>2 DEF Effect
  <2>. QED  BY <1>6, <2>1, <2>2, <2>3, <2>4, <2>5, <2>6 DEF ControlCallback
<1>. QED  BY <1>1, <1>2, <1>3, <1>4, <1>5, <1>6, CallbackEffect DEF Next

----------------------------------------------------------------------------
(* Every effect preserves the invariants about requests.                   *)

LEMMA NumberedStep ==
    ASSUME TypeOK, Numbered, Effect
    PROVE  Numbered'
<1>1. next \in Nat /\ Job \subseteq Nat /\ st \in [Job -> Status]  BY DEF TypeOK, Job
<1>2. CASE Keeps  BY <1>2 DEF Keeps, Numbered
<1>3. CASE Stops  BY <1>1, <1>3 DEF Stops, Numbered
<1>4. ASSUME NEW j \in Job, NEW s \in Status \ {"new"}, st' = [st EXCEPT ![j] = s],
             Created(j) \/ (st[j] # "new" /\ next' = next)
      PROVE  Numbered'
  BY <1>1, <1>4 DEF Created, Numbered
<1>5. ASSUME NEW j \in Job, Waits(j) PROVE Numbered'
  BY <1>4, <1>5 DEF Waits, Status
<1>6. ASSUME NEW j \in Job, Starts(j) PROVE Numbered'
  BY <1>4, <1>6 DEF Starts, Queue, Status
<1>7. ASSUME NEW j \in Job, NEW n \in Node, Queues(j, n) PROVE Numbered'
  BY <1>4, <1>7 DEF Queues, Status
<1>8. ASSUME NEW j \in Job, NEW n \in Node, Moves(j, n) PROVE Numbered'
  BY <1>8 DEF Moves, Numbered
<1>9. ASSUME NEW j \in Job, NEW result \in Status, Settles(j, result) PROVE Numbered'
  <2>1. result # "new"  BY <1>9 DEF Settles
  <2>2. Created(j) \/ (st[j] # "new" /\ next' = next)  BY <1>9 DEF Settles
  <2>. QED  BY <1>4, <1>9, <2>1, <2>2 DEF Settles
<1>. QED  BY <1>2, <1>3, <1>5, <1>6, <1>7, <1>8, <1>9 DEF Effect

LEMMA PlacedStep ==
    ASSUME TypeOK, Placed, Effect
    PROVE  Placed'
<1>1. st \in [Job -> Status] /\ at \in [Job -> NodeOrNone] /\ slot \in [Job -> Slot \cup {0}]
  BY DEF TypeOK
<1>2. CASE Keeps  BY <1>2 DEF Keeps, Placed
<1>3. CASE Stops  BY <1>1, <1>3 DEF Stops, Placed
<1>5. ASSUME NEW j \in Job, Waits(j) PROVE Placed'
  BY <1>1, <1>5 DEF Waits, Placed
<1>6. ASSUME NEW j \in Job, Starts(j) PROVE Placed'
  <2>1. at[j] = cur  BY <1>6 DEF Starts, Queue
  <2>. QED  BY <1>1, <1>6, <2>1 DEF Starts, Placed
<1>7. ASSUME NEW j \in Job, NEW n \in Node, Queues(j, n) PROVE Placed'
  BY <1>1, <1>7 DEF Queues, Placed
<1>8. ASSUME NEW j \in Job, NEW n \in Node, Moves(j, n) PROVE Placed'
  BY <1>1, <1>8 DEF Moves, Placed
<1>9. ASSUME NEW j \in Job, NEW result \in Status, Settles(j, result) PROVE Placed'
  BY <1>1, <1>9 DEF Settles, Placed
<1>. QED  BY <1>2, <1>3, <1>5, <1>6, <1>7, <1>8, <1>9 DEF Effect

LEMMA UnaffinedStep ==
    ASSUME FlexibleUnaffined, Effect
    PROVE  FlexibleUnaffined'
<1>1. req' = req
  BY DEF Effect, Keeps, Stops, Waits, Starts, Queues, Moves, Settles
<1>. QED  BY <1>1 DEF FlexibleUnaffined, Flexible

(* A new home is only written while no work of the conversation is under   *)
(* way elsewhere.                                                          *)
LEMMA HomeStep ==
    ASSUME IInv, Effect
    PROVE  HomeOwnsWork'
<1>. USE DEF IInv
<1>1. st \in [Job -> Status] /\ at \in [Job -> NodeOrNone] /\ home \in [Key -> NodeOrNone]
  BY DEF TypeOK
<1>2. CASE Keeps  BY <1>2 DEF Keeps, HomeOwnsWork
<1>3. CASE Stops  BY <1>1, <1>3 DEF Stops, HomeOwnsWork
<1>5. ASSUME NEW j \in Job, Waits(j) PROVE HomeOwnsWork'
  BY <1>1, <1>5 DEF Waits, HomeOwnsWork
<1>6. ASSUME NEW j \in Job, Starts(j) PROVE HomeOwnsWork'
  BY <1>1, <1>6 DEF Starts, Queue, HomeOwnsWork
<1>7. ASSUME NEW j \in Job, NEW n \in Node, Queues(j, n) PROVE HomeOwnsWork'
  <2>1. SUFFICES ASSUME NEW i \in Job, st'[i] \in {"queued", "active"}, req[i].key # NoKey
                 PROVE  at'[i] = home'[req[i].key]
    BY <1>7 DEF Queues, HomeOwnsWork
  <2>2. req[i].key \in Key  BY <2>1 DEF TypeOK, Request, KeyOrNone
  <2>3. CASE i = j  BY <1>1, <1>7, <2>1, <2>2, <2>3 DEF Queues
  <2>4. CASE i # j
    <3>1. st[i] \in {"queued", "active"} /\ at'[i] = at[i] /\ at[i] = home[req[i].key]
      BY <1>1, <1>7, <2>1, <2>4 DEF Queues, HomeOwnsWork
    <3>2. CASE req[i].key = req[j].key
      <4>1. SessionBusy(req[j].key)  BY <2>1, <3>1, <3>2 DEF SessionBusy, SessionWork
      <4>2. n = home[req[i].key]  BY <1>7, <3>2, <4>1 DEF Queues
      <4>. QED  BY <1>1, <1>7, <2>2, <3>1, <3>2, <4>2 DEF Queues
    <3>3. CASE req[i].key # req[j].key
      BY <1>1, <1>7, <2>2, <3>1, <3>3 DEF Queues
    <3>. QED  BY <3>2, <3>3
  <2>. QED  BY <2>3, <2>4
<1>8. ASSUME NEW j \in Job, NEW n \in Node, Moves(j, n) PROVE HomeOwnsWork'
  <2>1. SUFFICES ASSUME NEW i \in Job, st[i] \in {"queued", "active"}, req[i].key # NoKey
                 PROVE  at'[i] = home'[req[i].key]
    BY <1>8 DEF Moves, HomeOwnsWork
  <2>2. req[i].key \in Key  BY <2>1 DEF TypeOK, Request, KeyOrNone
  <2>3. CASE i = j  BY <1>1, <1>8, <2>1, <2>2, <2>3 DEF Moves
  <2>4. CASE i # j
    <3>1. req[i].key # req[j].key
      BY <1>8, <2>1, <2>4 DEF Moves, ConflictingSessionWork, SameKey
    <3>. QED  BY <1>1, <1>8, <2>1, <2>2, <2>4, <3>1 DEF Moves, HomeOwnsWork
  <2>. QED  BY <2>3, <2>4
<1>9. ASSUME NEW j \in Job, NEW result \in Status, Settles(j, result) PROVE HomeOwnsWork'
  BY <1>1, <1>9 DEF Settles, HomeOwnsWork
<1>. QED  BY <1>2, <1>3, <1>5, <1>6, <1>7, <1>8, <1>9 DEF Effect

(* queuedChoice passes over the conversations that are running.            *)
LEMMA OneActiveStep ==
    ASSUME IInv, Effect
    PROVE  OneActivePerConversation'
<1>. USE DEF IInv
<1>1. st \in [Job -> Status]  BY DEF TypeOK
<1>2. ASSUME req' = req, \A i \in Job : st'[i] = "active" => st[i] = "active"
      PROVE  OneActivePerConversation'
  BY <1>2 DEF OneActivePerConversation, SameKey
<1>3. ASSUME NEW j \in Job, Starts(j) PROVE OneActivePerConversation'
  <2>1. \A i \in Job : SameKey(i, j) => st[i] # "active"
    BY <1>3 DEF Starts, KeyActive, SameKey
  <2>2. \A i \in Job : SameKey(j, i) => st[i] # "active"
    BY <1>3 DEF Starts, KeyActive, SameKey
  <2>3. \A i \in Job \ {j} : st'[i] = st[i]  BY <1>1, <1>3 DEF Starts
  <2>. QED  BY <1>3, <2>1, <2>2, <2>3 DEF Starts, OneActivePerConversation, SameKey
<1>4. CASE Keeps  BY <1>2, <1>4 DEF Keeps
<1>5. CASE Stops  BY <1>1, <1>2, <1>5 DEF Stops
<1>6. ASSUME NEW j \in Job, Waits(j) PROVE OneActivePerConversation'
  BY <1>1, <1>2, <1>6 DEF Waits
<1>7. ASSUME NEW j \in Job, NEW n \in Node, Queues(j, n) PROVE OneActivePerConversation'
  BY <1>1, <1>2, <1>7 DEF Queues
<1>8. ASSUME NEW j \in Job, NEW n \in Node, Moves(j, n) PROVE OneActivePerConversation'
  BY <1>1, <1>2, <1>8 DEF Moves
<1>9. ASSUME NEW j \in Job, NEW result \in Status, Settles(j, result)
      PROVE  OneActivePerConversation'
  BY <1>1, <1>2, <1>9 DEF Settles
<1>. QED  BY <1>3, <1>4, <1>5, <1>6, <1>7, <1>8, <1>9 DEF Effect

LEMMA CapacityStep ==
    ASSUME IInv, Effect
    PROVE  CapacityRespected'
<1>. USE DEF IInv
<1>1. st \in [Job -> Status] /\ slot \in [Job -> Slot \cup {0}] /\ at \in [Job -> NodeOrNone]
  BY DEF TypeOK
<1>2. ASSUME \A i \in Job : st'[i] = "active" =>
                 st[i] = "active" /\ at'[i] = at[i] /\ slot'[i] = slot[i]
      PROVE  CapacityRespected'
  BY <1>2 DEF CapacityRespected
<1>3. ASSUME NEW j \in Job, Starts(j) PROVE CapacityRespected'
  <2>1. at[j] = cur /\ at' = at  BY <1>3 DEF Starts, Queue
  <2>2. \A i \in Job : st[i] = "active" /\ at[i] = cur => slot[i] # ix
    BY <1>3 DEF Starts, ActiveIn, Active
  <2>3. \A i \in Job \ {j} : st'[i] = st[i] /\ slot'[i] = slot[i]
    BY <1>1, <1>3 DEF Starts
  <2>4. slot'[j] = ix  BY <1>1, <1>3 DEF Starts
  <2>5. cur \in Node /\ ix \in 1..Capacity[cur]  BY <1>3 DEF Starts
  <2>. QED  BY <2>1, <2>2, <2>3, <2>4, <2>5 DEF CapacityRespected
<1>4. CASE Keeps  BY <1>2, <1>4 DEF Keeps
<1>5. CASE Stops  BY <1>1, <1>2, <1>5 DEF Stops
<1>6. ASSUME NEW j \in Job, Waits(j) PROVE CapacityRespected'
  BY <1>1, <1>2, <1>6 DEF Waits
<1>7. ASSUME NEW j \in Job, NEW n \in Node, Queues(j, n) PROVE CapacityRespected'
  BY <1>1, <1>2, <1>7 DEF Queues
<1>8. ASSUME NEW j \in Job, NEW n \in Node, Moves(j, n) PROVE CapacityRespected'
  BY <1>1, <1>2, <1>8 DEF Moves
<1>9. ASSUME NEW j \in Job, NEW result \in Status, Settles(j, result) PROVE CapacityRespected'
  BY <1>1, <1>2, <1>9 DEF Settles
<1>. QED  BY <1>3, <1>4, <1>5, <1>6, <1>7, <1>8, <1>9 DEF Effect

(* A dispatched request is the first of its conversation in the queue of   *)
(* the home (HomeOwnsWork), and no earlier one waits because the worker is *)
(* serviceable (ParkingOrder).  A request that becomes pending is either   *)
(* the latest one (Numbered) or was pending before.                        *)
LEMMA DispatchOrderStep ==
    ASSUME IInv, Effect
    PROVE  DispatchOrder'
<1>. USE DEF IInv
<1>1. st \in [Job -> Status] /\ Job \subseteq Nat  BY DEF TypeOK, Job
<1>2. req' = req
  BY DEF Effect, Keeps, Stops, Waits, Starts, Queues, Moves, Settles
<1>3. ASSUME \A i \in Job : st'[i] = "active" => st[i] = "active",
             \A i \in Job : st'[i] \in {"waiting", "queued"} =>
                 st[i] \in {"waiting", "queued"} \/ i = next
      PROVE  DispatchOrder'
  <2>1. \A i, j \in Job : i = next /\ st[j] = "active" => ~(i < j)
    <3>1. \A j \in Job : st[j] = "active" => ~(j >= next)  BY DEF Numbered
    <3>2. next \in Nat  BY DEF TypeOK
    <3>. QED  BY <1>1, <3>1, <3>2
  <2>. QED  BY <1>2, <1>3, <2>1 DEF DispatchOrder, SameKey
<1>4. ASSUME NEW j \in Job, Starts(j) PROVE DispatchOrder'
  <2>1. ASSUME NEW i \in Job, i < j, SameKey(i, j), st[i] = "queued" PROVE FALSE
    <3>1. st[j] = "queued" /\ at[j] = cur  BY <1>4 DEF Starts, Queue
    <3>2. at[i] = cur  BY <2>1, <3>1 DEF HomeOwnsWork, SameKey
    <3>3. j <= i  BY <1>4, <2>1, <3>2 DEF Starts, Queue
    <3>. QED  BY <1>1, <2>1, <3>3
  <2>2. ASSUME NEW i \in Job, i < j, SameKey(i, j), st[i] = "waiting" PROVE FALSE
    BY <1>4, <2>2 DEF Starts, Queue, ParkingOrder
  <2>3. \A i \in Job \ {j} : st'[i] = st[i]  BY <1>1, <1>4 DEF Starts
  <2>4. st'[j] = "active"  BY <1>1, <1>4 DEF Starts
  <2>. QED  BY <1>2, <2>1, <2>2, <2>3, <2>4 DEF DispatchOrder, SameKey
<1>5. CASE Keeps  BY <1>3, <1>5 DEF Keeps
<1>6. CASE Stops  BY <1>1, <1>3, <1>6 DEF Stops
<1>7. ASSUME NEW j \in Job, Waits(j) PROVE DispatchOrder'
  BY <1>1, <1>3, <1>7 DEF Waits, Created
<1>8. ASSUME NEW j \in Job, NEW n \in Node, Queues(j, n) PROVE DispatchOrder'
  BY <1>1, <1>3, <1>8 DEF Queues, Created
<1>9. ASSUME NEW j \in Job, NEW n \in Node, Moves(j, n) PROVE DispatchOrder'
  BY <1>1, <1>3, <1>9 DEF Moves
<1>10. ASSUME NEW j \in Job, NEW result \in Status, Settles(j, result) PROVE DispatchOrder'
  BY <1>1, <1>3, <1>10 DEF Settles
<1>. QED  BY <1>4, <1>5, <1>6, <1>7, <1>8, <1>9, <1>10 DEF Effect

(* While a callback runs schedule or pumpWaiting no other one begins.      *)
LEMMA OneCallback ==
    ASSUME Next, cur # NoNode
    PROVE  \/ ScheduleReturns \/ ScheduleSkips \/ ScheduleParks \/ ScheduleDispatches
           \/ \E n \in Node : \E i \in Slot : TurnDeadlinePasses(n, i)
<1>1. ~Quiet  BY DEF Quiet
<1>2. ~ClientCallback
  BY <1>1 DEF ClientCallback, RequestArrives, ClientCancels, QueueTimeout
<1>3. ~UpstreamCallback  BY <1>1 DEF UpstreamCallback, UpstreamEnds
<1>4. ~WorkerCallback
  BY <1>1 DEF WorkerCallback, ProbeSucceeds, ProbeFails, RecoveryBegins, RecoveryEnds, Event
<1>5. ~ControlCallback
  BY <1>1 DEF ControlCallback, DrainWorker, ResumeBegins, ResumeProbed, ResumeCommits,
              ResumeFails, SetJobPriority, RelocateQueued, SetConversationTurns, Drain,
              Close, Event
<1>. QED  BY <1>1, <1>2, <1>3, <1>4, <1>5
          DEF Next, CallbackStep, PumpVisits, PumpReturns, ScheduleCalled,
              TimerCallback, TurnTimer, WaitingTimer

LEMMA PumpedStep ==
    ASSUME IInv, [Next]_vars, TypeOK'
    PROVE  PumpedWait'
<1>. USE DEF IInv, nodeVars, gateVars, callVars, reqVars
<1>0. st \in [Job -> Status] /\ todo \subseteq Waiting /\ (~pumping => todo = {})
  BY DEF TypeOK, PumpedWait
<1>1. ASSUME NEW ns, PumpThenSchedule(ns) PROVE PumpedWait'
  BY <1>1 DEF PumpThenSchedule, PumpedWait, Waiting
<1>2. ASSUME UNCHANGED <<todo, pumping, st>> PROVE PumpedWait'
  BY <1>2 DEF PumpedWait, Waiting
<1>3. ASSUME Quiet, UNCHANGED <<todo, pumping>> PROVE PumpedWait'
  BY <1>0, <1>3 DEF Quiet, PumpedWait
<1>4. CASE UNCHANGED vars  BY <1>2, <1>4 DEF vars
<1>5. CASE CallbackStep
  <2>1. CASE ScheduleReturns \/ ScheduleSkips \/ ScheduleCalled
    BY <1>2, <2>1 DEF ScheduleReturns, ScheduleSkips, ScheduleCalled
  <2>2. CASE ScheduleParks
    <3>1. PICK j \in Queue(cur) : Park(j, cur)  BY <2>2 DEF ScheduleParks
    <3>2. \A i \in Job : st[i] = "waiting" => st'[i] = "waiting"
      BY <1>0, <3>1 DEF Park, Queue
    <3>. QED  BY <1>0, <2>2, <3>2 DEF ScheduleParks, PumpedWait, Waiting
  <2>3. CASE ScheduleDispatches
    <3>1. PICK j \in Queue(cur) : Dispatch(cur, ix, j)  BY <2>3 DEF ScheduleDispatches
    <3>2. \A i \in Job : st[i] = "waiting" => st'[i] = "waiting"
      BY <1>0, <3>1 DEF Dispatch, Queue
    <3>. QED  BY <1>0, <2>3, <3>2 DEF ScheduleDispatches, PumpedWait, Waiting
  <2>4. CASE PumpVisits
    <3>1. PICK j \in todo :
            /\ todo' = todo \ {j}
            /\ \/ \E n \in PumpTargets(j) : Admit(j, req[j].key, n)
               \/ UNCHANGED <<st, at, home, cur, ix, events>>
      BY <2>4 DEF PumpVisits
    <3>2. \A i \in Job \ {j} : st'[i] = st[i]  BY <1>0, <3>1 DEF Admit
    <3>3. pumping /\ pumping'  BY <2>4 DEF PumpVisits
    <3>. QED  BY <1>0, <3>1, <3>2, <3>3 DEF PumpedWait, Waiting
  <2>5. CASE PumpReturns
    BY <1>0, <2>5 DEF PumpReturns, PumpedWait
  <2>. QED  BY <1>5, <2>1, <2>2, <2>3, <2>4, <2>5 DEF CallbackStep
<1>6. CASE ClientCallback
  <2>1. CASE RequestArrives  BY <1>3, <2>1 DEF RequestArrives
  <2>2. ASSUME NEW j \in Job, ClientCancels(j) PROVE PumpedWait'
    BY <1>1, <1>3, <2>2 DEF ClientCancels
  <2>3. ASSUME NEW j \in Job, QueueTimeout(j) PROVE PumpedWait'
    BY <1>1, <2>3 DEF QueueTimeout
  <2>. QED  BY <1>6, <2>1, <2>2, <2>3 DEF ClientCallback
<1>7. CASE UpstreamCallback
  BY <1>1, <1>7 DEF UpstreamCallback, UpstreamEnds, Finish
<1>8. CASE TimerCallback
  BY <1>1, <1>2, <1>8 DEF TimerCallback, TurnDeadlinePasses, TurnTimer, WaitingTimer
<1>9. CASE WorkerCallback
  BY <1>2, <1>9 DEF WorkerCallback, ProbeSucceeds, ProbeFails, RecoveryBegins, RecoveryEnds
<1>10. CASE ControlCallback
  <2>1. CASE \E n \in Node : DrainWorker(n) \/ ResumeBegins(n) \/ ResumeProbed(n)
                               \/ ResumeCommits(n) \/ ResumeFails(n)
    BY <1>2, <2>1 DEF DrainWorker, ResumeBegins, ResumeProbed, ResumeCommits, ResumeFails
  <2>2. CASE \E j \in Job : \E p \in 0..2 : SetJobPriority(j, p)
    BY <1>1, <2>2 DEF SetJobPriority
  <2>3. CASE \E j \in Job : \E s \in Node : \E d \in Node : RelocateQueued(j, s, d)
    BY <1>2, <2>3 DEF RelocateQueued
  <2>4. CASE \E t \in TurnSettings : SetConversationTurns(t)
    BY <1>2, <2>4 DEF SetConversationTurns
  <2>5. CASE \E value \in BOOLEAN : Drain(value)
    BY <1>2, <2>5 DEF Drain
  <2>6. CASE Close  BY <1>3, <2>6 DEF Close, Event
  <2>. QED  BY <1>10, <2>1, <2>2, <2>3, <2>4, <2>5, <2>6 DEF ControlCallback
<1>. QED  BY <1>4, <1>5, <1>6, <1>7, <1>8, <1>9, <1>10 DEF Next

LEMMA ParkingStep ==
    ASSUME IInv, [Next]_vars, Effect
    PROVE  ParkingOrder'
<1>. USE DEF IInv, nodeVars, gateVars, callVars, reqVars
<1>0. st \in [Job -> Status] /\ at \in [Job -> NodeOrNone] /\ Job \subseteq Nat /\ next \in Nat
  BY DEF TypeOK, Job
<1>1. req' = req
  BY DEF Effect, Keeps, Stops, Waits, Starts, Queues, Moves, Settles
<1>2. SUFFICES ASSUME NEW i \in Job, NEW j \in Job, i < j, SameKey(i, j),
                      st'[i] = "waiting", st'[j] = "queued"
               PROVE  /\ cur' = at'[j] /\ ~Serviceable(cur)'
                      /\ ix' <= Capacity[cur'] /\ ActiveIn(cur, ix)' = {}
                      /\ j \in Eligible(cur, ix, Queue(cur), turn[cur])'
  BY <1>1 DEF ParkingOrder, SameKey
(* The pair is old, or schedule has just parked request i.                 *)
<1>. DEFINE Known == /\ st[j] = "queued"
                     /\ st[i] = "waiting" \/ (st[i] = "queued" /\ cur # NoNode)
<1>3. Known
  <2>1. st[j] = "queued" => i # next
    BY <1>0, <1>2 DEF Numbered
  <2>2. CASE Keeps  BY <1>2, <2>2 DEF Keeps
  <2>3. CASE Stops  BY <1>0, <1>2, <2>3 DEF Stops
  <2>4. ASSUME NEW m \in Job, Waits(m) PROVE Known
    BY <1>0, <1>2, <2>1, <2>4 DEF Waits, Created
  <2>5. ASSUME NEW m \in Job, Starts(m) PROVE Known
    BY <1>0, <1>2, <2>5 DEF Starts
  <2>6. ASSUME NEW m \in Job, NEW n \in Node, Queues(m, n) PROVE Known
    <3>1. CASE m = j
      <4>1. st[i] = "waiting"  BY <1>0, <1>2, <2>6, <3>1 DEF Queues
      <4>2. j <= i  BY <1>2, <2>6, <3>1, <4>1 DEF Queues, Waiting
      <4>. QED  BY <1>0, <1>2, <4>2
    <3>2. CASE m # j  BY <1>0, <1>2, <2>6, <3>2 DEF Queues
    <3>. QED  BY <3>1, <3>2
  <2>7. ASSUME NEW m \in Job, NEW n \in Node, Moves(m, n) PROVE Known
    BY <1>2, <2>7 DEF Moves
  <2>8. ASSUME NEW m \in Job, NEW result \in Status, Settles(m, result) PROVE Known
    BY <1>0, <1>2, <2>8 DEF Settles
  <2>. QED  BY <2>2, <2>3, <2>4, <2>5, <2>6, <2>7, <2>8 DEF Effect
<1>4. cur \in Node
  <2>1. at[j] \in Node  BY <1>3 DEF Placed
  <2>. QED  BY <1>2, <1>3, <2>1 DEF ParkingOrder, TypeOK, NodeOrNone
<1>5. cur # NoNode  BY <1>4, NullAssumption DEF NullAssumption
(* What is known of the worker when the pair is old.                       *)
<1>6. ASSUME st[i] = "waiting"
      PROVE  /\ cur = at[j] /\ ~Serviceable(cur)
             /\ ix <= Capacity[cur] /\ ActiveIn(cur, ix) = {}
             /\ j \in Eligible(cur, ix, Queue(cur), turn[cur])
  BY <1>2, <1>3, <1>6 DEF ParkingOrder
<1>7. Capacity[cur] \in Nat /\ ix \in Nat
  BY <1>4, SlotAssumption DEF SlotAssumption, TypeOK
<1>8. CASE UNCHANGED vars
  <2>1. UNCHANGED <<st, at, slot, turn, cur, ix, turns, healthy, quarantined, recovering>>
    BY <1>8 DEF vars
  <2>2. st[i] = "waiting"  BY <1>2, <2>1
  <2>. QED  BY <1>1, <1>6, <2>1, <2>2
            DEF Serviceable, ActiveIn, Active, Queue, Eligible, KeyActive
(* schedule neither returns nor goes to the next slot before it has parked *)
(* request j.                                                              *)
<1>9. ~ScheduleReturns
  <2>1. SUFFICES ASSUME ScheduleReturns PROVE FALSE  OBVIOUS
  <2>2. st[i] = "waiting"  BY <1>2, <2>1 DEF ScheduleReturns
  <2>3. j \in Queue(cur)  BY <1>3, <1>6, <2>2 DEF Queue
  <2>. QED  BY <1>6, <1>7, <2>1, <2>2, <2>3 DEF ScheduleReturns
<1>10. ~ScheduleSkips
  <2>1. SUFFICES ASSUME ScheduleSkips PROVE FALSE  OBVIOUS
  <2>2. st[i] = "waiting"  BY <1>2, <2>1 DEF ScheduleSkips
  <2>3. QueuedNothing(cur, ix, Queue(cur), turn[cur])
    BY <1>6, <2>1, <2>2 DEF ScheduleSkips
  <2>4. Kept(cur, turn[cur][ix]).key = NoKey  BY <1>6, <2>2 DEF Kept, NoTurn
  <2>. QED  BY <1>6, <2>2, <2>3, <2>4 DEF QueuedNothing
<1>11. ~ScheduleDispatches
  <2>1. SUFFICES ASSUME ScheduleDispatches PROVE FALSE  OBVIOUS
  <2>2. PICK m \in Queue(cur) : st' = [st EXCEPT ![m] = "active"]
    BY <2>1 DEF ScheduleDispatches, Dispatch
  <2>3. st[i] = "waiting"  BY <1>0, <1>2, <2>2 DEF Queue
  <2>. QED  BY <1>6, <2>1, <2>3 DEF ScheduleDispatches
<1>12. CASE ScheduleParks
  <2>1. PICK m \in Queue(cur) : /\ QueuedChoice(cur, ix, Queue(cur), turn[cur], m)
                                /\ Park(m, cur)
    BY <1>12 DEF ScheduleParks
  <2>2. m # j /\ st'[j] = st[j] /\ at'[j] = at[j]
    BY <1>0, <1>2, <2>1 DEF Park, Queue
  <2>3. \A x \in Job : st'[x] = "active" <=> st[x] = "active"
    BY <1>0, <2>1 DEF Park, Queue
  <2>4. \A x \in Job : st[x] = "active" => at'[x] = at[x]
    BY <1>0, <2>1 DEF Park, Queue
  <2>5. j \in Eligible(cur, ix, Queue(cur), turn[cur]) /\ at[j] = cur
    <3>1. CASE st[i] = "waiting"  BY <1>6, <3>1
    <3>2. CASE st[i] = "queued"
      <4>1. i = m  BY <1>0, <1>2, <2>1, <3>2 DEF Park
      <4>2. at[j] = at[i] /\ at[i] = cur
        BY <1>2, <1>3, <2>1, <3>2, <4>1 DEF HomeOwnsWork, SameKey, Queue
      <4>3. j \in Queue(cur)  BY <1>3, <4>2 DEF Queue
      <4>4. i \in Eligible(cur, ix, Queue(cur), turn[cur])  BY <2>1, <4>1, ChoiceEligible
      <4>5. SameKey(j, i)  BY <1>2 DEF SameKey
      <4>. QED  BY <4>2, <4>3, <4>4, <4>5, SameEligible
    <3>. QED  BY <1>3, <3>1, <3>2
  <2>6. UNCHANGED <<cur, ix, slot, turns, healthy, quarantined, recovering>>
    BY <1>12 DEF ScheduleParks
  <2>7. turn' = [turn EXCEPT ![cur][ix] = NoTurn] /\ ~Serviceable(cur)
        /\ ix <= Capacity[cur] /\ ActiveIn(cur, ix) = {}
    BY <1>12 DEF ScheduleParks
  <2>8. \A o \in 1..Capacity[cur] : o # ix => turn'[cur][o] = turn[cur][o]
    BY <1>4, <2>7 DEF TypeOK
  <2>9. \A k : KeyActive(k)' => KeyActive(k)  BY <1>1, <2>3 DEF KeyActive
  <2>10. ActiveIn(cur, ix)' = {}
    BY <2>3, <2>4, <2>6, <2>7 DEF ActiveIn, Active
  <2>11. j \in Queue(cur)'  BY <1>3, <2>2, <2>5, <2>6 DEF Queue
  <2>12. j \in Eligible(cur, ix, Queue(cur), turn[cur])'
    BY <1>1, <2>5, <2>6, <2>8, <2>9, <2>11 DEF Eligible
  <2>. QED  BY <2>2, <2>5, <2>6, <2>7, <2>10, <2>12 DEF Serviceable
<1>13. ASSUME NEW n \in Node, NEW s \in Slot, TurnDeadlinePasses(n, s)
       PROVE  /\ cur' = at'[j] /\ ~Serviceable(cur)'
              /\ ix' <= Capacity[cur'] /\ ActiveIn(cur, ix)' = {}
              /\ j \in Eligible(cur, ix, Queue(cur), turn[cur])'
  <2>1. UNCHANGED <<st, at, slot, cur, ix, turns, healthy, quarantined, recovering>>
    BY <1>13 DEF TurnDeadlinePasses
  <2>2. st[i] = "waiting"  BY <1>2, <2>1
  <2>3. turn' = [turn EXCEPT ![n][s].grace = "passed"] /\ turn \in [Node -> [Slot -> Turn]]
    BY <1>13 DEF TurnDeadlinePasses, TypeOK
  <2>4. 1..Capacity[cur] \subseteq Slot
    BY <1>4, SlotAssumption DEF SlotAssumption
  <2>5. \A o \in 1..Capacity[cur] : /\ turn'[cur][o].key = turn[cur][o].key
                                    /\ turn'[cur][o].used = turn[cur][o].used
    BY <1>4, <2>3, <2>4 DEF Turn
  <2>6. Queue(cur)' = Queue(cur) /\ ActiveIn(cur, ix)' = ActiveIn(cur, ix)
    BY <2>1 DEF Queue, ActiveIn, Active
  <2>7. \A k : KeyActive(k)' <=> KeyActive(k)  BY <1>1, <2>1 DEF KeyActive
  <2>8. j \in Eligible(cur, ix, Queue(cur), turn[cur])'
    BY <1>1, <1>6, <2>1, <2>2, <2>5, <2>6, <2>7 DEF Eligible
  <2>. QED  BY <1>6, <2>1, <2>2, <2>6, <2>8 DEF Serviceable
<1>. QED  BY <1>5, <1>8, <1>9, <1>10, <1>11, <1>12, <1>13, OneCallback

----------------------------------------------------------------------------
(* Turn allocations.                                                       *)

(* No request starts and the allocations are kept or dropped.              *)
StillActive ==
    \A j \in Job : st'[j] = "active" =>
        st[j] = "active" /\ at'[j] = at[j] /\ slot'[j] = slot[j]

TurnsDwindle ==
    /\ turns' = turns
    /\ \A n \in Node : \A i \in Slot :
          \/ turn'[n][i].key = NoKey
          \/ turn'[n][i].key = turn[n][i].key /\ turn'[n][i].used = turn[n][i].used

LEMMA EffectKeepsActive ==
    ASSUME TypeOK, Effect
    PROVE  req' = req /\ (StillActive \/ \E j \in Job : Starts(j))
<1>1. st \in [Job -> Status] /\ at \in [Job -> NodeOrNone] /\ slot \in [Job -> Slot \cup {0}]
  BY DEF TypeOK
<1>2. req' = req
  BY DEF Effect, Keeps, Stops, Waits, Starts, Queues, Moves, Settles
<1>3. CASE Keeps  BY <1>2, <1>3 DEF Keeps, StillActive
<1>4. CASE Stops  BY <1>1, <1>2, <1>4 DEF Stops, StillActive
<1>5. ASSUME NEW j \in Job, Waits(j) PROVE StillActive
  BY <1>1, <1>5 DEF Waits, StillActive
<1>6. ASSUME NEW j \in Job, NEW n \in Node, Queues(j, n) PROVE StillActive
  BY <1>1, <1>6 DEF Queues, StillActive
<1>7. ASSUME NEW j \in Job, NEW n \in Node, Moves(j, n) PROVE StillActive
  BY <1>1, <1>7 DEF Moves, StillActive
<1>8. ASSUME NEW j \in Job, NEW result \in Status, Settles(j, result) PROVE StillActive
  BY <1>1, <1>8 DEF Settles, StillActive
<1>. QED  BY <1>2, <1>3, <1>4, <1>5, <1>6, <1>7, <1>8 DEF Effect

(* Only schedule starts a request.                                         *)
LEMMA OnlyDispatchStarts ==
    ASSUME IInv, [Next]_vars
    PROVE  req' = req /\ (StillActive \/ ScheduleDispatches)
<1>. USE DEF IInv
<1>1. req' = req /\ (StillActive \/ \E j \in Job : Starts(j))
  BY NextEffect, EffectKeepsActive
<1>2. ASSUME NEW j \in Job, Starts(j) PROVE ScheduleDispatches
  <2>1. cur # NoNode  BY <1>2, NullAssumption DEF NullAssumption, Starts
  <2>2. st[j] = "queued" /\ st'[j] = "active"  BY <1>2 DEF Starts, Queue, TypeOK
  <2>3. Next  BY <2>2 DEF vars, reqVars
  <2>4. ~ScheduleReturns /\ ~ScheduleSkips
    BY <2>2 DEF ScheduleReturns, ScheduleSkips, reqVars
  <2>5. \A n \in Node : \A i \in Slot : ~TurnDeadlinePasses(n, i)
    BY <2>2 DEF TurnDeadlinePasses, reqVars
  <2>6. ~ScheduleParks
    <3>1. ASSUME NEW m \in Queue(cur), Park(m, cur) PROVE FALSE
      BY <2>2, <3>1 DEF Park, TypeOK
    <3>. QED  BY <3>1 DEF ScheduleParks
  <2>. QED  BY <2>1, <2>3, <2>4, <2>5, <2>6, OneCallback
<1>. QED  BY <1>1, <1>2

LEMMA OneTurnDwindles ==
    ASSUME TypeOK, NEW n \in Node, NEW i \in Slot, NEW t,
           turn' = [turn EXCEPT ![n][i] = t], turns' = turns,
           t.key = NoKey \/ (t.key = turn[n][i].key /\ t.used = turn[n][i].used)
    PROVE  TurnsDwindle
<1>1. turn \in [Node -> [Slot -> Turn]]  BY DEF TypeOK
<1>2. SUFFICES ASSUME NEW m \in Node, NEW o \in Slot
               PROVE  \/ turn'[m][o].key = NoKey
                      \/ /\ turn'[m][o].key = turn[m][o].key
                         /\ turn'[m][o].used = turn[m][o].used
  BY DEF TurnsDwindle
<1>3. CASE m = n /\ o = i  BY <1>1, <1>3
<1>4. CASE ~(m = n /\ o = i)
  <2>1. turn'[m][o] = turn[m][o]  BY <1>1, <1>4
  <2>. QED  BY <2>1
<1>. QED  BY <1>3, <1>4

LEMMA NoTurnKey == NoTurn.key = NoKey
BY DEF NoTurn

LEMMA KeptDwindles ==
    ASSUME NEW n, NEW i
    PROVE  \/ KeptTurn(n, i).key = NoKey
           \/ /\ KeptTurn(n, i).key = turn[n][i].key
              /\ KeptTurn(n, i).used = turn[n][i].used
BY NoTurnKey DEF KeptTurn, Kept

(* Outside schedule and setConversationTurns allocations only end.         *)
LEMMA TurnsOnlyDwindle ==
    ASSUME IInv, [Next]_vars, ~ScheduleDispatches,
           \A t \in TurnSettings : ~SetConversationTurns(t)
    PROVE  TurnsDwindle
<1>. USE DEF IInv, nodeVars, gateVars, callVars, reqVars
<1>1. ASSUME UNCHANGED <<turn, turns>> PROVE TurnsDwindle  BY <1>1 DEF TurnsDwindle
<1>2. CASE UNCHANGED vars  BY <1>1, <1>2 DEF vars
<1>3. CASE CallbackStep
  <2>1. CASE ScheduleReturns \/ PumpVisits \/ PumpReturns \/ ScheduleCalled
    BY <1>1, <2>1 DEF ScheduleReturns, PumpVisits, PumpReturns, ScheduleCalled
  <2>2. CASE ScheduleSkips \/ ScheduleParks
    <3>1. cur \in Node /\ ix \in Nat /\ ix > 0 /\ ix <= Capacity[cur] /\ turns' = turns
      BY <2>2 DEF ScheduleSkips, ScheduleParks, TypeOK, NodeOrNone
    <3>2. ix \in Slot  BY <3>1, SlotFact
    <3>3. \/ UNCHANGED turn
          \/ turn' = [turn EXCEPT ![cur][ix] = KeptTurn(cur, ix)]
          \/ turn' = [turn EXCEPT ![cur][ix] = NoTurn]
      BY <2>2 DEF ScheduleSkips, ScheduleParks
    <3>. QED  BY <1>1, <3>1, <3>2, <3>3, KeptDwindles, NoTurnKey, OneTurnDwindles
  <2>. QED  BY <1>3, <2>1, <2>2 DEF CallbackStep
<1>4. CASE ClientCallback
  BY <1>1, <1>4 DEF ClientCallback, RequestArrives, ClientCancels, QueueTimeout
<1>5. CASE UpstreamCallback
  <2>1. PICK j \in Job : UpstreamEnds(j)  BY <1>5 DEF UpstreamCallback
  <2>2. PICK outcome \in {"complete", "fault", "failure", "other"},
             result \in {"finished", "rejected"} : Finish(j, outcome, result)
    BY <2>1 DEF UpstreamEnds
  <2>. DEFINE n == at[j]
  <2>3. n \in Node /\ slot[j] \in Slot
    <3>1. n \in Node /\ slot[j] \in 1..Capacity[n]  BY <2>1 DEF UpstreamEnds, Placed
    <3>. QED  BY <3>1, SlotFact, SlotAssumption DEF SlotAssumption
  <2>4. turn' = [turn EXCEPT ![n][slot[j]] = FinishedTurn(n, slot[j], outcome)] /\ turns' = turns
    BY <2>2 DEF Finish
  <2>5. turn[n][slot[j]] \in Turn  BY <2>3 DEF TypeOK
  <2>6. \/ FinishedTurn(n, slot[j], outcome).key = NoKey
        \/ /\ FinishedTurn(n, slot[j], outcome).key = turn[n][slot[j]].key
           /\ FinishedTurn(n, slot[j], outcome).used = turn[n][slot[j]].used
    BY <2>5, NoTurnKey DEF FinishedTurn, Turn
  <2>. QED  BY <2>3, <2>4, <2>6, OneTurnDwindles
<1>6. CASE TimerCallback
  <2>1. ASSUME NEW n \in Node, NEW i \in Slot, TurnDeadlinePasses(n, i) PROVE TurnsDwindle
    <3>1. turn[n][i] \in Turn /\ turn \in [Node -> [Slot -> Turn]]  BY DEF TypeOK
    <3>2. turn' = [turn EXCEPT ![n][i] = [turn[n][i] EXCEPT !.grace = "passed"]]
      BY <2>1, <3>1 DEF TurnDeadlinePasses
    <3>3. /\ [turn[n][i] EXCEPT !.grace = "passed"].key = turn[n][i].key
          /\ [turn[n][i] EXCEPT !.grace = "passed"].used = turn[n][i].used
      BY <3>1 DEF Turn
    <3>4. turns' = turns  BY <2>1 DEF TurnDeadlinePasses
    <3>. QED  BY <3>2, <3>3, <3>4, OneTurnDwindles
  <2>2. ASSUME NEW n \in Node, NEW i \in Slot, TurnTimer(n, i) PROVE TurnsDwindle
    BY <2>2, NoTurnKey, OneTurnDwindles DEF TurnTimer
  <2>. QED  BY <1>1, <1>6, <2>1, <2>2 DEF TimerCallback, WaitingTimer
<1>7. CASE WorkerCallback
  BY <1>1, <1>7 DEF WorkerCallback, ProbeSucceeds, ProbeFails, RecoveryBegins, RecoveryEnds
<1>8. CASE ControlCallback
  <2>1. CASE Close  BY <2>1, NoTurnKey DEF Close, TurnsDwindle
  <2>2. CASE ~Close
    BY <1>1, <1>8, <2>2 DEF ControlCallback, DrainWorker, ResumeBegins, ResumeProbed,
       ResumeCommits, ResumeFails, SetJobPriority, RelocateQueued, Drain
  <2>. QED  BY <2>1, <2>2
<1>. QED  BY <1>2, <1>3, <1>4, <1>5, <1>6, <1>7, <1>8 DEF Next

LEMMA DwindlingKeeps ==
    ASSUME IInv, StillActive, TurnsDwindle, req' = req
    PROVE  TurnsOwned' /\ OneAllocationPerConversation'
<1>. USE DEF IInv
<1>2. \A n \in Node : \A i \in Slot : i > Capacity[n] => turn'[n][i].key = NoKey
  BY DEF TurnsOwned, TurnsDwindle
<1>3. ASSUME NEW j \in Job, st'[j] = "active"
      PROVE  /\ turn'[at'[j]][slot'[j]].key \in {NoKey, req'[j].key}
             /\ req'[j].key # NoKey =>
                   \A o \in Slot \ {slot'[j]} : ~Holds(at[j], o, req[j].key)'
  <2>1. st[j] = "active" /\ at'[j] = at[j] /\ slot'[j] = slot[j]
    BY <1>3 DEF StillActive
  <2>2. at[j] \in Node /\ slot[j] \in 1..Capacity[at[j]]  BY <2>1 DEF Placed
  <2>3. slot[j] \in Slot  BY <2>2, SlotFact, SlotAssumption DEF SlotAssumption
  <2>4. turn'[at[j]][slot[j]].key \in {NoKey, req[j].key}
    BY <2>1, <2>2, <2>3 DEF TurnsOwned, TurnsDwindle
  <2>5. ASSUME req[j].key # NoKey, NEW o \in Slot \ {slot[j]}
        PROVE  ~Holds(at[j], o, req[j].key)'
    <3>1. ~(turn[at[j]][o].key = req[j].key /\ turn[at[j]][o].used < turns)
      BY <2>1, <2>2, <2>5 DEF TurnsOwned, Holds
    <3>2. ~(turn'[at[j]][o].key = req[j].key /\ turn'[at[j]][o].used < turns')
      BY <3>1, <2>2, <2>5 DEF TurnsDwindle
    <3>. QED  BY <3>2, <2>1 DEF Holds
  <2>. QED  BY <2>1, <2>4, <2>5
<1>4. TurnsOwned'  BY <1>2, <1>3 DEF TurnsOwned
<1>5. OneAllocationPerConversation'
  <2>1. SUFFICES ASSUME NEW n \in Node, NEW i \in Slot, NEW o \in Slot,
                        turn'[n][i].key # NoKey, turn'[n][i].key = turn'[n][o].key,
                        turn'[n][i].used < turns', turn'[n][o].used < turns'
                 PROVE  i = o
    BY DEF OneAllocationPerConversation
  <2>2. /\ turn'[n][i].key = turn[n][i].key /\ turn'[n][i].used = turn[n][i].used
        /\ turn'[n][o].key = turn[n][o].key /\ turn'[n][o].used = turn[n][o].used
        /\ turns' = turns
    BY <2>1 DEF TurnsDwindle
  <2>. QED  BY <2>1, <2>2 DEF OneAllocationPerConversation
<1>. QED  BY <1>4, <1>5

(* The slot's new allocation is the only one of its conversation: Eligible *)
(* has looked at the other slots of the worker.                            *)
LEMMA DispatchKeepsTurns ==
    ASSUME IInv, TypeOK', CapacityRespected', ScheduleDispatches
    PROVE  TurnsOwned' /\ OneAllocationPerConversation'
<1>. USE DEF IInv, nodeVars, gateVars
<1>1. PICK j \in Queue(cur) :
         QueuedChoice(cur, ix, Queue(cur), turn[cur], j) /\ Dispatch(cur, ix, j)
  BY DEF ScheduleDispatches
<1>2. j \in Job /\ st[j] = "queued" /\ at[j] = cur  BY DEF Queue
<1>3. cur \in Node /\ ix \in Nat /\ ix > 0 /\ ix <= Capacity[cur] /\ ActiveIn(cur, ix) = {}
  BY DEF ScheduleDispatches, TypeOK, NodeOrNone
<1>4. ix \in Slot /\ Capacity[cur] \in Nat  BY <1>3, SlotFact
<1>5. UNCHANGED <<req, at, turns>>  BY DEF ScheduleDispatches
<1>. DEFINE k == req[j].key
           t == DispatchedTurn(cur, ix, j)
<1>6. st' = [st EXCEPT ![j] = "active"] /\ slot' = [slot EXCEPT ![j] = ix]
      /\ turn' = [turn EXCEPT ![cur][ix] = t]
  BY <1>1 DEF Dispatch
<1>7. /\ st \in [Job -> Status] /\ slot \in [Job -> Slot \cup {0}]
      /\ turn \in [Node -> [Slot -> Turn]]
  BY DEF TypeOK
<1>8. t.key \in {NoKey, k}  BY NoTurnKey DEF DispatchedTurn
<1>9. /\ turn'[cur][ix] = t
      /\ \A n \in Node : \A o \in Slot : ~(n = cur /\ o = ix) => turn'[n][o] = turn[n][o]
  BY <1>3, <1>4, <1>6, <1>7
<1>10. k = NoKey \/ ~KeyActive(k)
  BY <1>1, ChoiceEligible DEF Eligible
<1>11. ASSUME k # NoKey, NEW o \in Slot \ {ix}
       PROVE  ~(turn[cur][o].key = k /\ turn[cur][o].used < turns)
  <2>1. o \in Nat /\ o > 0  BY SlotAssumption DEF SlotAssumption
  <2>2. CASE o <= Capacity[cur]
    <3>1. o \in 1..Capacity[cur]  BY <1>4, <2>1, <2>2
    <3>2. j \in Eligible(cur, ix, Queue(cur), turn[cur])  BY <1>1, ChoiceEligible
    <3>. QED  BY <1>11, <3>1, <3>2 DEF Eligible
  <2>3. CASE ~(o <= Capacity[cur])
    <3>1. o > Capacity[cur]  BY <1>4, <2>1, <2>3
    <3>. QED  BY <1>3, <1>11, <3>1 DEF TurnsOwned
  <2>. QED  BY <2>2, <2>3
<1>12. \A n \in Node : \A i \in Slot : i > Capacity[n] => turn'[n][i].key = NoKey
  <2>1. SUFFICES ASSUME NEW n \in Node, NEW i \in Slot, i > Capacity[n]
                 PROVE  turn'[n][i].key = NoKey
    OBVIOUS
  <2>2. ~(n = cur /\ i = ix)  BY <1>3, <1>4, <2>1
  <2>. QED  BY <1>9, <2>1, <2>2 DEF TurnsOwned
<1>13. ASSUME NEW i \in Job, st'[i] = "active"
       PROVE  /\ turn'[at'[i]][slot'[i]].key \in {NoKey, req'[i].key}
              /\ req'[i].key # NoKey =>
                    \A o \in Slot \ {slot'[i]} : ~Holds(at[i], o, req[i].key)'
  <2>1. CASE i = j
    <3>1. at'[i] = cur /\ slot'[i] = ix /\ req'[i].key = k  BY <1>2, <1>5, <1>6, <1>7, <2>1
    <3>2. ASSUME k # NoKey, NEW o \in Slot \ {ix} PROVE ~Holds(at[i], o, req[i].key)'
      <4>1. ~(turn[cur][o].key = k /\ turn[cur][o].used < turns)  BY <1>11, <3>2
      <4>2. turn'[cur][o] = turn[cur][o]  BY <1>3, <1>9
      <4>. QED  BY <3>1, <4>1, <4>2, <1>5 DEF Holds
    <3>. QED  BY <1>8, <1>9, <3>1, <3>2
  <2>2. CASE i # j
    <3>1. st[i] = "active" /\ slot'[i] = slot[i] /\ at'[i] = at[i]
      BY <1>2, <1>5, <1>6, <1>7, <1>13, <2>2
    <3>2. at[i] \in Node /\ slot[i] \in 1..Capacity[at[i]]  BY <3>1 DEF Placed
    <3>3. slot[i] \in Slot  BY <3>2, SlotFact, SlotAssumption DEF SlotAssumption
    <3>4. ~(at[i] = cur /\ slot[i] = ix)  BY <1>3, <3>1 DEF ActiveIn, Active
    <3>5. turn'[at[i]][slot[i]].key \in {NoKey, req[i].key}
      BY <1>9, <3>1, <3>2, <3>3, <3>4 DEF TurnsOwned
    <3>6. ASSUME req[i].key # NoKey, NEW o \in Slot \ {slot[i]}
          PROVE  ~Holds(at[i], o, req[i].key)'
      <4>1. ~(turn[at[i]][o].key = req[i].key /\ turn[at[i]][o].used < turns)
        BY <3>1, <3>6 DEF TurnsOwned, Holds
      <4>2. req[i].key # k  BY <1>10, <3>1, <3>6 DEF KeyActive
      <4>3. turn'[at[i]][o] = turn[at[i]][o] \/ turn'[at[i]][o] = t  BY <1>9, <3>2
      <4>4. ~(turn'[at[i]][o].key = req[i].key /\ turn'[at[i]][o].used < turns)
        BY <1>8, <3>6, <4>1, <4>2, <4>3
      <4>. QED  BY <1>5, <3>1, <4>4 DEF Holds
    <3>. QED  BY <1>5, <3>1, <3>5, <3>6
  <2>. QED  BY <2>1, <2>2
<1>14. TurnsOwned'  BY <1>12, <1>13 DEF TurnsOwned
<1>15. OneAllocationPerConversation'
  <2>1. SUFFICES ASSUME NEW n \in Node, NEW i \in Slot, NEW o \in Slot,
                        turn'[n][i].key # NoKey, turn'[n][i].key = turn'[n][o].key,
                        turn'[n][i].used < turns, turn'[n][o].used < turns, i # o
                 PROVE  FALSE
    BY <1>5 DEF OneAllocationPerConversation
  <2>2. CASE n = cur /\ i = ix
    BY <1>8, <1>9, <1>11, <2>1, <2>2
  <2>3. CASE n = cur /\ o = ix
    BY <1>8, <1>9, <1>11, <2>1, <2>3
  <2>4. CASE ~(n = cur /\ i = ix) /\ ~(n = cur /\ o = ix)
    BY <1>9, <2>1, <2>4 DEF OneAllocationPerConversation
  <2>. QED  BY <2>2, <2>3, <2>4
<1>. QED  BY <1>14, <1>15

(* After a change of the allowance an unexhausted allocation is that of    *)
(* the request its slot runs, or it was unexhausted before.                *)
LEMMA RecountedHolds ==
    ASSUME IInv, NEW t \in Nat, NEW n \in Node, NEW i \in Slot, NEW k,
           k # NoKey, RecountedTurn(n, i, t).key = k, RecountedTurn(n, i, t).used < t
    PROVE  \/ \E j \in ActiveIn(n, i) : req[j].key = k
           \/ ActiveIn(n, i) = {} /\ Holds(n, i, k)
<1>. USE DEF IInv
<1>. DEFINE a == turn[n][i]
<1>1. a \in Turn /\ turns \in Nat
  BY SettingAssumption DEF TypeOK, SettingAssumption
<1>2. CASE ActiveIn(n, i) # {}
  <2>. DEFINE j == CHOOSE j \in ActiveIn(n, i) : TRUE
  <2>1. j \in ActiveIn(n, i)  BY <1>2
  <2>2. j \in Job /\ st[j] = "active" /\ at[j] = n /\ slot[j] = i
    BY <2>1 DEF ActiveIn, Active
  <2>3. a.key \in {NoKey, req[j].key}  BY <2>2 DEF TurnsOwned
  <2>4. RecountedTurn(n, i, t).key \in {a.key, req[j].key}
    BY <1>2 DEF RecountedTurn
  <2>. QED  BY <2>1, <2>3, <2>4
<1>3. CASE ActiveIn(n, i) = {}
  <2>1. ~(a.used >= turns /\ t > turns)  BY <1>3, NoTurnKey DEF RecountedTurn
  <2>2. RecountedTurn(n, i, t).key = a.key /\ RecountedTurn(n, i, t).used = a.used
    BY <1>1, <1>3, <2>1 DEF RecountedTurn, Turn
  <2>3. a.used \in Nat  BY <1>1 DEF Turn
  <2>4. a.key = k /\ a.used < t  BY <2>2
  <2>5. a.used < turns  BY <1>1, <2>1, <2>3, <2>4
  <2>. QED  BY <1>3, <2>4, <2>5 DEF Holds
<1>. QED  BY <1>2, <1>3

LEMMA RecountKeepsTurns ==
    ASSUME IInv, NEW t \in TurnSettings, SetConversationTurns(t)
    PROVE  TurnsOwned' /\ OneAllocationPerConversation'
<1>. USE DEF IInv
<1>0. t \in Nat  BY SettingAssumption DEF SettingAssumption
<1>1. UNCHANGED <<st, at, slot, req>> /\ turns' = t
      /\ turn' = [n \in Node |-> [i \in Slot |-> RecountedTurn(n, i, t)]]
  BY DEF SetConversationTurns, reqVars
<1>2. \A n \in Node : \A i \in Slot : turn'[n][i] = RecountedTurn(n, i, t)
  BY <1>1
<1>4. ASSUME NEW n \in Node, NEW i \in Slot, i > Capacity[n]
      PROVE  turn'[n][i].key = NoKey
  <2>1. ActiveIn(n, i) = {}
    <3>1. SUFFICES ASSUME NEW j \in ActiveIn(n, i) PROVE FALSE  OBVIOUS
    <3>2. j \in Job /\ st[j] = "active" /\ at[j] = n /\ slot[j] = i
      BY DEF ActiveIn, Active
    <3>3. i \in 1..Capacity[n]  BY <3>2 DEF Placed
    <3>4. Capacity[n] \in Nat  BY SlotAssumption DEF SlotAssumption
    <3>. QED  BY <1>4, <3>3, <3>4
  <2>2. turn[n][i] \in Turn /\ turn[n][i].key = NoKey
    BY <1>4 DEF TypeOK, TurnsOwned
  <2>3. RecountedTurn(n, i, t).key = NoKey
    BY <2>1, <2>2, NoTurnKey DEF RecountedTurn, Turn
  <2>. QED  BY <1>2, <2>3
<1>5. ASSUME NEW j \in Job, st'[j] = "active"
      PROVE  /\ turn'[at'[j]][slot'[j]].key \in {NoKey, req'[j].key}
             /\ req'[j].key # NoKey =>
                   \A o \in Slot \ {slot'[j]} : ~Holds(at[j], o, req[j].key)'
  <2>1. st[j] = "active" /\ at'[j] = at[j] /\ slot'[j] = slot[j] /\ req'[j] = req[j]
    BY <1>1, <1>5
  <2>2. at[j] \in Node /\ slot[j] \in 1..Capacity[at[j]]  BY <2>1 DEF Placed
  <2>3. slot[j] \in Slot  BY <2>2, SlotFact, SlotAssumption DEF SlotAssumption
  <2>4. ActiveIn(at[j], slot[j]) = {j}
    BY <2>1, <2>2 DEF ActiveIn, Active, CapacityRespected
  <2>5. (CHOOSE i \in ActiveIn(at[j], slot[j]) : TRUE) = j  BY <2>4
  <2>6. turn[at[j]][slot[j]].key \in {NoKey, req[j].key}  BY <2>1 DEF TurnsOwned
  <2>7. RecountedTurn(at[j], slot[j], t).key \in {NoKey, req[j].key}
    BY <2>4, <2>5, <2>6 DEF RecountedTurn
  <2>8. ASSUME req[j].key # NoKey, NEW o \in Slot \ {slot[j]},
               Holds(at[j], o, req[j].key)'
        PROVE  FALSE
    <3>1. RecountedTurn(at[j], o, t).key = req[j].key /\ RecountedTurn(at[j], o, t).used < t
      BY <1>1, <1>2, <2>1, <2>2, <2>8 DEF Holds
    <3>2. \/ \E m \in ActiveIn(at[j], o) : req[m].key = req[j].key
          \/ Holds(at[j], o, req[j].key)
      BY <1>0, <2>2, <2>8, <3>1, RecountedHolds
    <3>3. ~Holds(at[j], o, req[j].key)  BY <2>1, <2>8 DEF TurnsOwned
    <3>4. PICK m \in ActiveIn(at[j], o) : req[m].key = req[j].key  BY <3>2, <3>3
    <3>5. m \in Job /\ st[m] = "active" /\ slot[m] = o  BY DEF ActiveIn, Active
    <3>6. m = j  BY <2>1, <2>8, <3>4, <3>5 DEF OneActivePerConversation, SameKey
    <3>. QED  BY <2>8, <3>5, <3>6
  <2>. QED  BY <1>2, <2>1, <2>2, <2>3, <2>7, <2>8
<1>6. TurnsOwned'  BY <1>4, <1>5 DEF TurnsOwned
<1>7. OneAllocationPerConversation'
  <2>1. SUFFICES ASSUME NEW n \in Node, NEW i \in Slot, NEW o \in Slot,
                        turn'[n][i].key # NoKey, turn'[n][i].key = turn'[n][o].key,
                        turn'[n][i].used < turns', turn'[n][o].used < turns', i # o
                 PROVE  FALSE
    BY DEF OneAllocationPerConversation
  <2>. DEFINE k == turn'[n][i].key
  <2>2. /\ RecountedTurn(n, i, t).key = k /\ RecountedTurn(n, i, t).used < t
        /\ RecountedTurn(n, o, t).key = k /\ RecountedTurn(n, o, t).used < t
    BY <1>1, <1>2, <2>1
  <2>3. \/ \E j \in ActiveIn(n, i) : req[j].key = k
        \/ Holds(n, i, k)
    BY <1>0, <2>1, <2>2, RecountedHolds
  <2>4. \/ \E j \in ActiveIn(n, o) : req[j].key = k
        \/ Holds(n, o, k)
    BY <1>0, <2>1, <2>2, RecountedHolds
  <2>5. ASSUME NEW x \in Slot, NEW y \in Slot, x # y, NEW j \in ActiveIn(n, x), req[j].key = k
        PROVE  ~Holds(n, y, k) /\ \A m \in ActiveIn(n, y) : req[m].key # k
    <3>1. j \in Job /\ st[j] = "active" /\ at[j] = n /\ slot[j] = x  BY DEF ActiveIn, Active
    <3>2. ~Holds(n, y, k)  BY <2>1, <2>5, <3>1 DEF TurnsOwned
    <3>3. ASSUME NEW m \in ActiveIn(n, y), req[m].key = k PROVE FALSE
      <4>1. m \in Job /\ st[m] = "active" /\ slot[m] = y  BY DEF ActiveIn, Active
      <4>2. m = j  BY <2>1, <2>5, <3>1, <3>3, <4>1 DEF OneActivePerConversation, SameKey
      <4>. QED  BY <2>5, <3>1, <4>1, <4>2
    <3>. QED  BY <3>2, <3>3
  <2>6. Holds(n, i, k) /\ Holds(n, o, k)
    BY <2>1, <2>3, <2>4, <2>5
  <2>. QED  BY <2>1, <2>6 DEF Holds, OneAllocationPerConversation
<1>. QED  BY <1>6, <1>7

LEMMA TurnsStep ==
    ASSUME IInv, TypeOK', CapacityRespected', [Next]_vars
    PROVE  TurnsOwned' /\ OneAllocationPerConversation'
<1>1. CASE ScheduleDispatches  BY <1>1, DispatchKeepsTurns
<1>2. CASE \E t \in TurnSettings : SetConversationTurns(t)  BY <1>2, RecountKeepsTurns
<1>3. CASE ~ScheduleDispatches /\ \A t \in TurnSettings : ~SetConversationTurns(t)
  <2>1. req' = req /\ StillActive  BY <1>3, OnlyDispatchStarts
  <2>2. TurnsDwindle  BY <1>3, TurnsOnlyDwindle
  <2>. QED  BY <2>1, <2>2, DwindlingKeeps
<1>. QED  BY <1>1, <1>2, <1>3

----------------------------------------------------------------------------
(* Wakeups.                                                                *)

(* After the step nothing runs in slot i of n.                             *)
Vacant(n, i) ==
    \A x \in Job : ~(st'[x] = "active" /\ at'[x] = n /\ slot'[x] = i)

LEMMA VacantShrinks ==
    ASSUME StillActive, NEW n, NEW i, ActiveIn(n, i) = {}
    PROVE  Vacant(n, i)
BY DEF StillActive, ActiveIn, Active, Vacant

LEMMA ActiveInShrinks ==
    ASSUME StillActive, NEW n \in Node, NEW i \in Slot
    PROVE  ActiveIn(n, i)' \subseteq ActiveIn(n, i)
BY DEF StillActive, ActiveIn, Active

(* The idle gap of one allocation may begin, pass or end.                  *)
LEMMA GraceOne ==
    ASSUME TypeOK, GraceSound, StillActive, turns' = turns,
           NEW n \in Node, NEW i \in Slot, NEW t, turn' = [turn EXCEPT ![n][i] = t],
           t.grace # "none" => t.key # NoKey /\ t.used < turns /\ Vacant(n, i)
    PROVE  GraceSound'
<1>1. turn \in [Node -> [Slot -> Turn]]  BY DEF TypeOK
<1>2. SUFFICES ASSUME NEW m \in Node, NEW o \in Slot, turn'[m][o].grace # "none"
               PROVE  /\ turn'[m][o].key # NoKey /\ turn'[m][o].used < turns
                      /\ ActiveIn(m, o)' = {}
  BY DEF GraceSound
<1>3. CASE m = n /\ o = i
  <2>1. turn'[m][o] = t  BY <1>1, <1>3
  <2>2. t.key # NoKey /\ t.used < turns /\ Vacant(m, o)  BY <1>2, <1>3, <2>1
  <2>3. ActiveIn(m, o)' = {}  BY <2>2 DEF Vacant, ActiveIn, Active
  <2>. QED  BY <2>1, <2>2, <2>3
<1>4. CASE ~(m = n /\ o = i)
  <2>1. turn'[m][o] = turn[m][o]  BY <1>1, <1>4
  <2>2. turn[m][o].key # NoKey /\ turn[m][o].used < turns /\ ActiveIn(m, o) = {}
    BY <1>2, <2>1 DEF GraceSound
  <2>3. ActiveIn(m, o)' \subseteq ActiveIn(m, o)  BY ActiveInShrinks
  <2>. QED  BY <2>1, <2>2, <2>3
<1>. QED  BY <1>3, <1>4

LEMMA NoTurnGrace == NoTurn.grace = "none"
BY DEF NoTurn

LEMMA GraceStep ==
    ASSUME IInv, [Next]_vars
    PROVE  GraceSound'
<1>. USE DEF IInv, nodeVars, gateVars, callVars, reqVars
<1>1. ASSUME StillActive, UNCHANGED <<turn, turns>> PROVE GraceSound'
  <2>1. \A m \in Node : \A o \in Slot : ActiveIn(m, o)' \subseteq ActiveIn(m, o)
    BY <1>1, ActiveInShrinks
  <2>. QED  BY <1>1, <2>1 DEF GraceSound
<1>2. CASE ScheduleDispatches
  <2>1. PICK j \in Queue(cur) : Dispatch(cur, ix, j)  BY <1>2 DEF ScheduleDispatches
  <2>2. cur \in Node /\ ix \in Nat /\ ix > 0 /\ ix <= Capacity[cur]
    BY <1>2 DEF ScheduleDispatches, TypeOK, NodeOrNone
  <2>3. ix \in Slot  BY <2>2, SlotFact
  <2>. DEFINE t == DispatchedTurn(cur, ix, j)
  <2>4. t.grace = "none"  BY NoTurnGrace DEF DispatchedTurn
  <2>5. /\ st' = [st EXCEPT ![j] = "active"] /\ slot' = [slot EXCEPT ![j] = ix]
        /\ turn' = [turn EXCEPT ![cur][ix] = t] /\ at' = at /\ turns' = turns
    BY <1>2, <2>1 DEF Dispatch, ScheduleDispatches
  <2>6. j \in Job /\ at[j] = cur  BY DEF Queue
  <2>7. /\ turn \in [Node -> [Slot -> Turn]] /\ st \in [Job -> Status]
        /\ slot \in [Job -> Slot \cup {0}]
    BY DEF TypeOK
  <2>8. SUFFICES ASSUME NEW m \in Node, NEW o \in Slot, turn'[m][o].grace # "none"
                 PROVE  /\ turn'[m][o].key # NoKey /\ turn'[m][o].used < turns
                        /\ ActiveIn(m, o)' = {}
    BY <2>5 DEF GraceSound
  <2>9. ~(m = cur /\ o = ix)  BY <2>3, <2>4, <2>5, <2>7, <2>8
  <2>10. turn'[m][o] = turn[m][o]  BY <2>5, <2>7, <2>9
  <2>11. turn[m][o].key # NoKey /\ turn[m][o].used < turns /\ ActiveIn(m, o) = {}
    BY <2>8, <2>10 DEF GraceSound
  <2>12. ActiveIn(m, o)' = {}
    BY <2>5, <2>6, <2>7, <2>9, <2>11 DEF ActiveIn, Active
  <2>. QED  BY <2>10, <2>11, <2>12
<1>3. CASE ~ScheduleDispatches
  <2>0. StillActive  BY <1>3, OnlyDispatchStarts
  <2>1. CASE UNCHANGED vars  BY <1>1, <2>0, <2>1 DEF vars
  <2>2. CASE CallbackStep
    <3>1. CASE ScheduleReturns \/ PumpVisits \/ PumpReturns \/ ScheduleCalled
      BY <1>1, <2>0, <3>1 DEF ScheduleReturns, PumpVisits, PumpReturns, ScheduleCalled
    <3>2. CASE ScheduleSkips \/ ScheduleParks
      <4>1. cur \in Node /\ ix \in Nat /\ ix > 0 /\ ix <= Capacity[cur] /\ turns' = turns
        BY <3>2 DEF ScheduleSkips, ScheduleParks, TypeOK, NodeOrNone
      <4>2. ix \in Slot  BY <4>1, SlotFact
      <4>3. \/ UNCHANGED turn
            \/ turn' = [turn EXCEPT ![cur][ix] = KeptTurn(cur, ix)]
            \/ turn' = [turn EXCEPT ![cur][ix] = NoTurn]
        BY <3>2 DEF ScheduleSkips, ScheduleParks
      <4>4. KeptTurn(cur, ix) = turn[cur][ix] \/ KeptTurn(cur, ix) = NoTurn
        BY DEF KeptTurn, Kept
      <4>6. KeptTurn(cur, ix).grace # "none" =>
               /\ KeptTurn(cur, ix).key # NoKey /\ KeptTurn(cur, ix).used < turns
               /\ Vacant(cur, ix)
        BY <2>0, <4>1, <4>2, <4>4, NoTurnGrace, VacantShrinks DEF GraceSound
      <4>. QED  BY <1>1, <2>0, <4>1, <4>2, <4>3, <4>6, NoTurnGrace, GraceOne
    <3>. QED  BY <1>3, <2>2, <3>1, <3>2 DEF CallbackStep
  <2>3. CASE ClientCallback
    BY <1>1, <2>0, <2>3 DEF ClientCallback, RequestArrives, ClientCancels, QueueTimeout
  <2>4. CASE UpstreamCallback
    <3>1. PICK j \in Job : UpstreamEnds(j)  BY <2>4 DEF UpstreamCallback
    <3>2. PICK outcome \in {"complete", "fault", "failure", "other"},
               result \in {"finished", "rejected"} : Finish(j, outcome, result)
      BY <3>1 DEF UpstreamEnds
    <3>. DEFINE n == at[j]
               t == FinishedTurn(n, slot[j], outcome)
    <3>3. st[j] = "active"  BY <3>1 DEF UpstreamEnds
    <3>4. n \in Node /\ slot[j] \in 1..Capacity[n]  BY <3>3 DEF Placed
    <3>5. slot[j] \in Slot  BY <3>4, SlotFact, SlotAssumption DEF SlotAssumption
    <3>6. turn' = [turn EXCEPT ![n][slot[j]] = t] /\ turns' = turns  BY <3>2 DEF Finish
    <3>7. turn[n][slot[j]] \in Turn /\ turns \in Nat
      BY <3>4, <3>5, SettingAssumption DEF TypeOK, SettingAssumption
    <3>8. turn[n][slot[j]].grace = "none"
      <4>1. j \in ActiveIn(n, slot[j])  BY <3>3 DEF ActiveIn, Active
      <4>. QED  BY <3>4, <3>5, <4>1 DEF GraceSound
    <3>9. t.grace # "none" => t.key # NoKey /\ t.used < turns
      BY <3>7, <3>8, NoTurnGrace DEF FinishedTurn, Turn
    <3>10. Vacant(n, slot[j])
      <4>1. ActiveIn(n, slot[j]) = {j}
        BY <3>3, <3>4 DEF ActiveIn, Active, CapacityRespected
      <4>2. st'[j] # "active"  BY <3>2 DEF Finish, Leave, TypeOK
      <4>3. ASSUME NEW i \in Job, st'[i] = "active", at'[i] = n, slot'[i] = slot[j] PROVE FALSE
        <5>1. i \in ActiveIn(n, slot[j])  BY <2>0, <4>3 DEF StillActive, ActiveIn, Active
        <5>. QED  BY <4>1, <4>2, <4>3, <5>1
      <4>. QED  BY <4>3 DEF Vacant
    <3>. QED  BY <2>0, <3>4, <3>5, <3>6, <3>9, <3>10, GraceOne
  <2>5. CASE TimerCallback
    <3>1. ASSUME NEW n \in Node, NEW i \in Slot, TurnDeadlinePasses(n, i) PROVE GraceSound'
      <4>1. turn[n][i] \in Turn /\ turn \in [Node -> [Slot -> Turn]]  BY DEF TypeOK
      <4>. DEFINE t == [turn[n][i] EXCEPT !.grace = "passed"]
      <4>2. turn' = [turn EXCEPT ![n][i] = t] /\ turns' = turns
        BY <3>1, <4>1 DEF TurnDeadlinePasses
      <4>3. t.key = turn[n][i].key /\ t.used = turn[n][i].used  BY <4>1 DEF Turn
      <4>4. turn[n][i].key # NoKey /\ turn[n][i].used < turns /\ ActiveIn(n, i) = {}
        BY <3>1 DEF TurnDeadlinePasses, GraceSound
      <4>5. Vacant(n, i)  BY <2>0, <4>4, VacantShrinks
      <4>. QED  BY <2>0, <4>2, <4>3, <4>4, <4>5, GraceOne
    <3>2. ASSUME NEW n \in Node, NEW i \in Slot, TurnTimer(n, i) PROVE GraceSound'
      BY <2>0, <3>2, NoTurnGrace, GraceOne DEF TurnTimer
    <3>. QED  BY <1>1, <2>0, <2>5, <3>1, <3>2 DEF TimerCallback, WaitingTimer
  <2>6. CASE WorkerCallback
    BY <1>1, <2>0, <2>6 DEF WorkerCallback, ProbeSucceeds, ProbeFails, RecoveryBegins, RecoveryEnds
  <2>7. CASE ControlCallback
    <3>1. CASE Close  BY <3>1, NoTurnGrace DEF Close, GraceSound
    <3>2. ASSUME NEW t \in TurnSettings, SetConversationTurns(t) PROVE GraceSound'
      <4>1. t \in Nat /\ turns \in Nat  BY SettingAssumption DEF SettingAssumption, TypeOK
      <4>2. SUFFICES ASSUME NEW n \in Node, NEW i \in Slot, turn'[n][i].grace # "none"
                     PROVE  /\ turn'[n][i].key # NoKey /\ turn'[n][i].used < turns'
                            /\ ActiveIn(n, i)' = {}
        BY DEF GraceSound
      <4>. DEFINE a == turn[n][i]
      <4>3. turn'[n][i] = RecountedTurn(n, i, t) /\ turns' = t
        BY <3>2 DEF SetConversationTurns
      <4>4. a \in Turn  BY DEF TypeOK
      <4>5. ActiveIn(n, i) = {}
        BY <4>2, <4>3 DEF RecountedTurn, GraceSound
      <4>6. turn'[n][i] = a /\ ~(a.used >= t)
        BY <4>2, <4>3, <4>4, <4>5, NoTurnGrace DEF RecountedTurn, Turn
      <4>7. a.key # NoKey  BY <4>2, <4>6 DEF GraceSound
      <4>8. a.used \in Nat  BY <4>4 DEF Turn
      <4>9. ActiveIn(n, i)' = {}  BY <2>0, <4>5, ActiveInShrinks
      <4>. QED  BY <4>1, <4>3, <4>6, <4>7, <4>8, <4>9
    <3>3. CASE ~Close /\ \A t \in TurnSettings : ~SetConversationTurns(t)
      BY <1>1, <2>0, <2>7, <3>3 DEF ControlCallback, DrainWorker, ResumeBegins, ResumeProbed,
         ResumeCommits, ResumeFails, SetJobPriority, RelocateQueued, Drain
    <3>. QED  BY <3>1, <3>2, <3>3
  <2>. QED  BY <2>1, <2>2, <2>3, <2>4, <2>5, <2>6, <2>7 DEF Next
<1>. QED  BY <1>2, <1>3

(* The step brings worker n no work, ends none of it and leaves its        *)
(* allocations alone.                                                      *)
Untouched(n) ==
    /\ turns' = turns /\ req' = req /\ turn'[n] = turn[n]
    /\ \A j \in Job : st'[j] = "queued" /\ at'[j] = n => st[j] = "queued" /\ at[j] = n
    /\ \A j \in Job : st[j] = "active" /\ at[j] = n =>
          st'[j] = "active" /\ at'[j] = n /\ slot'[j] = slot[j]

LEMMA UntouchedAwake ==
    ASSUME IInv, NEW n \in Node, NEW i \in 1..Capacity[n], Untouched(n), Awake(n, i)
    PROVE  Awake(n, i)'
<1>. USE DEF IInv
<1>1. SUFFICES ASSUME ActiveIn(n, i)' = {}, NEW j \in Eligible(n, i, Queue(n), turn[n])'
               PROVE  turn'[n][i].grace # "none" /\ req'[j].key # turn'[n][i].key
  BY DEF Awake
<1>2. turns' = turns /\ req' = req /\ turn'[n] = turn[n]  BY DEF Untouched
<1>3. j \in Job /\ st'[j] = "queued" /\ at'[j] = n  BY DEF Eligible, Queue
<1>4. st[j] = "queued" /\ at[j] = n  BY <1>3 DEF Untouched
<1>5. ActiveIn(n, i) = {}
  <2>1. SUFFICES ASSUME NEW m \in ActiveIn(n, i) PROVE FALSE  OBVIOUS
  <2>2. m \in Job /\ st'[m] = "active" /\ at'[m] = n /\ slot'[m] = i
    BY DEF ActiveIn, Active, Untouched
  <2>. QED  BY <1>1, <2>2 DEF ActiveIn, Active
<1>6. req[j].key = NoKey \/ ~KeyActive(req[j].key)
  <2>1. SUFFICES ASSUME req[j].key # NoKey, NEW m \in Job, st[m] = "active",
                        req[m].key = req[j].key
                 PROVE  FALSE
    BY DEF KeyActive
  <2>2. at[m] = n  BY <1>3, <1>4, <2>1 DEF HomeOwnsWork
  <2>3. st'[m] = "active"  BY <2>1, <2>2 DEF Untouched
  <2>4. ~KeyActive(req[j].key)'  BY <1>1, <1>2, <2>1 DEF Eligible
  <2>. QED  BY <1>2, <2>1, <2>3, <2>4 DEF KeyActive
<1>7. j \in Eligible(n, i, Queue(n), turn[n])
  BY <1>1, <1>2, <1>3, <1>4, <1>6 DEF Eligible, Queue
<1>. QED  BY <1>2, <1>5, <1>7 DEF Awake

(* Outside schedule: what is touched is scheduled next.                    *)
LEMMA OutsideSchedule ==
    ASSUME IInv, cur = NoNode, ~shuttingDown' => ~shuttingDown,
           cur' # NoNode => ix' = 1,
           \A n \in Node \ due' : n # cur' => n \notin due /\ Untouched(n)
    PROVE  WakeupsPending'
<1>. USE DEF IInv
<1>1. SUFFICES ASSUME ~shuttingDown', NEW n \in Node \ due', NEW i \in 1..Capacity[n]
               PROVE  IF n = cur' THEN i < ix' => Passed(i)' ELSE Awake(n, i)'
  BY DEF WakeupsPending
<1>2. n # NoNode  BY NullAssumption DEF NullAssumption
<1>3. CASE n = cur'
  <2>1. ix' = 1  BY <1>2, <1>3
  <2>2. Capacity[n] \in Nat  BY SlotAssumption DEF SlotAssumption
  <2>3. ~(i < ix')  BY <2>1, <2>2
  <2>. QED  BY <1>3, <2>3
<1>4. CASE n # cur'
  <2>1. n \notin due /\ Untouched(n)  BY <1>4
  <2>2. Awake(n, i)  BY <1>1, <1>2, <2>1 DEF WakeupsPending
  <2>. QED  BY <1>4, <2>1, <2>2, UntouchedAwake
<1>. QED  BY <1>3, <1>4

LEMMA LeaveUntouched ==
    ASSUME TypeOK, NEW j \in Job, NEW result \in Status \ {"queued", "active"},
           Leave(j, result), turns' = turns, req' = req,
           NEW n \in Node, turn'[n] = turn[n], st[j] = "active" => at[j] # n
    PROVE  Untouched(n)
BY NullAssumption DEF NullAssumption, Leave, Untouched, TypeOK

LEMMA AdmitUntouched ==
    ASSUME TypeOK, NEW j \in Job, NEW k, NEW m \in Node, Admit(j, k, m), st[j] # "active",
           UNCHANGED <<turns, req, turn, slot>>, NEW n \in Node, n # cur', cur = NoNode
    PROVE  Untouched(n) /\ (cur' # NoNode => ix' = 1)
<1>1. n # m \/ cur' = NoNode  BY DEF Admit, CallSchedule
<1>2. CASE st' = [st EXCEPT ![j] = "rejected"] /\ at' = [at EXCEPT ![j] = NoNode] /\ UNCHANGED <<cur, ix>>
  BY <1>2, NullAssumption DEF NullAssumption, Untouched, TypeOK
<1>3. CASE st' = [st EXCEPT ![j] = "queued"] /\ at' = [at EXCEPT ![j] = m] /\ CallSchedule(m)
  BY <1>3 DEF CallSchedule, Untouched, TypeOK
<1>. QED  BY <1>2, <1>3 DEF Admit

LEMMA RelocateUntouched ==
    ASSUME TypeOK, NEW j \in Job, NEW d \in Node, Relocate(j, d), st[j] = "queued",
           UNCHANGED <<turns, req, turn, st, slot>>, NEW n \in Node, n # cur', cur = NoNode
    PROVE  Untouched(n) /\ (cur' # NoNode => ix' = 1)
<1>1. CASE UNCHANGED <<at, cur, ix>>  BY <1>1 DEF Untouched
<1>2. CASE at' = [at EXCEPT ![j] = d] /\ CallSchedule(d)
  BY <1>2 DEF CallSchedule, Untouched, TypeOK
<1>. QED  BY <1>1, <1>2 DEF Relocate

LEMMA StillUntouched ==
    ASSUME UNCHANGED <<st, at, slot, req, turn, turns>>, NEW n \in Node
    PROVE  Untouched(n)
BY DEF Untouched

LEMMA ClientWakeups ==
    ASSUME IInv, ClientCallback
    PROVE  WakeupsPending'
<1>. USE DEF IInv, nodeVars, gateVars, callVars, reqVars
<1>1. CASE RequestArrives
  <2>1. /\ cur = NoNode /\ due = {} /\ due' = due /\ shuttingDown' = shuttingDown
        /\ next \in Job /\ UNCHANGED <<turns, req, turn, slot>>
    BY <1>1 DEF RequestArrives, Quiet
  <2>2. st[next] = "new"  BY <2>1 DEF Numbered, TypeOK
  <2>3. st \in [Job -> Status] /\ at \in [Job -> NodeOrNone]  BY DEF TypeOK
  <2>4. \/ \E m \in Node : Admit(next, req[next].key, m)
        \/ Park(next, NoNode) /\ UNCHANGED <<cur, ix>>
        \/ st' = [st EXCEPT ![next] = "rejected"] /\ UNCHANGED <<at, cur, ix>>
    BY <1>1, <2>1, ArrivalTargetsType DEF RequestArrives
  <2>5. CASE \E m \in Node : Admit(next, req[next].key, m)
    <3>1. cur' # NoNode => ix' = 1  BY <2>1, <2>5 DEF Admit, CallSchedule
    <3>2. ASSUME NEW n \in Node, n # cur' PROVE Untouched(n)
      BY <2>1, <2>2, <2>5, <3>2, AdmitUntouched
    <3>. QED  BY <2>1, <3>1, <3>2, OutsideSchedule
  <2>6. CASE Park(next, NoNode) /\ UNCHANGED <<cur, ix>>
    <3>1. ASSUME NEW n \in Node PROVE Untouched(n)
      BY <2>1, <2>2, <2>3, <2>6, NullAssumption DEF NullAssumption, Park, Untouched
    <3>. QED  BY <2>1, <2>6, <3>1, OutsideSchedule
  <2>7. CASE st' = [st EXCEPT ![next] = "rejected"] /\ UNCHANGED <<at, cur, ix>>
    <3>1. ASSUME NEW n \in Node PROVE Untouched(n)
      BY <2>1, <2>2, <2>3, <2>7 DEF Untouched
    <3>. QED  BY <2>1, <2>7, <3>1, OutsideSchedule
  <2>. QED  BY <2>4, <2>5, <2>6, <2>7
<1>2. ASSUME NEW j \in Job, ClientCancels(j) \/ QueueTimeout(j) PROVE WakeupsPending'
  <2>1. cur = NoNode /\ due = {} /\ cur' = cur /\ shuttingDown' = shuttingDown
        /\ UNCHANGED <<turns, req, turn>>
    BY <1>2 DEF ClientCancels, QueueTimeout, Quiet, PumpThenSchedule
  <2>2. \/ UNCHANGED <<st, at, slot>>
        \/ \E result \in {"cancelled", "rejected"} :
              st[j] \in {"waiting", "queued"} /\ Leave(j, result)
    BY <1>2 DEF ClientCancels, QueueTimeout
  <2>3. ASSUME NEW n \in Node PROVE Untouched(n)
    BY <2>1, <2>2, LeaveUntouched, StillUntouched DEF Status
  <2>. QED  BY <2>1, <2>3, OutsideSchedule
<1>. QED  BY <1>1, <1>2 DEF ClientCallback

LEMMA UpstreamWakeups ==
    ASSUME IInv, UpstreamCallback
    PROVE  WakeupsPending'
<1>. USE DEF IInv
<1>1. PICK j \in Job : UpstreamEnds(j)  BY DEF UpstreamCallback
<1>2. PICK outcome \in {"complete", "fault", "failure", "other"},
           result \in {"finished", "rejected"} : Finish(j, outcome, result)
  BY <1>1 DEF UpstreamEnds
<1>3. cur = NoNode /\ due = {} /\ st[j] = "active"  BY <1>1 DEF UpstreamEnds, Quiet
<1>4. at[j] \in Node  BY <1>3 DEF Placed
<1>5. /\ cur' = cur /\ due' = {at[j]} /\ UNCHANGED <<shuttingDown, turns, req>>
      /\ Leave(j, result)
      /\ turn' = [turn EXCEPT ![at[j]][slot[j]] = FinishedTurn(at[j], slot[j], outcome)]
  BY <1>2 DEF Finish, PumpThenSchedule
<1>6. ASSUME NEW n \in Node, n # at[j] PROVE Untouched(n)
  <2>1. turn'[n] = turn[n]  BY <1>5, <1>6 DEF TypeOK
  <2>. QED  BY <1>5, <1>6, <2>1, LeaveUntouched DEF Status
<1>. QED  BY <1>3, <1>5, <1>6, OutsideSchedule

LEMMA OtherWakeups ==
    ASSUME IInv, cur = NoNode, WorkerCallback \/ ControlCallback \/ UNCHANGED vars
    PROVE  WakeupsPending'
<1>. USE DEF IInv, nodeVars, gateVars, callVars, reqVars
<1>1. ASSUME UNCHANGED <<st, at, slot, req, turn, turns, cur, shuttingDown>>,
             due' = due \/ due' = Node
      PROVE  WakeupsPending'
  <2>1. \A n \in Node : Untouched(n)  BY <1>1, StillUntouched
  <2>. QED  BY <1>1, <2>1, OutsideSchedule
<1>2. CASE UNCHANGED vars  BY <1>1, <1>2 DEF vars
<1>3. CASE WorkerCallback
  BY <1>1, <1>3 DEF WorkerCallback, ProbeSucceeds, ProbeFails, RecoveryBegins, RecoveryEnds
<1>4. CASE Close  BY <1>4 DEF Close, WakeupsPending
<1>5. ASSUME NEW j \in Job, NEW s \in Node, NEW d \in Node, RelocateQueued(j, s, d)
      PROVE  WakeupsPending'
  <2>1. Relocate(j, d) /\ UNCHANGED <<st, slot, req, turn, turns, due, shuttingDown>>
    BY <1>5 DEF RelocateQueued
  <2>2. due = {} /\ st[j] = "queued"
    BY <1>5 DEF RelocateQueued, Quiet, RelocationOffer, PriorityIndex, Heads, Queue
  <2>3. cur' # NoNode => ix' = 1  BY <2>1 DEF Relocate, CallSchedule
  <2>4. ASSUME NEW n \in Node, n # cur' PROVE Untouched(n)
    BY <2>1, <2>2, <2>4, RelocateUntouched
  <2>. QED  BY <2>1, <2>2, <2>3, <2>4, OutsideSchedule
<1>6. ASSUME NEW t \in TurnSettings, SetConversationTurns(t) PROVE WakeupsPending'
  <2>1. due' = Node /\ UNCHANGED <<cur, shuttingDown>>
    BY <1>6 DEF SetConversationTurns
  <2>. QED  BY <2>1, OutsideSchedule
<1>7. ASSUME NEW j \in Job, NEW p, SetJobPriority(j, p) PROVE WakeupsPending'
  BY <1>1, <1>7 DEF SetJobPriority, PumpThenSchedule
<1>8. CASE \E n \in Node : DrainWorker(n) \/ ResumeBegins(n) \/ ResumeProbed(n)
                              \/ ResumeCommits(n) \/ ResumeFails(n)
  BY <1>1, <1>8 DEF DrainWorker, ResumeBegins, ResumeProbed, ResumeCommits, ResumeFails
<1>9. CASE \E value \in BOOLEAN : Drain(value)
  BY <1>1, <1>9 DEF Drain
<1>. QED  BY <1>2, <1>3, <1>4, <1>5, <1>6, <1>7, <1>8, <1>9 DEF ControlCallback

LEMMA PumpWakeups ==
    ASSUME IInv, PumpVisits \/ PumpReturns \/ ScheduleCalled
    PROVE  WakeupsPending'
<1>. USE DEF IInv, nodeVars, gateVars, callVars, reqVars
<1>1. cur = NoNode /\ UNCHANGED <<turns, req, turn, slot, shuttingDown>>
  BY DEF PumpVisits, PumpReturns, ScheduleCalled
<1>2. CASE PumpVisits
  <2>1. PICK j \in todo :
          \/ \E n \in PumpTargets(j) : Admit(j, req[j].key, n)
          \/ UNCHANGED <<st, at, home, cur, ix, events>>
    BY <1>2 DEF PumpVisits
  <2>2. j \in Job /\ st[j] = "waiting" /\ due' = due  BY <1>2 DEF PumpVisits, PumpedWait, Waiting
  <2>3. CASE UNCHANGED <<st, at, home, cur, ix, events>>
    <3>1. \A n \in Node : Untouched(n)  BY <1>1, <2>3, StillUntouched
    <3>. QED  BY <1>1, <2>2, <2>3, <3>1, OutsideSchedule
  <2>4. CASE \E n \in PumpTargets(j) : Admit(j, req[j].key, n)
    <3>1. PICK m \in Node : Admit(j, req[j].key, m)  BY <2>2, <2>4, PumpTargetsFact
    <3>2. cur' # NoNode => ix' = 1  BY <1>1, <3>1 DEF Admit, CallSchedule
    <3>3. ASSUME NEW n \in Node, n # cur' PROVE Untouched(n)
      BY <1>1, <2>2, <3>1, <3>3, AdmitUntouched
    <3>. QED  BY <1>1, <2>2, <3>2, <3>3, OutsideSchedule
  <2>. QED  BY <2>1, <2>3, <2>4
<1>3. CASE PumpReturns
  <2>1. st' = st /\ due' = due  BY <1>3 DEF PumpReturns
  <2>2. \/ UNCHANGED <<at, cur, ix>>
        \/ \E j \in Job : \E s \in Node : \E d \in Node :
              RelocationOffer(j, s, d) /\ Relocate(j, d)
    BY <1>3 DEF PumpReturns, RebalanceUndispatched
  <2>3. CASE UNCHANGED <<at, cur, ix>>
    <3>1. \A n \in Node : Untouched(n)  BY <1>1, <2>1, <2>3, StillUntouched
    <3>. QED  BY <1>1, <2>1, <2>3, <3>1, OutsideSchedule
  <2>4. ASSUME NEW j \in Job, NEW s \in Node, NEW d \in Node,
               RelocationOffer(j, s, d), Relocate(j, d)
        PROVE  WakeupsPending'
    <3>1. st[j] = "queued"  BY <2>4 DEF RelocationOffer, PriorityIndex, Heads, Queue
    <3>2. cur' # NoNode => ix' = 1  BY <1>1, <2>4 DEF Relocate, CallSchedule
    <3>3. ASSUME NEW n \in Node, n # cur' PROVE Untouched(n)
      BY <1>1, <2>1, <2>4, <3>1, <3>3, RelocateUntouched
    <3>. QED  BY <1>1, <2>1, <3>2, <3>3, OutsideSchedule
  <2>. QED  BY <2>2, <2>3, <2>4
<1>4. CASE ScheduleCalled
  <2>1. PICK m \in due : cur' = m /\ ix' = 1 /\ due' = due \ {m}
    BY <1>4 DEF ScheduleCalled, CallSchedule
  <2>2. UNCHANGED <<st, at>>  BY <1>4 DEF ScheduleCalled
  <2>3. \A n \in Node : Untouched(n)  BY <1>1, <2>2, StillUntouched
  <2>. QED  BY <1>1, <2>1, <2>3, OutsideSchedule
<1>. QED  BY <1>2, <1>3, <1>4

(* Passed with the worker and the slot named.                              *)
Passes(n, i, x) ==
    \/ Awake(n, i)
    \/ /\ ~Serviceable(n) /\ x <= Capacity[n] /\ ActiveIn(n, x) = {}
       /\ Eligible(n, i, Queue(n), turn[n]) \subseteq Eligible(n, x, Queue(n), turn[n])

LEMMA PassedFact ==
    ASSUME NEW n, NEW i, NEW x
    PROVE  /\ cur = n /\ ix = x => (Passed(i) <=> Passes(n, i, x))
           /\ cur' = n /\ ix' = x => (Passed(i)' <=> Passes(n, i, x)')
<1>1. ASSUME cur = n, ix = x PROVE Passed(i) <=> Passes(n, i, x)
  BY <1>1 DEF Passed, Passes
<1>2. ASSUME cur' = n, ix' = x PROVE Passed(i)' <=> Passes(n, i, x)'
  BY <1>2 DEF Passed, Passes, Awake, Serviceable, Eligible, Queue, ActiveIn, Active, KeyActive
<1>. QED  BY <1>1, <1>2

LEMMA InsideSchedule ==
    ASSUME IInv, NEW n \in Node, cur = n, cur' = n, NEW y, ix' = y, due' = due,
           shuttingDown' = shuttingDown,
           \A m \in Node \ {n} : Untouched(m),
           ~shuttingDown /\ n \notin due =>
              \A i \in 1..Capacity[n] : i < y => Passes(n, i, y)'
    PROVE  WakeupsPending'
<1>1. SUFFICES ASSUME ~shuttingDown', NEW m \in Node \ due', NEW i \in 1..Capacity[m]
               PROVE  IF m = cur' THEN i < ix' => Passed(i)' ELSE Awake(m, i)'
  BY DEF WakeupsPending
<1>2. CASE m = n  BY <1>1, <1>2, PassedFact
<1>3. CASE m # n
  <2>1. Awake(m, i)  BY <1>1, <1>3 DEF IInv, WakeupsPending
  <2>. QED  BY <1>1, <1>3, <2>1, UntouchedAwake
<1>. QED  BY <1>2, <1>3

(* When the allocation of slot x is given up, a request that becomes       *)
(* eligible for another slot was eligible for slot x.                      *)
LEMMA NewlyEligible ==
    ASSUME IInv, NEW n \in Node, NEW x \in Slot, NEW i \in 1..Capacity[n], i # x,
           turns' = turns, req' = req,
           \A o \in 1..Capacity[n] : o # x => turn'[n][o] = turn[n][o],
           NEW m \in Eligible(n, i, Queue(n), turn[n])', m \in Queue(n),
           req[m].key = NoKey \/ ~KeyActive(req[m].key),
           m \notin Eligible(n, i, Queue(n), turn[n])
    PROVE  /\ req[m].key # NoKey
           /\ turn[n][x].key = req[m].key /\ turn[n][x].used < turns
           /\ m \in Eligible(n, x, Queue(n), turn[n])
<1>. USE DEF IInv
<1>. DEFINE k == req[m].key
<1>1. k # NoKey /\ ~KeyActive(k)  BY DEF Eligible
<1>2. PICK o \in 1..Capacity[n] : o # i /\ turn[n][o].key = k /\ turn[n][o].used < turns
  BY <1>1 DEF Eligible
<1>3. ~(turn'[n][o].key = k /\ turn'[n][o].used < turns)  BY <1>1, <1>2 DEF Eligible
<1>4. o = x  BY <1>2, <1>3
<1>5. 1..Capacity[n] \subseteq Slot  BY SlotAssumption DEF SlotAssumption
<1>6. \A p \in 1..Capacity[n] : p # x => ~(turn[n][p].key = k /\ turn[n][p].used < turns)
  BY <1>1, <1>2, <1>4, <1>5 DEF OneAllocationPerConversation
<1>. QED  BY <1>1, <1>2, <1>4, <1>6 DEF Eligible

(* An allocation in its idle gap is not of the conversation that gave up   *)
(* slot x.                                                                 *)
LEMMA OtherGrace ==
    ASSUME IInv, NEW n \in Node, NEW x \in Slot, NEW i \in Slot, i # x,
           turn[n][i].grace # "none", turn[n][x].used < turns
    PROVE  turn[n][i].key # turn[n][x].key
<1>1. turn[n][i].key # NoKey /\ turn[n][i].used < turns  BY DEF IInv, GraceSound
<1>. QED  BY <1>1 DEF IInv, OneAllocationPerConversation

LEMMA ReturnWakeups ==
    ASSUME IInv, ScheduleReturns
    PROVE  WakeupsPending'
<1>. USE DEF IInv, nodeVars, gateVars, reqVars
<1>1. UNCHANGED <<st, at, slot, req, turn, turns, due, shuttingDown>> /\ cur' = NoNode
  BY DEF ScheduleReturns
<1>2. SUFFICES ASSUME ~shuttingDown, NEW n \in Node \ due, NEW i \in 1..Capacity[n]
               PROVE  Awake(n, i)'
  BY <1>1, NullAssumption DEF NullAssumption, WakeupsPending
<1>3. Untouched(n)  BY <1>1, StillUntouched
<1>4. CASE n # cur
  <2>1. Awake(n, i)  BY <1>2, <1>4 DEF WakeupsPending
  <2>. QED  BY <1>3, <2>1, UntouchedAwake
<1>5. CASE n = cur /\ Queue(n) = {}
  <2>1. Awake(n, i)  BY <1>5 DEF Awake, Eligible
  <2>. QED  BY <1>3, <2>1, UntouchedAwake
<1>6. CASE n = cur /\ ix > Capacity[n]
  <2>1. Capacity[n] \in Nat /\ ix \in Nat  BY SlotAssumption DEF SlotAssumption, TypeOK
  <2>2. i < ix /\ ~(ix <= Capacity[n])  BY <1>6, <2>1
  <2>3. Passed(i)  BY <1>2, <1>6, <2>2 DEF WakeupsPending
  <2>4. Awake(n, i)  BY <1>6, <2>2, <2>3 DEF Passed
  <2>. QED  BY <1>3, <2>4, UntouchedAwake
<1>. QED  BY <1>4, <1>5, <1>6 DEF ScheduleReturns

LEMMA SkipWakeups ==
    ASSUME IInv, ScheduleSkips
    PROVE  WakeupsPending'
<1>. USE DEF IInv, nodeVars, gateVars, reqVars
<1>1. PICK n \in Node : n = cur  BY DEF ScheduleSkips, TypeOK, NodeOrNone
<1>2. PICK x \in Nat : x = ix  BY DEF TypeOK
<1>3. x > 0 /\ x <= Capacity[n] /\ cur' = n /\ ix' = x + 1
      /\ UNCHANGED <<st, at, slot, req, turns, due, shuttingDown, healthy, quarantined, recovering>>
  BY <1>1, <1>2, NullAssumption DEF NullAssumption, ScheduleSkips, TypeOK
<1>4. x \in Slot /\ Capacity[n] \in Nat  BY <1>3, SlotFact
<1>5. 1..Capacity[n] \subseteq Slot  BY SlotAssumption DEF SlotAssumption
<1>6. turn \in [Node -> [Slot -> Turn]]  BY DEF TypeOK
<1>7. \/ turn' = turn /\ ActiveIn(n, x) # {}
      \/ /\ turn' = [turn EXCEPT ![n][x] = KeptTurn(n, x)]
         /\ ActiveIn(n, x) = {} /\ QueuedNothing(n, x, Queue(n), turn[n])
  BY <1>1, <1>2 DEF ScheduleSkips
<1>8. ASSUME NEW m \in Node \ {n} PROVE Untouched(m)
  <2>1. turn'[m] = turn[m]  BY <1>6, <1>7
  <2>. QED  BY <1>3, <2>1 DEF Untouched
<1>9. ASSUME ~shuttingDown, n \notin due, NEW i \in 1..Capacity[n], i < x + 1
      PROVE  Awake(n, i)'
  <2>1. i < x => Passes(n, i, x)
    BY <1>1, <1>2, <1>9, PassedFact DEF WakeupsPending
  <2>2. i \in Nat /\ (i < x \/ i = x)  BY <1>4, <1>9
  <2>3. ActiveIn(n, i)' = ActiveIn(n, i) /\ Queue(n)' = Queue(n)
        /\ \A k : KeyActive(k)' <=> KeyActive(k)
    BY <1>3 DEF ActiveIn, Active, Queue, KeyActive
  <2>4. CASE turn' = turn /\ ActiveIn(n, x) # {}
    <3>1. Awake(n, i)  BY <2>1, <2>2, <2>4 DEF Passes, Awake
    <3>2. Untouched(n)  BY <1>3, <2>4 DEF Untouched
    <3>. QED  BY <3>1, <3>2, UntouchedAwake
  <2>5. CASE /\ turn' = [turn EXCEPT ![n][x] = KeptTurn(n, x)]
             /\ ActiveIn(n, x) = {} /\ QueuedNothing(n, x, Queue(n), turn[n])
    <3>. DEFINE t == KeptTurn(n, x)
               E == Eligible(n, x, Queue(n), turn[n])
    <3>1. turn'[n][x] = t /\ \A o \in Slot : o # x => turn'[n][o] = turn[n][o]
      BY <1>4, <1>6, <2>5
    <3>2. t = turn[n][x] \/ (t = NoTurn /\ E = {})
      BY <2>5, NoTurnKey DEF KeptTurn, Kept, QueuedNothing
    <3>3. Eligible(n, x, Queue(n), turn[n])' = E
      BY <1>3, <1>5, <2>3, <3>1 DEF Eligible
    <3>4. CASE i = x
      <4>1. E = {} \/ (t = turn[n][x] /\ t.grace = "armed" /\ \A m \in E : req[m].key # t.key)
        BY <2>5, <3>2, NoTurnKey DEF QueuedNothing, KeptTurn
      <4>. QED  BY <1>3, <3>1, <3>3, <3>4, <4>1 DEF Awake
    <3>5. CASE i < x
      <4>1. i # x /\ i \in Slot  BY <1>5, <2>2, <3>5
      <4>2. Eligible(n, i, Queue(n), turn[n])' \subseteq Eligible(n, i, Queue(n), turn[n])
        <5>1. SUFFICES ASSUME NEW m \in Eligible(n, i, Queue(n), turn[n])',
                              m \notin Eligible(n, i, Queue(n), turn[n])
                       PROVE  FALSE
          OBVIOUS
        <5>2. m \in Queue(n) /\ (req[m].key = NoKey \/ ~KeyActive(req[m].key))
          BY <1>3, <2>3, <5>1 DEF Eligible, KeyActive
        <5>3. m \in E
          BY <1>3, <1>4, <1>5, <3>1, <4>1, <5>1, <5>2, NewlyEligible
        <5>4. t = turn[n][x]  BY <3>2, <5>3
        <5>5. \A o \in 1..Capacity[n] : turn'[n][o] = turn[n][o]  BY <1>5, <3>1, <5>4
        <5>. QED  BY <1>3, <5>1, <5>2, <5>5 DEF Eligible
      <4>3. Awake(n, i) \/ Eligible(n, i, Queue(n), turn[n]) \subseteq {}
        <5>1. CASE Serviceable(n)  BY <2>1, <3>5, <5>1 DEF Passes
        <5>2. CASE ~Serviceable(n)
          <6>1. E = {}  BY <2>5, <5>2, NoTurnKey DEF QueuedNothing, Kept
          <6>. QED  BY <2>1, <3>5, <6>1 DEF Passes
        <5>. QED  BY <5>1, <5>2
      <4>4. turn'[n][i] = turn[n][i]  BY <3>1, <4>1
      <4>. QED  BY <1>3, <2>3, <4>2, <4>3, <4>4 DEF Awake
    <3>. QED  BY <2>2, <3>4, <3>5
  <2>. QED  BY <1>7, <2>4, <2>5
<1>10. ~shuttingDown /\ n \notin due =>
          \A i \in 1..Capacity[n] : i < x + 1 => Passes(n, i, x + 1)'
  BY <1>9 DEF Passes
<1>. QED  BY <1>1, <1>3, <1>8, <1>10, InsideSchedule

LEMMA ParkWakeups ==
    ASSUME IInv, ScheduleParks
    PROVE  WakeupsPending'
<1>. USE DEF IInv, nodeVars, gateVars, reqVars, callVars
<1>1. PICK n \in Node : n = cur  BY DEF ScheduleParks, TypeOK, NodeOrNone
<1>2. PICK x \in Nat : x = ix  BY DEF TypeOK
<1>3. PICK j \in Queue(n) : QueuedChoice(n, x, Queue(n), turn[n], j) /\ Park(j, n)
  BY <1>1, <1>2 DEF ScheduleParks
<1>4. /\ x > 0 /\ x <= Capacity[n] /\ cur' = n /\ ix' = x
      /\ ~Serviceable(n) /\ ActiveIn(n, x) = {} /\ turn' = [turn EXCEPT ![n][x] = NoTurn]
      /\ UNCHANGED <<slot, req, turns, due, shuttingDown, healthy, quarantined, recovering>>
  BY <1>1, <1>2, NullAssumption DEF NullAssumption, ScheduleParks, TypeOK
<1>5. x \in Slot /\ Capacity[n] \in Nat /\ 1..Capacity[n] \subseteq Slot
  BY <1>4, SlotFact, SlotAssumption DEF SlotAssumption
<1>6. turn \in [Node -> [Slot -> Turn]] /\ st \in [Job -> Status] /\ at \in [Job -> NodeOrNone]
  BY DEF TypeOK
<1>7. j \in Job /\ st[j] = "queued" /\ at[j] = n  BY DEF Queue
<1>8. ASSUME NEW m \in Node \ {n} PROVE Untouched(m)
  <2>1. turn'[m] = turn[m]  BY <1>4, <1>6
  <2>2. \A i \in Job \ {j} : st'[i] = st[i] /\ at'[i] = at[i]  BY <1>3, <1>6 DEF Park
  <2>3. st'[j] # "queued"  BY <1>3, <1>6, <1>7 DEF Park
  <2>. QED  BY <1>4, <1>7, <2>1, <2>2, <2>3 DEF Untouched
<1>9. ASSUME ~shuttingDown, n \notin due, NEW i \in 1..Capacity[n], i < x
      PROVE  Passes(n, i, x)'
  <2>1. Passes(n, i, x)
    BY <1>1, <1>2, <1>9, PassedFact DEF WakeupsPending
  <2>2. i # x /\ i \in Slot  BY <1>5, <1>9
  <2>3. st' = [st EXCEPT ![j] = "waiting"] /\ at' = at
    BY <1>3, <1>6, <1>7, <1>9 DEF Park
  <2>4. /\ \A o \in Slot : ActiveIn(n, o)' = ActiveIn(n, o)
        /\ Queue(n)' = Queue(n) \ {j}
        /\ \A k : KeyActive(k)' <=> KeyActive(k)
    BY <1>4, <1>6, <1>7, <2>3 DEF ActiveIn, Active, Queue, KeyActive
  <2>5. \A o \in Slot : o # x => turn'[n][o] = turn[n][o]  BY <1>4, <1>6
  <2>. DEFINE E(s) == Eligible(n, s, Queue(n), turn[n])
  <2>6. E(x) \ {j} \subseteq Eligible(n, x, Queue(n), turn[n])'
    BY <1>4, <1>5, <2>4, <2>5 DEF Eligible
  <2>7. ASSUME NEW m \in Eligible(n, i, Queue(n), turn[n])'
        PROVE  /\ m # j
               /\ \/ m \in E(i)
                  \/ m \in E(x) /\ turn[n][x].key = req[m].key /\ turn[n][x].used < turns
    <3>1. m \in Queue(n) /\ m # j /\ (req[m].key = NoKey \/ ~KeyActive(req[m].key))
      BY <1>4, <2>4, <2>7 DEF Eligible, KeyActive
    <3>. QED  BY <1>4, <1>5, <2>2, <2>5, <2>7, <3>1, NewlyEligible
  <2>8. /\ ~Serviceable(n)' /\ ActiveIn(n, x)' = {}
    BY <1>4, <1>5, <2>4 DEF Serviceable
  <2>9. CASE E(i) \subseteq E(x)
    <3>1. Eligible(n, i, Queue(n), turn[n])' \subseteq Eligible(n, x, Queue(n), turn[n])'
      BY <2>6, <2>7, <2>9
    <3>. QED  BY <1>4, <2>8, <3>1 DEF Passes
  <2>10. CASE Awake(n, i) /\ ~(E(i) \subseteq E(x))
    <3>1. CASE ActiveIn(n, i) # {}  BY <2>2, <2>4, <3>1 DEF Passes, Awake
    <3>2. CASE ActiveIn(n, i) = {}
      <4>1. turn[n][i].grace # "none" /\ \A m \in E(i) : req[m].key # turn[n][i].key
        BY <2>10, <3>2 DEF Awake
      <4>2. turn'[n][i] = turn[n][i]  BY <2>2, <2>5
      <4>3. ASSUME NEW m \in Eligible(n, i, Queue(n), turn[n])'
            PROVE  req[m].key # turn[n][i].key
        BY <1>5, <2>2, <2>7, <4>1, <4>3, OtherGrace
      <4>. QED  BY <1>4, <4>1, <4>2, <4>3 DEF Passes, Awake
    <3>. QED  BY <3>1, <3>2
  <2>. QED  BY <2>1, <2>9, <2>10 DEF Passes
<1>10. ~shuttingDown /\ n \notin due =>
          \A i \in 1..Capacity[n] : i < x => Passes(n, i, x)'
  BY <1>9
<1>. QED  BY <1>1, <1>4, <1>8, <1>10, InsideSchedule

LEMMA DispatchWakeups ==
    ASSUME IInv, ScheduleDispatches
    PROVE  WakeupsPending'
<1>. USE DEF IInv, nodeVars, gateVars, reqVars, callVars
<1>1. PICK n \in Node : n = cur  BY DEF ScheduleDispatches, TypeOK, NodeOrNone
<1>2. PICK x \in Nat : x = ix  BY DEF TypeOK
<1>3. PICK j \in Queue(n) : QueuedChoice(n, x, Queue(n), turn[n], j) /\ Dispatch(n, x, j)
  BY <1>1, <1>2 DEF ScheduleDispatches
<1>4. /\ x > 0 /\ x <= Capacity[n] /\ cur' = n /\ ix' = x + 1
      /\ Serviceable(n) /\ ActiveIn(n, x) = {}
      /\ UNCHANGED <<at, req, turns, due, shuttingDown>>
  BY <1>1, <1>2, NullAssumption DEF NullAssumption, ScheduleDispatches, TypeOK
<1>5. x \in Slot /\ Capacity[n] \in Nat /\ 1..Capacity[n] \subseteq Slot
  BY <1>4, SlotFact, SlotAssumption DEF SlotAssumption
<1>6. /\ turn \in [Node -> [Slot -> Turn]] /\ st \in [Job -> Status]
      /\ slot \in [Job -> Slot \cup {0}]
  BY DEF TypeOK
<1>7. j \in Job /\ st[j] = "queued" /\ at[j] = n  BY DEF Queue
<1>8. /\ st' = [st EXCEPT ![j] = "active"] /\ slot' = [slot EXCEPT ![j] = x]
      /\ turn' = [turn EXCEPT ![n][x] = DispatchedTurn(n, x, j)]
  BY <1>3 DEF Dispatch
<1>9. ASSUME NEW m \in Node \ {n} PROVE Untouched(m)
  <2>1. turn'[m] = turn[m]  BY <1>6, <1>8
  <2>2. \A i \in Job \ {j} : st'[i] = st[i] /\ slot'[i] = slot[i]  BY <1>6, <1>8
  <2>3. st'[j] # "queued"  BY <1>6, <1>7, <1>8
  <2>. QED  BY <1>4, <1>7, <2>1, <2>2, <2>3 DEF Untouched
<1>10. ASSUME ~shuttingDown, n \notin due, NEW i \in 1..Capacity[n], i < x + 1
       PROVE  Awake(n, i)'
  <2>1. st'[j] = "active" /\ slot'[j] = x /\ at'[j] = n  BY <1>4, <1>6, <1>7, <1>8
  <2>2. i \in Nat /\ (i < x \/ i = x)  BY <1>5, <1>10
  <2>3. CASE i = x
    <3>1. j \in ActiveIn(n, i)'  BY <1>7, <2>1, <2>3 DEF ActiveIn, Active
    <3>. QED  BY <3>1 DEF Awake
  <2>4. CASE i < x
    <3>1. Passes(n, i, x)
      BY <1>1, <1>2, <1>10, <2>4, PassedFact DEF WakeupsPending
    <3>2. Awake(n, i)  BY <1>4, <3>1 DEF Passes
    <3>3. i # x /\ i \in Slot  BY <1>5, <2>2, <2>4
    <3>4. \A o \in Slot : o # x => turn'[n][o] = turn[n][o]  BY <1>6, <1>8
    <3>5. \A m \in Job : st[m] = "active" => st'[m] = "active" /\ slot'[m] = slot[m]
      BY <1>6, <1>7, <1>8
    <3>6. SUFFICES ASSUME ActiveIn(n, i)' = {}, NEW m \in Eligible(n, i, Queue(n), turn[n])'
                   PROVE  turn[n][i].grace # "none" /\ req[m].key # turn[n][i].key
      BY <1>4, <3>3, <3>4 DEF Awake
    <3>7. ActiveIn(n, i) = {}
      BY <1>4, <3>5, <3>6 DEF ActiveIn, Active
    <3>. DEFINE E(s) == Eligible(n, s, Queue(n), turn[n])
    <3>8. m \in Queue(n)  BY <1>4, <1>6, <1>7, <1>8, <3>6 DEF Eligible, Queue
    <3>9. req[m].key = NoKey \/ ~KeyActive(req[m].key)
      BY <1>4, <3>5, <3>6 DEF Eligible, KeyActive
    <3>10. CASE m \in E(i)  BY <3>2, <3>7, <3>10 DEF Awake
    <3>11. CASE m \notin E(i)
      <4>1. req[m].key # NoKey /\ turn[n][x].key = req[m].key /\ turn[n][x].used < turns
        BY <1>4, <1>5, <3>3, <3>4, <3>6, <3>8, <3>9, <3>11, NewlyEligible
      <4>2. req[m].key # req[j].key
        BY <1>4, <1>7, <2>1, <3>6, <4>1 DEF Eligible, KeyActive
      <4>3. j \in E(x)  BY <1>3, ChoiceEligible
      <4>4. j \in E(i)  BY <4>1, <4>2, <4>3 DEF Eligible
      <4>5. turn[n][i].grace # "none"  BY <3>2, <3>7, <4>4 DEF Awake
      <4>6. turn[n][i].key # turn[n][x].key
        BY <1>5, <3>3, <4>1, <4>5, OtherGrace
      <4>. QED  BY <4>1, <4>5, <4>6
    <3>. QED  BY <3>10, <3>11
  <2>. QED  BY <2>2, <2>3, <2>4
<1>11. ~shuttingDown /\ n \notin due =>
          \A i \in 1..Capacity[n] : i < x + 1 => Passes(n, i, x + 1)'
  BY <1>10 DEF Passes
<1>. QED  BY <1>1, <1>4, <1>9, <1>11, InsideSchedule

(* Time passes at any point of a callback: an idle gap that has ended      *)
(* still waits for its timer.                                              *)
LEMMA ClockWakeups ==
    ASSUME IInv, UNCHANGED <<st, at, slot, req, turns, healthy, quarantined, recovering,
                             cur, ix, due, shuttingDown>>,
           \A n \in Node : \A i \in Slot :
              /\ turn'[n][i].key = turn[n][i].key /\ turn'[n][i].used = turn[n][i].used
              /\ turn[n][i].grace # "none" => turn'[n][i].grace # "none"
    PROVE  WakeupsPending'
<1>. USE DEF IInv
<1>1. \A n \in Node : 1..Capacity[n] \subseteq Slot
  BY SlotAssumption DEF SlotAssumption
<1>2. ASSUME NEW n \in Node
      PROVE  /\ Queue(n)' = Queue(n) /\ (Serviceable(n)' <=> Serviceable(n))
             /\ \A i : ActiveIn(n, i)' = ActiveIn(n, i)
             /\ \A i \in 1..Capacity[n] :
                   Eligible(n, i, Queue(n), turn[n])' = Eligible(n, i, Queue(n), turn[n])
  <2>1. /\ Queue(n)' = Queue(n) /\ (Serviceable(n)' <=> Serviceable(n))
        /\ \A i : ActiveIn(n, i)' = ActiveIn(n, i)
        /\ \A k : KeyActive(k)' <=> KeyActive(k)
    BY DEF Queue, Serviceable, ActiveIn, Active, KeyActive
  <2>2. ASSUME NEW i \in 1..Capacity[n]
        PROVE  Eligible(n, i, Queue(n), turn[n])' = Eligible(n, i, Queue(n), turn[n])
    BY <1>1, <2>1 DEF Eligible
  <2>. QED  BY <2>1, <2>2
<1>3. ASSUME NEW n \in Node, NEW i \in 1..Capacity[n], Awake(n, i) PROVE Awake(n, i)'
  BY <1>1, <1>2, <1>3 DEF Awake
<1>4. SUFFICES ASSUME ~shuttingDown, NEW n \in Node \ due, NEW i \in 1..Capacity[n]
               PROVE  IF n = cur' THEN i < ix' => Passed(i)' ELSE Awake(n, i)'
  BY DEF WakeupsPending
<1>5. CASE n # cur
  <2>1. Awake(n, i)  BY <1>4, <1>5 DEF WakeupsPending
  <2>. QED  BY <1>3, <1>5, <2>1
<1>6. CASE n = cur /\ i < ix
  <2>1. PICK x \in Nat : x = ix  BY DEF TypeOK
  <2>2. x > 0 /\ Capacity[n] \in Nat
    BY <1>6, <2>1, NullAssumption, SlotAssumption
    DEF NullAssumption, SlotAssumption, TypeOK
  <2>3. Passes(n, i, x)  BY <1>4, <1>6, <2>1, PassedFact DEF WakeupsPending
  <2>4. Passes(n, i, x)'
    <3>1. CASE Awake(n, i)  BY <1>3, <3>1 DEF Passes
    <3>2. CASE ~Awake(n, i)
      <4>1. x \in 1..Capacity[n]  BY <2>2, <2>3, <3>2 DEF Passes
      <4>. QED  BY <1>2, <2>3, <3>2, <4>1 DEF Passes
    <3>. QED  BY <3>1, <3>2
  <2>. QED  BY <1>6, <2>1, <2>4, PassedFact
<1>. QED  BY <1>5, <1>6

LEMMA TimerWakeups ==
    ASSUME IInv, TimerCallback
    PROVE  WakeupsPending'
<1>. USE DEF IInv, nodeVars, gateVars, callVars, reqVars
<1>1. ASSUME NEW n \in Node, NEW i \in Slot, TurnDeadlinePasses(n, i) PROVE WakeupsPending'
  <2>1. turn \in [Node -> [Slot -> Turn]] /\ turn[n][i] \in Turn  BY DEF TypeOK
  <2>2. turn' = [turn EXCEPT ![n][i] = [turn[n][i] EXCEPT !.grace = "passed"]]
    BY <1>1, <2>1 DEF TurnDeadlinePasses
  <2>3. \A m \in Node : \A o \in Slot :
          /\ turn'[m][o].key = turn[m][o].key /\ turn'[m][o].used = turn[m][o].used
          /\ turn[m][o].grace # "none" => turn'[m][o].grace # "none"
    BY <2>1, <2>2 DEF Turn
  <2>4. UNCHANGED <<st, at, slot, req, turns, healthy, quarantined, recovering,
                    cur, ix, due, shuttingDown>>
    BY <1>1 DEF TurnDeadlinePasses
  <2>. QED  BY <2>3, <2>4, ClockWakeups
<1>2. ASSUME NEW n \in Node, NEW i \in Slot, TurnTimer(n, i) PROVE WakeupsPending'
  <2>1. /\ cur = NoNode /\ due = {} /\ cur' = cur /\ due' = {n}
        /\ UNCHANGED <<st, at, slot, req, turns, shuttingDown>>
        /\ turn' = [turn EXCEPT ![n][i] = NoTurn]
    BY <1>2 DEF TurnTimer, Quiet, PumpThenSchedule
  <2>2. ASSUME NEW m \in Node, m # n PROVE Untouched(m)
    <3>1. turn'[m] = turn[m]  BY <2>1, <2>2 DEF TypeOK
    <3>. QED  BY <2>1, <3>1 DEF Untouched
  <2>. QED  BY <2>1, <2>2, OutsideSchedule
<1>3. CASE WaitingTimer
  <2>1. /\ cur = NoNode /\ due = {} /\ cur' = cur
        /\ UNCHANGED <<st, at, slot, req, turn, turns, shuttingDown>>
    BY <1>3 DEF WaitingTimer, Quiet, PumpThenSchedule
  <2>2. \A n \in Node : Untouched(n)  BY <2>1, StillUntouched
  <2>. QED  BY <2>1, <2>2, OutsideSchedule
<1>. QED  BY <1>1, <1>2, <1>3 DEF TimerCallback

LEMMA WakeupStep ==
    ASSUME IInv, [Next]_vars
    PROVE  WakeupsPending'
<1>1. CASE UNCHANGED vars
  BY <1>1, ClockWakeups DEF vars, nodeVars, gateVars, callVars, reqVars
<1>2. CASE Next /\ cur # NoNode
  <2>1. CASE \E n \in Node : \E i \in Slot : TurnDeadlinePasses(n, i)
    BY <2>1, TimerWakeups DEF TimerCallback
  <2>. QED  BY <1>2, <2>1, OneCallback, ReturnWakeups, SkipWakeups, ParkWakeups,
               DispatchWakeups
<1>3. CASE Next /\ cur = NoNode
  <2>1. ~(ScheduleReturns \/ ScheduleSkips \/ ScheduleParks \/ ScheduleDispatches)
    BY <1>3 DEF ScheduleReturns, ScheduleSkips, ScheduleParks, ScheduleDispatches
  <2>. QED  BY <1>3, <2>1, PumpWakeups, ClientWakeups, UpstreamWakeups, TimerWakeups,
               OtherWakeups DEF Next, CallbackStep
<1>. QED  BY <1>1, <1>2, <1>3

----------------------------------------------------------------------------
(* The theorems.                                                           *)

LEMMA InvariantInit == ASSUME Init PROVE IInv
<1>1. TypeOK  BY TypeInit
<1>2. \A j \in Job : st[j] = "new"  BY DEF Init
<1>3. Numbered  BY <1>2 DEF Init, Numbered, Job
<1>4. Placed  BY <1>2 DEF Placed
<1>5. PumpedWait /\ FlexibleUnaffined  BY DEF Init, PumpedWait, FlexibleUnaffined
<1>6. HomeOwnsWork /\ OneActivePerConversation /\ CapacityRespected
  BY <1>2 DEF HomeOwnsWork, OneActivePerConversation, CapacityRespected
<1>7. DispatchOrder /\ ParkingOrder  BY <1>2 DEF DispatchOrder, ParkingOrder
<1>8. \A n \in Node : \A i \in Slot : turn[n][i].key = NoKey
  BY NoTurnKey DEF Init
<1>9. TurnsOwned /\ OneAllocationPerConversation
  BY <1>2, <1>8 DEF TurnsOwned, OneAllocationPerConversation
<1>10. GraceSound  BY NoTurnGrace DEF Init, GraceSound
<1>11. \A n \in Node : Queue(n) = {}  BY <1>2 DEF Queue
<1>12. WakeupsPending
  BY <1>11, NullAssumption DEF Init, WakeupsPending, Awake, Eligible, NullAssumption
<1>. QED  BY <1>1, <1>3, <1>4, <1>5, <1>6, <1>7, <1>9, <1>10, <1>12 DEF IInv

LEMMA InvariantStep ==
    ASSUME IInv, [Next]_vars
    PROVE  IInv'
<1>1. TypeOK'  BY TypeStep DEF IInv
<1>2. Effect  BY NextEffect
<1>3. Numbered' /\ Placed' /\ FlexibleUnaffined'
  BY <1>2, NumberedStep, PlacedStep, UnaffinedStep DEF IInv
<1>4. PumpedWait'  BY <1>1, PumpedStep
<1>5. HomeOwnsWork' /\ OneActivePerConversation' /\ CapacityRespected'
  BY <1>2, HomeStep, OneActiveStep, CapacityStep
<1>6. DispatchOrder' /\ ParkingOrder'
  BY <1>2, DispatchOrderStep, ParkingStep
<1>7. TurnsOwned' /\ OneAllocationPerConversation'
  BY <1>1, <1>5, TurnsStep
<1>8. GraceSound' /\ WakeupsPending'  BY GraceStep, WakeupStep
<1>. QED  BY <1>1, <1>3, <1>4, <1>5, <1>6, <1>7, <1>8 DEF IInv

(* IInv is an invariant of the gateway.                                    *)
THEOREM Invariant == Spec => []IInv
BY InvariantInit, InvariantStep, PTL DEF Spec

(* Every variable keeps its type, whatever callbacks interleave.           *)
THEOREM TypeCorrect == Spec => []TypeOK
<1>1. IInv => TypeOK  BY DEF IInv
<1>. QED  BY <1>1, Invariant, PTL

(* Queued and running work of a conversation is on its durable home, so    *)
(* neither pumpWaiting, relocateQueued nor a lost home can split it.       *)
THEOREM HomeCorrect == Spec => []HomeOwnsWork
<1>1. IInv => HomeOwnsWork  BY DEF IInv
<1>. QED  BY <1>1, Invariant, PTL

(* At most one request of a conversation runs in the whole pool.           *)
THEOREM OneActiveCorrect == Spec => []OneActivePerConversation
<1>1. IInv => OneActivePerConversation  BY DEF IInv
<1>. QED  BY <1>1, Invariant, PTL

(* schedule fills no slot twice and none beyond the worker's capacity.     *)
THEOREM CapacityCorrect == Spec => []CapacityRespected
<1>1. IInv => CapacityRespected  BY DEF IInv
<1>. QED  BY <1>1, Invariant, PTL

(* A conversation never reserves two slots of a worker, although operators *)
(* change the allowance while slots run, idle gaps pass and requests end.  *)
THEOREM AllocationCorrect == Spec => []OneAllocationPerConversation
<1>1. IInv => OneAllocationPerConversation  BY DEF IInv
<1>. QED  BY <1>1, Invariant, PTL

(* No wakeup is lost: whatever order arrivals, cancellations, timeouts,    *)
(* finished requests, turn timers, changed allowances and readmissions     *)
(* come in, a free slot of an idle gateway leaves a request it may run in  *)
(* the queue only while the timer of a reservation is running.             *)
THEOREM WakeupCorrect == Spec => []NoLostWakeup
<1>1. IInv => NoLostWakeup
  <2>1. SUFFICES ASSUME IInv, Quiet, ~shuttingDown, NEW n \in Node, NEW i \in 1..Capacity[n]
                 PROVE  Awake(n, i)
    BY DEF NoLostWakeup
  <2>2. n \notin due /\ n # cur  BY <2>1, NullAssumption DEF NullAssumption, Quiet
  <2>. QED  BY <2>1, <2>2 DEF IInv, WakeupsPending
<1>. QED  BY <1>1, Invariant, PTL

(* No request overtakes an earlier one of its conversation, although       *)
(* schedule parks a queue in the order of priorityIndex, pumpWaiting       *)
(* visits in that order and operators change priorities.                   *)
THEOREM OrderCorrect == Spec => []ConversationOrder
<1>1. ASSUME IInv PROVE ConversationOrder
  <2>1. TypeOK /\ Placed /\ DispatchOrder /\ ParkingOrder  BY <1>1 DEF IInv
  <2>2. \A i, j \in Job :
           i < j /\ SameKey(i, j) /\ st[j] = "queued" /\ cur = NoNode => st[i] # "waiting"
    BY <2>1, NullAssumption DEF NullAssumption, ParkingOrder, Placed
  <2>. QED  BY <2>1, <2>2 DEF ConversationOrder, DispatchOrder
<1>. QED  BY <1>1, Invariant, PTL

----------------------------------------------------------------------------
(* The gateway implements the conversation service.                        *)

LEMMA PhaseValues ==
    /\ PhaseOf("new") = "idle" /\ PhaseOf("active") = "running"
    /\ PhaseOf("waiting") = "pending" /\ PhaseOf("queued") = "pending"
    /\ PhaseOf("finished") = "answered" /\ PhaseOf("rejected") = "refused"
    /\ PhaseOf("cancelled") = "withdrawn"
BY DEF PhaseOf

LEMMA PhaseFact ==
    ASSUME NEW j \in Job
    PROVE  Phase[j] = PhaseOf(st[j]) /\ Phase'[j] = PhaseOf(st'[j])
BY DEF Phase

LEMMA PhaseStep ==
    ASSUME TypeOK, NEW j \in Job, NEW s \in Status, st' = [st EXCEPT ![j] = s]
    PROVE  Phase' = [Phase EXCEPT ![j] = PhaseOf(s)] /\ Phase'[j] = PhaseOf(s)
<1>1. \A i \in Job \ {j} : st'[i] = st[i]  BY DEF TypeOK
<1>2. st'[j] = s  BY DEF TypeOK
<1>3. Phase'[j] = PhaseOf(s)  BY <1>2 DEF Phase
<1>4. \A i \in Job : Phase'[i] = IF i = j THEN PhaseOf(s) ELSE Phase[i]
  BY <1>1, <1>3, PhaseFact
<1>5. Phase' = [i \in Job |-> Phase'[i]] /\ DOMAIN Phase = Job  BY DEF Phase
<1>6. Phase' = [Phase EXCEPT ![j] = PhaseOf(s)]  BY <1>4, <1>5
<1>. QED  BY <1>3, <1>6

LEMMA ServiceStep ==
    ASSUME IInv, IInv', Effect
    PROVE  [Service!Next]_(Service!vars)
<1>. USE DEF IInv
<1>0. UNCHANGED Conversation
  <2>1. req' = req
    BY DEF Effect, Keeps, Stops, Waits, Starts, Queues, Moves, Settles
  <2>. QED  BY <2>1 DEF Conversation
<1>1. ASSUME UNCHANGED Phase PROVE [Service!Next]_(Service!vars)
  BY <1>0, <1>1 DEF Service!vars
<1>2. CASE Keeps \/ \E j \in Job : \E n \in Node : Moves(j, n)
  <2>1. st' = st  BY <1>2 DEF Keeps, Moves
  <2>. QED  BY <1>1, <2>1 DEF Phase
<1>3. ASSUME NEW j \in Job, NEW from, NEW to, Phase[j] = from,
             Phase' = [Phase EXCEPT ![j] = to]
      PROVE  Service!Move(j, from, to)
  BY <1>0, <1>3 DEF Service!Move
<1>4. CASE Stops
  <2>. DEFINE S == {j \in Job : st[j] = "waiting"}
  <2>1. \A j \in Job : st'[j] = IF j \in S THEN "rejected" ELSE st[j]
    BY <1>4 DEF Stops
  <2>2. Phase' = [j \in Job |-> IF j \in S THEN "refused" ELSE Phase[j]]
    BY <2>1, PhaseValues DEF Phase
  <2>3. \A j \in S : Phase[j] = "pending"  BY PhaseFact, PhaseValues
  <2>4. Service!Refuse(S)  BY <1>0, <2>2, <2>3 DEF Service!Refuse
  <2>5. S \in SUBSET Job  OBVIOUS
  <2>. QED  BY <2>4, <2>5 DEF Service!Next
<1>5. ASSUME NEW j \in Job, Waits(j) \/ \E n \in Node : Queues(j, n)
      PROVE  [Service!Next]_(Service!vars)
  <2>1. PICK s \in {"waiting", "queued"} : st' = [st EXCEPT ![j] = s]
    BY <1>5 DEF Waits, Queues
  <2>2. s \in Status /\ PhaseOf(s) = "pending"  BY PhaseValues DEF Status
  <2>3. Phase' = [Phase EXCEPT ![j] = "pending"]  BY <2>1, <2>2, PhaseStep
  <2>4. CASE st[j] = "new"
    <3>1. Phase[j] = "idle"  BY <2>4, PhaseFact, PhaseValues
    <3>2. Service!Accept(j)  BY <1>3, <2>3, <3>1 DEF Service!Accept
    <3>. QED  BY <3>2 DEF Service!Next
  <2>5. CASE st[j] \in {"waiting", "queued"}
    <3>1. Phase[j] = "pending"  BY <2>5, PhaseFact, PhaseValues
    <3>2. UNCHANGED Phase  BY <2>3, <3>1 DEF Phase
    <3>. QED  BY <1>1, <3>2
  <2>. QED  BY <1>5, <2>4, <2>5 DEF Waits, Queues, Created
<1>6. ASSUME NEW j \in Job, Starts(j) PROVE [Service!Next]_(Service!vars)
  <2>1. "active" \in Status /\ st' = [st EXCEPT ![j] = "active"]
    BY <1>6 DEF Starts, Status
  <2>2. Phase' = [Phase EXCEPT ![j] = "running"]  BY <2>1, PhaseStep, PhaseValues
  <2>3. Phase[j] = "pending"  BY <1>6, PhaseFact, PhaseValues DEF Starts, Queue
  <2>4. \A i \in Job : Service!Same(i, j) <=> SameKey(i, j)
    BY DEF Service!Same, Conversation, SameKey
  <2>5. \A i \in Job : st[i] \in Status /\ Phase[i] = PhaseOf(st[i])
    BY PhaseFact DEF TypeOK
  <2>6. \A i \in Job : /\ Phase[i] = "running" => st[i] = "active"
                       /\ Phase[i] = "pending" => st[i] \in {"waiting", "queued"}
    BY <2>5, PhaseValues DEF Status
  <2>7. \A i \in Job : Service!Same(i, j) => Phase[i] # "running"
    BY <1>6, <2>4, <2>6 DEF Starts, KeyActive, SameKey
  <2>8. \A i \in Job : Service!Same(i, j) /\ i < j => Phase[i] # "pending"
    <3>1. \A i \in Job \ {j} : st'[i] = st[i]  BY <2>1 DEF TypeOK
    <3>2. req' = req  BY <1>6 DEF Starts
    <3>3. \A i \in Job : i < j => i # j  BY DEF Job
    <3>4. st'[j] = "active"  BY <2>1 DEF TypeOK
    <3>. QED  BY <2>4, <2>6, <3>1, <3>2, <3>3, <3>4 DEF DispatchOrder, SameKey
  <2>9. Service!Move(j, "pending", "running")  BY <1>3, <2>2, <2>3
  <2>10. Service!Start(j)  BY <2>7, <2>8, <2>9 DEF Service!Start
  <2>. QED  BY <2>10 DEF Service!Next
<1>7. ASSUME NEW j \in Job, NEW result \in Status, Settles(j, result)
      PROVE  [Service!Next]_(Service!vars)
  <2>1. Phase' = [Phase EXCEPT ![j] = PhaseOf(result)]
    BY <1>7, PhaseStep DEF Settles
  <2>2. CASE st[j] = "new" /\ result = "rejected"
    <3>1. Phase[j] = "idle"  BY <2>2, PhaseFact, PhaseValues
    <3>2. Phase' = [Phase EXCEPT ![j] = "refused"]  BY <2>1, <2>2, PhaseValues
    <3>3. Service!Decline(j)  BY <1>3, <3>1, <3>2 DEF Service!Decline
    <3>. QED  BY <3>3 DEF Service!Next
  <2>3. CASE st[j] \in {"waiting", "queued"} /\ result = "cancelled"
    <3>1. Phase[j] = "pending"  BY <2>3, PhaseFact, PhaseValues
    <3>2. Phase' = [Phase EXCEPT ![j] = "withdrawn"]  BY <2>1, <2>3, PhaseValues
    <3>3. Service!Withdraw(j)  BY <1>3, <3>1, <3>2 DEF Service!Withdraw
    <3>. QED  BY <3>3 DEF Service!Next
  <2>4. CASE st[j] \in {"waiting", "queued"} /\ result = "rejected"
    <3>1. Phase[j] = "pending"  BY <2>4, PhaseFact, PhaseValues
    <3>2. Phase' = [Phase EXCEPT ![j] = "refused"]  BY <2>1, <2>4, PhaseValues
    <3>3. Phase' = [i \in Job |-> IF i \in {j} THEN "refused" ELSE Phase[i]]
      BY <3>2 DEF Phase
    <3>4. Service!Refuse({j})  BY <1>0, <3>1, <3>3 DEF Service!Refuse
    <3>. QED  BY <3>4 DEF Service!Next
  <2>5. CASE st[j] = "active" /\ result \in {"finished", "rejected"}
    <3>1. Phase[j] = "running"  BY <2>5, PhaseFact, PhaseValues
    <3>2. \/ Phase' = [Phase EXCEPT ![j] = "answered"]
          \/ Phase' = [Phase EXCEPT ![j] = "refused"]
      BY <2>1, <2>5, PhaseValues
    <3>3. Service!Answer(j)  BY <1>3, <3>1, <3>2 DEF Service!Answer
    <3>. QED  BY <3>3 DEF Service!Next
  <2>. QED  BY <1>7, <2>2, <2>3, <2>4, <2>5 DEF Settles, Created
<1>. QED  BY <1>2, <1>4, <1>5, <1>6, <1>7 DEF Effect

(* Whatever the gateway does with a request, a client sees a service that  *)
(* answers each conversation serially and in order of arrival.             *)
THEOREM ServiceCorrect == Spec => ServesConversations
<1>1. Init => Service!Init
  BY PhaseValues DEF Init, Service!Init, Phase
<1>2. IInv /\ IInv' /\ [Next]_vars => [Service!Next]_(Service!vars)
  BY NextEffect, ServiceStep
<1>. QED  BY <1>1, <1>2, Invariant, PTL DEF Spec, ServesConversations, Service!Spec

============================================================================
