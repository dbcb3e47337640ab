--------------------------- MODULE RecoveryProofs ---------------------------
(***************************************************************************)
(* Theorems about Recovery, for any workers, operations, ssh targets and   *)
(* number of mishaps: a command is given once, and an end is respected.    *)
(***************************************************************************)
EXTENDS Recovery, TLAPS

(* What the executor and a request see of a service is a service.          *)
LEMMA InspectionType ==
    ASSUME HostOK, NEW w \in Worker, NEW o \in Inspection(w)
    PROVE  o.s \in Service /\ o.who \in {"none", "loginwindow", "launchctl"}
<1>1. svc[w] \in Service
      BY DEF HostOK
<1>2. NoAnswer \in Service /\ Unverified \in Service
      BY DEF NoAnswer, Settled, Service, Profile, Unverified
<1>3. [svc[w] EXCEPT !.fault = FALSE] \in Service
      BY <1>1 DEF Service
<1>4. \A s \in Inspect(w) : s \in Service
      BY <1>1, <1>2, <1>3 DEF Inspect, SystemdInspect, DockerInspect, LaunchdInspect, LaunchState, OmlxInspect
<1>5. svc[w].caller \in {"none", "loginwindow", "launchctl"}
      BY <1>1 DEF Service
<1>6. InspectRemoval(w, prior[w]) \subseteq {"none", "loginwindow", "launchctl"}
      BY <1>5 DEF InspectRemoval
<1>7. QED BY <1>2, <1>4, <1>6 DEF Inspection

LEMMA SmallTypes ==
    /\ NoTask \in Task
    /\ \A w \in Worker : NoOp(w) \in Operation
    /\ NoQuarantine \in [inst : Nat, fatal : BOOLEAN]
    /\ NoAnswer \in Service
<1>1. NoAnswer \in Service
      BY DEF NoAnswer, Settled, Service, Profile
<1>2. NoTask \in Task
      BY <1>1 DEF NoTask, Task, Phase
<1>3. NoQuarantine \in [inst : Nat, fatal : BOOLEAN]
      BY DEF NoQuarantine
<1>4. \A w \in Worker : NoOp(w) \in Operation
      BY <1>3 DEF NoOp, Operation, OpAct, Act, Profile, Actor, OpState
<1>5. QED BY <1>1, <1>2, <1>3, <1>4

(* The operation under way, its worker, and the answer it goes on with.    *)
LEMMA TaskType ==
    ASSUME StoreOK, ProcessOK, task.phase # "none"
    PROVE  task.op \in Id /\ Op \in Operation /\ W \in Worker /\ task.snap \in Service
           /\ Forget \in Task
<1>1. task \in Task /\ task.op # 0
      BY DEF ProcessOK
<1>2. task.op \in Id /\ task.snap \in Service
      BY <1>1 DEF Task
<1>3. Op \in Operation
      BY <1>2 DEF Op, StoreOK
<1>4. W \in Worker
      BY <1>3 DEF W, Operation
<1>5. Forget \in Task
      BY <1>1, SmallTypes DEF Forget, Task
<1>6. QED BY <1>2, <1>3, <1>4, <1>5

(* What every failure of the executor does.                                *)
LEMMA FailTypes ==
    ASSUME StoreOK, ProcessOK, HostOK, task.phase # "none", Fail
    PROVE  ops' \in [Id -> Operation] /\ closed' \in BOOLEAN /\ events' \in Nat
           /\ recovering' \in [Worker -> BOOLEAN] /\ task' = NoTask
<1>1. /\ task.op \in Id /\ Op \in Operation /\ W \in Worker
      BY TaskType
<1>2. FailureState \in OpState
      BY DEF FailureState, OpState, Terminal
<1>3. [Op EXCEPT !.st = FailureState] \in Operation
      BY <1>1, <1>2 DEF Operation
<1>4. ops' \in [Id -> Operation]
      BY <1>1, <1>3 DEF Fail, Update, StoreOK
<1>5. events' \in Nat
      BY DEF Fail, Event, HostOK
<1>8. closed' \in BOOLEAN
      BY Zenon DEF Fail, ProcessOK
<1>6. recovering' \in [Worker -> BOOLEAN] /\ task' = NoTask
      BY <1>1 DEF Fail, ProcessOK
<1>7. QED BY <1>4, <1>5, <1>6, <1>8

(* What was seen last stays an instance.                                   *)
LEMMA RememberType ==
    ASSUME StoreOK, NEW w \in Worker, NEW s \in Service, Remember(w, s)
    PROVE  prior' \in [Worker -> Nat]
BY DEF Remember, StoreOK, Service

LEMMA NewOperation ==
    ASSUME NEW w \in Worker, NEW act \in OpAct, NEW inst \in Nat, NEW actor \in Actor,
           NEW p \in Profile, NEW canary \in BOOLEAN, NEW paused \in BOOLEAN,
           NEW q \in [inst : Nat, fatal : BOOLEAN]
    PROVE  [NoOp(w) EXCEPT !.act = act, !.inst = inst, !.st = "queued", !.actor = actor,
              !.profile = p, !.canary = canary, !.paused = paused, !.quarantine = q] \in Operation
BY DEF NoOp, Operation, OpState

LEMMA StoreTypes == TypeOK /\ [Next]_vars => StoreOK'
<1> SUFFICES ASSUME HostOK, StoreOK, ProcessOK, [Next]_vars PROVE StoreOK'
    BY DEF TypeOK
<1> USE DEF StoreOK
<1>1. ASSUME NEW from \in {"before", "watch", "final"}, NEW to, ExecutorInspects(from, to)
      PROVE  StoreOK'
  <2>1. W \in Worker
        BY <1>1, TaskType DEF ExecutorInspects
  <2>2. PICK o \in Inspection(W) : Remember(W, o.s)
        BY <1>1 DEF ExecutorInspects
  <2>3. prior' \in [Worker -> Nat]
        BY <2>1, <2>2, InspectionType, RememberType
  <2>4. QED BY <1>1, <2>3 DEF ExecutorInspects
<1>2. CASE ExecuteIssues
  <2>1. task.op \in Id /\ Op \in Operation
        BY <1>2, TaskType DEF ExecuteIssues
  <2>2. [Op EXCEPT !.st = "issuing", !.issued = TRUE] \in Operation
        BY <2>1 DEF Operation, OpState
  <2>3. QED BY <1>2, <2>1, <2>2 DEF ExecuteIssues, Update
<1>3. ASSUME task.phase # "none", Fail, UNCHANGED prior PROVE StoreOK'
      BY <1>3, FailTypes DEF Fail
<1>4. CASE ExecuteDecides
  <2>1. task.op \in Id /\ Op \in Operation /\ task.phase # "none"
        BY <1>4, TaskType DEF ExecuteDecides
  <2>2. [Op EXCEPT !.st = "reconciling"] \in Operation
        BY <2>1 DEF Operation, OpState
  <2>3. CASE Fail /\ UNCHANGED prior
        BY <2>1, <2>3, <1>3
  <2>4. CASE ~(Fail /\ UNCHANGED prior)
        BY <1>4, <2>1, <2>2, <2>4 DEF ExecuteDecides, Update
  <2>5. QED BY <2>3, <2>4
<1>5. CASE ExecuteWatches
  <2>1. task.op \in Id /\ Op \in Operation /\ task.phase # "none" /\ task.snap.inst \in Nat
        BY <1>5, TaskType DEF ExecuteWatches, Service
  <2>2. [Op EXCEPT !.st = "verifying", !.new = task.snap.inst] \in Operation
        BY <2>1 DEF Operation, OpState
  <2>3. CASE Fail /\ UNCHANGED prior
        BY <2>1, <2>3, <1>3
  <2>4. CASE UNCHANGED storeVars
        BY <2>4 DEF storeVars
  <2>5. CASE ~(Fail /\ UNCHANGED prior) /\ ~UNCHANGED storeVars
    <3>1. /\ Update([Op EXCEPT !.st = "verifying", !.new = task.snap.inst])
          /\ UNCHANGED <<automatic, effective, prior, drained, quarantine>>
          BY <1>5, <2>5, Zenon DEF ExecuteWatches
    <3>2. QED BY <3>1, <2>1, <2>2 DEF Update
  <2>6. QED BY <2>3, <2>4, <2>5
<1>6. CASE VerifyRecovery
      BY <1>3, <1>6 DEF VerifyRecovery, storeVars
<1>7. CASE ExecuteConcludes
  <2>1. task.op \in Id /\ Op \in Operation /\ W \in Worker /\ task.phase # "none"
        BY <1>7, TaskType DEF ExecuteConcludes, Conclude
  <2>2. CASE Fail /\ UNCHANGED prior
        BY <2>1, <2>2, <1>3
  <2>3. CASE ~(Fail /\ UNCHANGED prior)
    <3>1. /\ Update([Op EXCEPT !.st = IF Held THEN "verified_paused" ELSE "recovered"])
          /\ effective' = [effective EXCEPT ![W] = Op.profile]
          /\ quarantine' = IF Held THEN quarantine ELSE [quarantine EXCEPT ![W] = NoQuarantine]
          /\ UNCHANGED <<automatic, prior, drained>>
          BY <1>7, <2>3 DEF ExecuteConcludes, Conclude
    <3>2. [Op EXCEPT !.st = IF Held THEN "verified_paused" ELSE "recovered"] \in Operation
          BY <2>1 DEF Operation, OpState, Terminal
    <3>3. Op.profile \in Profile
          BY <2>1 DEF Operation
    <3>4. QED BY <3>1, <3>2, <3>3, <2>1, SmallTypes DEF Update
  <2>4. QED BY <2>2, <2>3
<1>8. CASE CallLost
  <2>1. task.op \in Id /\ Op \in Operation
        BY <1>8, TaskType DEF CallLost
  <2>2. [Op EXCEPT !.st = "reconciling"] \in Operation
        BY <2>1 DEF Operation, OpState
  <2>3. QED BY <1>8, <2>1, <2>2 DEF CallLost, NextTarget, Update
<1>9. CASE TickResumes
      BY <1>9 DEF TickResumes, storeVars
<1>10. ASSUME NEW w \in Worker, NEW actor \in Actor, NEW canary \in BOOLEAN,
              RequestRecovery(w, actor, canary)
       PROVE  StoreOK'
  <2>1. PICK o \in Inspection(w), i \in Id \ Used :
           ops' = [ops EXCEPT ![i] =
                [NoOp(w) EXCEPT !.act = ServiceAction(w, o.s), !.inst = o.s.inst, !.st = "queued",
                   !.actor = actor,
                   !.profile = IF ServiceAction(w, o.s) \in {"adopt_restart", "adopt_verify"}
                               THEN o.s.profile ELSE effective[w],
                   !.canary = canary, !.paused = drained[w], !.quarantine = quarantine[w]]]
        BY <1>10 DEF RequestRecovery
  <2>2. ServiceAction(w, o.s) \in OpAct
        BY DEF ServiceAction, OpAct, Act
  <2>3. /\ o.s.inst \in Nat /\ o.s.profile \in Profile /\ effective[w] \in Profile
        /\ drained[w] \in BOOLEAN /\ quarantine[w] \in [inst : Nat, fatal : BOOLEAN]
        BY InspectionType DEF Service
  <2> DEFINE p == IF ServiceAction(w, o.s) \in {"adopt_restart", "adopt_verify"}
                  THEN o.s.profile ELSE effective[w]
  <2>7. p \in Profile
        BY <2>3
  <2>4. PICK x \in Operation : ops' = [ops EXCEPT ![i] = x]
    <3>1. [NoOp(w) EXCEPT !.act = ServiceAction(w, o.s), !.inst = o.s.inst, !.st = "queued",
             !.actor = actor, !.profile = p, !.canary = canary, !.paused = drained[w],
             !.quarantine = quarantine[w]] \in Operation
      <4> HIDE DEF p
      <4>1. QED BY ONLY <2>2, <2>3, <2>7, NewOperation, w \in Worker, actor \in Actor,
                        canary \in BOOLEAN, ZenonT(30)
    <3>2. QED BY <2>1, <3>1, Zenon
  <2>5. ops' \in [Id -> Operation]
        BY <2>4
  <2>6. QED BY <1>10, <2>5 DEF RequestRecovery
<1>11. ASSUME NEW i \in Id, Reconcile(i) PROVE StoreOK'
  <2>1. ops[i] \in Operation
        OBVIOUS
  <2>2. ops' = [ops EXCEPT ![i] = [ops[i] EXCEPT !.st = "reconciling"]]
        BY <1>11 DEF Reconcile
  <2>3. [ops[i] EXCEPT !.st = "reconciling"] \in Operation
        BY <2>1 DEF Operation, OpState
  <2>4. QED BY <1>11, <2>2, <2>3 DEF Reconcile
<1>12. CASE Helpers
       BY <1>12 DEF Helpers, CallAnswered, storeVars
<1>13. ASSUME NEW w \in Worker, InspectWorker(w) PROVE StoreOK'
  <2>1. PICK s \in Inspect(w) : Remember(w, s)
        BY <1>13 DEF InspectWorker
  <2>2. [s |-> s, who |-> "none"] \in Inspection(w)
        BY DEF Inspection, InspectRemoval
  <2>3. [s |-> s, who |-> "none"].s \in Service
        BY <2>2, InspectionType
  <2>4. prior' \in [Worker -> Nat]
        BY <2>1, <2>3, RememberType
  <2>5. QED BY <1>13, <2>4 DEF InspectWorker
<1>14. ASSUME NEW w \in Worker, Pause(w) PROVE StoreOK'
  <2>1. \A i \in Id : [ops[i] EXCEPT !.override = TRUE] \in Operation
        BY DEF Operation
  <2>2. ops' \in [Id -> Operation]
        BY <1>14, <2>1 DEF Pause, OperatorPause
  <2>3. QED BY <1>14, <2>2 DEF Pause
<1>15. ASSUME NEW w \in Worker, Resume(w) \/ Works(w) \/ Quarantines(w) PROVE StoreOK'
  <2>1. svc[w].inst \in Nat /\ svc[w].fault \in BOOLEAN
        BY DEF HostOK, Service
  <2>2. CASE Resume(w)
        BY <2>2, SmallTypes DEF Resume
  <2>3. CASE Quarantines(w)
        BY <2>3, <2>1 DEF Quarantines
  <2>4. CASE Works(w)
        BY <2>4 DEF Works, storeVars
  <2>5. QED BY <1>15, <2>2, <2>3, <2>4
<1>16. CASE SetAutomatic \/ Close \/ CloseRecovery \/ Restart
       BY <1>16 DEF SetAutomatic, Close, CloseRecovery, Restart, storeVars
<1>17. CASE UNCHANGED storeVars
       BY <1>17 DEF storeVars
<1>18. QED BY <1>1, <1>2, <1>4, <1>5, <1>6, <1>7, <1>8, <1>9, <1>10, <1>11, <1>12, <1>13, <1>14,
              <1>15, <1>16, <1>17 DEF Next, Executor, Requests, vars

(* A call to the helper is one.                                            *)
LEMMA SendType ==
    ASSUME StoreOK, ProcessOK, HostOK, task.phase # "none", NEW n \in Nat, Send(n)
    PROVE  /\ calls' \subseteq Call
           /\ \A c \in calls' : c \in calls \/ (c.at = "sent" /\ c.id = task.op /\ c.w = W)
<1>1. task.op \in Id /\ Op \in Operation /\ W \in Worker
      BY TaskType
<1>2. CommandAct \in Act
      BY <1>1 DEF CommandAct, Operation, OpAct, Act
<1>3. Op.inst \in Nat /\ Op.profile \in Profile /\ Op.canary \in BOOLEAN
      BY <1>1 DEF Operation
<1> DEFINE c0 == [id |-> task.op, w |-> W, act |-> CommandAct, inst |-> Op.inst,
                  profile |-> Op.profile, canary |-> Op.canary, n |-> n, at |-> "sent"]
<1>4. c0 \in Call
      BY <1>1, <1>2, <1>3 DEF Call
<1>5. calls' = calls \cup {c0}
      BY DEF Send
<1>6. c0.at = "sent" /\ c0.id = task.op /\ c0.w = W
      OBVIOUS
<1> HIDE DEF c0
<1>7. QED BY <1>4, <1>5, <1>6 DEF HostOK

(* A helper that goes on from the lock to its intent.                      *)
LEMMA IntendType ==
    ASSUME HostOK, NEW c \in calls, HelperIntends(c)
    PROVE  /\ c \in Call /\ c.w \in Worker
           /\ journal' \in [Worker -> SUBSET Receipt] /\ calls' \subseteq Call
<1>1. c \in Call
      BY DEF HostOK
<1>2. c.w \in Worker /\ c.id \in Id /\ c.act \in Act /\ c.inst \in Nat
      BY <1>1 DEF Call
<1>3. [id |-> c.id, act |-> c.act, inst |-> c.inst, st |-> "intent"] \in Receipt
      BY <1>2 DEF Receipt
<1>4. [c EXCEPT !.at = "intent"] \in Call
      BY <1>1 DEF Call
<1>5. journal' \in [Worker -> SUBSET Receipt]
      BY <1>2, <1>3 DEF HelperIntends, Save, HostOK
<1>6. QED BY <1>1, <1>2, <1>4, <1>5 DEF HelperIntends, Move, HostOK

LEMMA RunsType ==
    ASSUME HostOK, NEW c \in calls, Runs(c)
    PROVE  /\ c \in Call /\ c.w \in Worker
           /\ calls' \subseteq Call /\ commands' \in Seq(Command)
           /\ Issued(c) => journal' \in [Worker -> SUBSET Receipt]
           /\ [svc EXCEPT ![c.w].due = "up"] \in [Worker -> Service]
           /\ [svc EXCEPT ![c.w].kind = "stopped", ![c.w].fault = FALSE] \in [Worker -> Service]
<1>1. c \in Call
      BY DEF HostOK
<1>2. c.w \in Worker /\ c.id \in Id /\ c.act \in Act /\ c.inst \in Nat
      BY <1>1 DEF Call
<1>3. [id |-> c.id, act |-> c.act, inst |-> c.inst, st |-> "issued"] \in Receipt
      BY <1>2 DEF Receipt
<1>4. [id |-> c.id, w |-> c.w, act |-> c.act, inst |-> c.inst] \in Command
      BY <1>2 DEF Command
<1>5. commands' \in Seq(Command)
      BY <1>4 DEF Runs, HostOK
<1>6. Issued(c) => journal' \in [Worker -> SUBSET Receipt]
      BY <1>2, <1>3 DEF Issued, Save, HostOK
<1>7. svc[c.w] \in Service
      BY <1>2 DEF HostOK
<1>8. [svc[c.w] EXCEPT !.due = "up"] \in Service
      BY <1>7 DEF Service
<1>9. [svc[c.w] EXCEPT !.kind = "stopped", !.fault = FALSE] \in Service
      BY <1>7 DEF Service
<1>10. [svc EXCEPT ![c.w].due = "up"] \in [Worker -> Service]
      BY <1>8 DEF HostOK
<1>11. [svc EXCEPT ![c.w].kind = "stopped", ![c.w].fault = FALSE] \in [Worker -> Service]
      BY <1>2, <1>9 DEF HostOK
<1>12. calls' \subseteq Call
      BY DEF Runs, HostOK
<1>13. QED BY <1>1, <1>2, <1>5, <1>6, <1>10, <1>11, <1>12

(* What the service managers and others do to a service leaves a service.  *)
LEMMA LandedType ==
    ASSUME NEW k \in {"running", "stopped"}, NEW n \in Nat, NEW p \in Profile, NEW d \in BOOLEAN
    PROVE  [Settled EXCEPT !.kind = k, !.inst = n, !.profile = p, !.disabled = d] \in Service
BY DEF Service, Settled
LEMMA RestartedType ==
    ASSUME NEW s \in Service, NEW n \in Nat, NEW p \in Profile
    PROVE  [s EXCEPT !.kind = "running", !.inst = n, !.profile = p, !.fault = FALSE,
                     !.caller = "none"] \in Service
BY DEF Service
LEMMA ToggledType ==
    ASSUME NEW s \in Service PROVE [s EXCEPT !.disabled = ~@] \in Service
<1>1. (~s.disabled) \in BOOLEAN
      OBVIOUS
<1> DEFINE d == ~s.disabled
<1>2. [s EXCEPT !.disabled = d] \in Service
  <2> HIDE DEF d
  <2>1. d \in BOOLEAN
        BY <1>1 DEF d
  <2>2. QED BY <2>1 DEF Service
<1>3. QED BY <1>2, Zenon

LEMMA HostNextTypes == HostOK /\ HostNext => HostOK'
<1> SUFFICES ASSUME HostOK, NEW w \in Worker,
                    Lands(w) \/ Faults(w) \/ Stops(w) \/ Restarts(w) \/ Removed(w) \/ Disabled(w)
             PROVE  HostOK'
    BY DEF HostNext
<1>1. svc[w] \in Service
      BY DEF HostOK
<1>2. ASSUME NEW s \in Service, Unasked(w, s) PROVE HostOK'
      BY <1>2 DEF Unasked, Event, HostOK
<1>3. CASE Lands(w)
  <2>1. PICK k \in {"running", "stopped"} :
           svc' = [svc EXCEPT ![w] = [Settled EXCEPT !.kind = k, !.inst = svc[w].inst + 1,
                                      !.profile = svc[w].profile, !.disabled = svc[w].disabled]]
        BY <1>3 DEF Lands
  <2>2. [Settled EXCEPT !.kind = k, !.inst = svc[w].inst + 1,
                !.profile = svc[w].profile, !.disabled = svc[w].disabled] \in Service
    <3>1. svc[w].inst + 1 \in Nat /\ svc[w].profile \in Profile /\ svc[w].disabled \in BOOLEAN
          BY <1>1 DEF Service
    <3>2. QED BY <3>1, LandedType, Zenon
  <2>3. QED BY <1>3, <2>1, <2>2 DEF Lands, HostOK
<1>4. CASE Faults(w) \/ Stops(w) \/ Disabled(w)
  <2>1. /\ [svc[w] EXCEPT !.fault = TRUE] \in Service
        /\ [svc[w] EXCEPT !.kind = "stopped", !.fault = FALSE] \in Service
        BY <1>1 DEF Service
  <2>3. [svc[w] EXCEPT !.disabled = ~@] \in Service
        BY <1>1, ToggledType, Zenon
  <2>4. CASE Disabled(w)
    <3>1. Unasked(w, [svc[w] EXCEPT !.disabled = ~@])
          BY <2>4, Zenon DEF Disabled
    <3>2. QED BY <3>1, <2>3, <1>2, Zenon
  <2>2. QED BY <1>2, <1>4, <2>1, <2>4 DEF Faults, Stops
<1>5. CASE Restarts(w)
  <2>1. PICK p \in Profile : Unasked(w, [svc[w] EXCEPT !.kind = "running", !.inst = @ + 1,
                                       !.profile = p, !.fault = FALSE, !.caller = "none"])
        BY <1>5 DEF Restarts
  <2>2. [svc[w] EXCEPT !.kind = "running", !.inst = @ + 1,
                       !.profile = p, !.fault = FALSE, !.caller = "none"] \in Service
    <3>1. svc[w].inst + 1 \in Nat
          BY <1>1 DEF Service
    <3>2. QED BY <3>1, <1>1, RestartedType, Zenon
  <2>3. QED BY <1>2, <2>1, <2>2
<1>6. CASE Removed(w)
  <2>1. PICK who \in {"loginwindow", "launchctl"} :
           Unasked(w, [svc[w] EXCEPT !.kind = "absent", !.fault = FALSE, !.caller = who])
        BY <1>6 DEF Removed
  <2>2. [svc[w] EXCEPT !.kind = "absent", !.fault = FALSE, !.caller = who] \in Service
        BY <1>1 DEF Service
  <2>3. QED BY <1>2, <2>1, <2>2
<1>7. QED BY <1>3, <1>4, <1>5, <1>6

LEMMA HostTypes == TypeOK /\ [Next]_vars => HostOK'
<1> SUFFICES ASSUME HostOK, StoreOK, ProcessOK, [Next]_vars PROVE HostOK'
    BY DEF TypeOK
<1>1. ASSUME UNCHANGED hostVars PROVE HostOK'
      BY <1>1 DEF hostVars, HostOK
<1>2. ASSUME UNCHANGED <<adapter, svc, journal, calls, commands>>, Event \/ UNCHANGED events
      PROVE  HostOK'
      BY <1>2 DEF Event, HostOK
<1>3. ASSUME task.phase # "none", Fail PROVE HostOK'
      BY <1>2, <1>3 DEF Fail
<1>4. CASE Executor
  <2>1. CASE ExecuteIssues
    <3>1. calls' \subseteq Call
          BY <2>1, SendType DEF ExecuteIssues
    <3>2. QED BY <2>1, <3>1 DEF ExecuteIssues, HostOK
  <2>2. CASE ExecuteDecides
        BY <2>2, <1>1, <1>3 DEF ExecuteDecides
  <2>3. CASE ExecuteWatches
        BY <2>3, <1>1, <1>3, Zenon DEF ExecuteWatches
  <2>4. CASE VerifyRecovery \/ ExecuteConcludes
        BY <2>4, <1>1, <1>3 DEF VerifyRecovery, ExecuteConcludes, Conclude
  <2>5. ASSUME NEW from, NEW to, ExecutorInspects(from, to) PROVE HostOK'
        BY <2>5, <1>1 DEF ExecutorInspects
  <2>6. QED BY <1>4, <2>1, <2>2, <2>3, <2>4, <2>5 DEF Executor
<1>5. CASE CallLost
  <2>1. task.n \in Nat /\ task.n + 1 \in Nat
        BY DEF ProcessOK, Task
  <2>2. calls' \subseteq Call
        BY <1>5, <2>1, SendType DEF CallLost, HostOK
  <2>3. events' \in Nat
        BY <1>5 DEF CallLost, Event, HostOK
  <2>4. QED BY <1>5, <2>2, <2>3 DEF CallLost, HostOK
<1>6. CASE TickResumes \/ CloseRecovery \/ SetAutomatic \/ Close \/ Restart
      BY <1>6, <1>1, <1>2 DEF TickResumes, CloseRecovery, SetAutomatic, Close, Restart, hostVars
<1>7. ASSUME NEW w \in Worker, NEW actor \in Actor, NEW canary \in BOOLEAN,
             RequestRecovery(w, actor, canary)
      PROVE  HostOK'
      BY <1>7, <1>2 DEF RequestRecovery
<1>8. CASE Helpers
  <2>1. PICK c \in calls : \/ HelperIntends(c) \/ OmlxLeavesStopped(c) \/ HelperDies(c)
                           \/ \E ok \in BOOLEAN : HelperEnds(c, ok)
        BY <1>8 DEF Helpers, CallAnswered
  <2>2. CASE HelperIntends(c)
        BY <2>2, IntendType DEF HelperIntends, HostOK
  <2>3. CASE OmlxLeavesStopped(c)
    <3>1. Runs(c)
          BY <2>3 DEF OmlxLeavesStopped
    <3>2. QED BY <2>3, <3>1, RunsType DEF OmlxLeavesStopped, HostOK
  <2>4. CASE HelperDies(c)
        BY <2>4 DEF HelperDies, Event, HostOK
  <2>5. ASSUME NEW ok \in BOOLEAN, HelperRuns(c, ok) PROVE HostOK'
    <3>1. Runs(c)
          BY <2>5 DEF HelperRuns
    <3>2. QED BY <2>5, <3>1, RunsType DEF HelperRuns, HostOK
  <2>6. ASSUME NEW ok \in BOOLEAN, HelperDeclines(c, ok) PROVE HostOK'
        BY <2>6 DEF HelperDeclines, HostOK
  <2>7. QED BY <2>1, <2>2, <2>3, <2>4, <2>5, <2>6 DEF HelperEnds
<1>9. ASSUME NEW i \in Id, Reconcile(i) PROVE HostOK'
      BY <1>9, <1>1 DEF Reconcile
<1>10. ASSUME NEW w \in Worker,
              InspectWorker(w) \/ Pause(w) \/ Resume(w) \/ Works(w) \/ Quarantines(w)
       PROVE  HostOK'
       BY <1>10, <1>1, <1>2 DEF InspectWorker, Pause, Resume, Works, Quarantines, hostVars
<1>11. CASE HostNext
       BY <1>11, HostNextTypes
<1>12. CASE UNCHANGED vars
       BY <1>12, <1>1 DEF vars
<1>13. QED BY <1>4, <1>5, <1>6, <1>7, <1>8, <1>9, <1>10, <1>11, <1>12 DEF Next, Requests

(* The operation under way is a task, and idle is NoTask.                  *)
TaskOK == task \in Task /\ ((task.op = 0) <=> (task.phase = "none"))

LEMMA GotoType ==
    ASSUME TaskOK, task.phase # "none", NEW p \in Phase \ {"none"}, NEW b \in BOOLEAN, NEW n \in Nat
    PROVE  LET ok(t) == t \in Task /\ t.op # 0 /\ t.phase # "none" IN
           /\ ok([Forget EXCEPT !.phase = p])
           /\ ok([Forget EXCEPT !.phase = p, !.n = n])
           /\ ok([Forget EXCEPT !.phase = p, !.replacement = b])
           /\ ok([Forget EXCEPT !.phase = p, !.after = n])
<1>1. task.op # 0 /\ Forget \in Task /\ Forget.op = task.op /\ Forget.phase = task.phase
      BY SmallTypes DEF TaskOK, Forget, Task
<1>2. p \in Phase /\ p # "none"
      OBVIOUS
<1> HIDE DEF Forget
<1>3. QED BY <1>1, <1>2 DEF TaskOK, Task

LEMMA TaskStep == RecoveryGiven /\ TypeOK /\ [Next]_vars => TaskOK'
<1> SUFFICES ASSUME RecoveryGiven, HostOK, StoreOK, ProcessOK, [Next]_vars PROVE TaskOK'
    BY DEF TypeOK
<1>0. TaskOK
      BY DEF ProcessOK, TaskOK
<1>1. ASSUME task' = NoTask PROVE TaskOK'
      BY <1>1, SmallTypes DEF TaskOK, NoTask
<1>2. ASSUME UNCHANGED task PROVE TaskOK'
      BY <1>0, <1>2 DEF TaskOK
<1>3. ASSUME NEW i \in Id, NEW r \in BOOLEAN,
             task' = [NoTask EXCEPT !.op = i, !.phase = "before", !.reconcile = r]
      PROVE  TaskOK'
  <2>1. i # 0
        BY DEF RecoveryGiven
  <2>2. QED BY <1>3, <2>1, SmallTypes DEF TaskOK, NoTask, Task, Phase
<1>4. ASSUME task.phase # "none", Fail PROVE TaskOK'
      BY <1>1, <1>4 DEF Fail
<1>5. ASSUME NEW t, t \in Task /\ t.op # 0 /\ t.phase # "none", task' = t PROVE TaskOK'
      BY <1>5 DEF TaskOK
<1>6. ASSUME NEW from \in Phase \ {"none"}, NEW to \in Phase \ {"none"}, ExecutorInspects(from, to)
      PROVE  TaskOK'
  <2>1. W \in Worker /\ task.op # 0 /\ task \in Task
        BY <1>6, <1>0, TaskType DEF ExecutorInspects, TaskOK
  <2>2. PICK o \in Inspection(W) : task' = [task EXCEPT !.phase = to, !.snap = o.s, !.who = o.who]
        BY <1>6 DEF ExecutorInspects
  <2>3. o.s \in Service /\ o.who \in {"none", "loginwindow", "launchctl"}
        BY <2>1, InspectionType
  <2>4. QED BY <2>1, <2>2, <2>3 DEF TaskOK, Task
<1>7. CASE ExecuteIssues
      BY <1>0, <1>5, <1>7, GotoType DEF ExecuteIssues, Phase
<1>8. CASE ExecuteDecides
  <2>1. Replacement \in BOOLEAN
        BY DEF Replacement
  <2>2. [Forget EXCEPT !.phase = "watch", !.replacement = Replacement] \in Task
        /\ [Forget EXCEPT !.phase = "watch", !.replacement = Replacement].op # 0
        /\ [Forget EXCEPT !.phase = "watch", !.replacement = Replacement].phase # "none"
        BY <1>0, <1>8, <2>1, GotoType, Zenon DEF ExecuteDecides, Phase
  <2>3. CASE Fail
        BY <1>4, <1>8, <2>3 DEF ExecuteDecides
  <2>4. CASE task' = [Forget EXCEPT !.phase = "watch", !.replacement = Replacement]
        BY <1>5, <2>2, <2>4
  <2>5. QED BY <1>8, <2>3, <2>4 DEF ExecuteDecides
<1>9. CASE ExecuteWatches
  <2>1. task.snap.inst \in Nat /\ task.phase # "none"
        BY <1>9, TaskType DEF ExecuteWatches, Service
  <2>2. CASE Fail
        BY <1>4, <2>1, <2>2
  <2>3. CASE Goto("watch")
        BY <1>0, <1>5, <2>1, <2>3, GotoType DEF Goto, Phase
  <2>4. CASE task' = [Forget EXCEPT !.phase = "verify", !.after = task.snap.inst]
        BY <1>0, <1>5, <2>1, <2>4, GotoType DEF Phase
  <2>5. QED BY <1>9, <2>2, <2>3, <2>4, Zenon DEF ExecuteWatches
<1>10. CASE VerifyRecovery
  <2>1. CASE Goto("final")
        BY <1>0, <1>5, <1>10, <2>1, GotoType DEF VerifyRecovery, Goto, Phase
  <2>2. QED BY <1>4, <1>10, <2>1 DEF VerifyRecovery
<1>11. CASE ExecuteConcludes
      BY <1>1, <1>4, <1>11 DEF ExecuteConcludes, Conclude
<1>12. CASE CallLost
  <2>1. task.n + 1 \in Nat /\ task.phase # "none"
        BY <1>0, <1>12 DEF CallLost, TaskOK, Task
  <2>2. CASE task' = [task EXCEPT !.n = @ + 1]
    <3>1. \A n \in Nat : [task EXCEPT !.n = n] \in Task /\ [task EXCEPT !.n = n].op # 0
                          /\ [task EXCEPT !.n = n].phase # "none"
          BY <1>0, <2>1 DEF TaskOK, Task
    <3>2. QED BY <1>5, <2>1, <2>2, <3>1, Zenon
  <2>3. CASE Goto("watch")
        BY <1>0, <1>5, <2>1, <2>3, GotoType DEF Goto, Phase
  <2>4. QED BY <1>12, <2>2, <2>3 DEF CallLost, NextTarget
<1>13. CASE TickResumes
  <2>1. PICK i \in Id : task' = [NoTask EXCEPT !.op = i, !.phase = "before", !.reconcile = TRUE]
        BY <1>13 DEF TickResumes, Pending
  <2>2. QED BY <1>3, <2>1
<1>14. ASSUME NEW w \in Worker, NEW actor \in Actor, NEW canary \in BOOLEAN,
              RequestRecovery(w, actor, canary)
       PROVE  TaskOK'
  <2>1. PICK i \in Id : task' = [NoTask EXCEPT !.op = i, !.phase = "before"]
        BY <1>14, Zenon DEF RequestRecovery
  <2>2. i # 0
        BY DEF RecoveryGiven
  <2>3. QED BY <2>1, <2>2, SmallTypes DEF TaskOK, NoTask, Task, Phase
<1>15. ASSUME NEW i \in Id, Reconcile(i) PROVE TaskOK'
       BY <1>3, <1>15 DEF Reconcile
<1>16. CASE Helpers
  <2>1. PICK c \in calls : \/ UNCHANGED procVars
                           \/ \E ok \in BOOLEAN : CallAnswered(c, ok)
        BY <1>16 DEF Helpers
  <2>2. ASSUME NEW ok \in BOOLEAN, CallAnswered(c, ok) PROVE TaskOK'
    <3>1. CASE UNCHANGED task
          BY <1>2, <3>1
    <3>2. CASE ~UNCHANGED task
      <4>1. task.phase = "calling" /\ Goto("watch")
            BY <2>2, <3>2 DEF CallAnswered
      <4>2. QED BY <1>0, <1>5, <4>1, GotoType DEF Goto, Phase
    <3>3. QED BY <3>1, <3>2
  <2>3. QED BY <1>2, <2>1, <2>2 DEF procVars
<1>17. ASSUME NEW w \in Worker,
              InspectWorker(w) \/ Pause(w) \/ Resume(w) \/ Works(w) \/ Quarantines(w)
       PROVE  TaskOK'
       BY <1>17, <1>2 DEF InspectWorker, Pause, Resume, Works, Quarantines, procVars
<1>18. CASE SetAutomatic \/ Close \/ CloseRecovery \/ Restart
       BY <1>18, <1>1, <1>2 DEF SetAutomatic, Close, CloseRecovery, Restart, procVars
<1>19. CASE UNCHANGED procVars
       BY <1>19, <1>2 DEF procVars
<1>20. QED BY <1>6, <1>7, <1>8, <1>9, <1>10, <1>11, <1>12, <1>13, <1>14, <1>15, <1>16, <1>17, <1>18, <1>19
           DEF Next, Executor, Requests, vars, Phase

(* The flags of the process, and the history.                              *)
FlagsOK == /\ recovering \in [Worker -> BOOLEAN] /\ work \in [Worker -> BOOLEAN]
           /\ stopping \in BOOLEAN /\ closed \in BOOLEAN /\ asked \in [Id -> Nat]

LEMMA FlagsStep == TypeOK /\ [Next]_vars => FlagsOK'
<1> SUFFICES ASSUME HostOK, StoreOK, ProcessOK, [Next]_vars PROVE FlagsOK'
    BY DEF TypeOK
<1>0. FlagsOK
      BY DEF FlagsOK, ProcessOK
<1>1. ASSUME UNCHANGED <<nodeVars, stopping, closed, asked>> PROVE FlagsOK'
      BY <1>0, <1>1, Zenon DEF FlagsOK, nodeVars
<1>2. ASSUME task.phase # "none", Fail PROVE FlagsOK'
  <2>1. recovering' \in [Worker -> BOOLEAN] /\ closed' \in BOOLEAN
        BY <1>2, FailTypes
  <2>2. QED BY <1>0, <1>2, <2>1, Zenon DEF Fail, FlagsOK
<1>3. CASE ExecuteIssues
  <2>1. asked' \in [Id -> Nat]
    <3>1. asked' = [asked EXCEPT ![task.op] = @ + 1] /\ task.op \in Id
          BY <1>3, TaskType DEF ExecuteIssues
    <3>2. QED BY <1>0, <3>1 DEF FlagsOK
  <2>2. QED BY <1>0, <1>3, <2>1, Zenon DEF ExecuteIssues, FlagsOK, nodeVars
<1>4. CASE ExecuteDecides
      BY <1>1, <1>2, <1>4 DEF ExecuteDecides
<1>5. CASE ExecuteWatches
      BY <1>1, <1>2, <1>5, Zenon DEF ExecuteWatches
<1>6. CASE VerifyRecovery
      BY <1>1, <1>2, <1>6 DEF VerifyRecovery
<1>7. CASE ExecuteConcludes
  <2>1. CASE Fail
        BY <1>2, <1>7, <2>1 DEF ExecuteConcludes, Conclude
  <2>2. CASE ~Fail
    <3>1. /\ recovering' = [recovering EXCEPT ![W] = FALSE]
          /\ UNCHANGED <<work, stopping, closed, asked>>
          BY <1>7, <2>2 DEF ExecuteConcludes, Conclude
    <3>2. recovering' \in [Worker -> BOOLEAN]
          BY <1>0, <3>1 DEF FlagsOK
    <3>3. QED BY <1>0, <3>1, <3>2, Zenon DEF FlagsOK
  <2>3. QED BY <2>1, <2>2
<1>8. ASSUME NEW from, NEW to, ExecutorInspects(from, to) PROVE FlagsOK'
      BY <1>1, <1>8 DEF ExecutorInspects
<1>9. CASE CallLost \/ TickResumes
      BY <1>1, <1>9 DEF CallLost, TickResumes
<1>10. ASSUME NEW w \in Worker, NEW actor \in Actor, NEW canary \in BOOLEAN,
              RequestRecovery(w, actor, canary)
       PROVE  FlagsOK'
  <2>1. recovering' \in [Worker -> BOOLEAN]
        BY <1>0, <1>10 DEF RequestRecovery, FlagsOK
  <2>2. QED BY <1>0, <1>10, <2>1, Zenon DEF RequestRecovery, FlagsOK
<1>11. ASSUME NEW i \in Id, Reconcile(i) PROVE FlagsOK'
  <2>1. recovering' \in [Worker -> BOOLEAN]
        BY <1>0, <1>11 DEF Reconcile, FlagsOK
  <2>2. QED BY <1>0, <1>11, <2>1, Zenon DEF Reconcile, FlagsOK
<1>12. CASE Helpers
       BY <1>1, <1>12 DEF Helpers, CallAnswered, procVars
<1>13. ASSUME NEW w \in Worker, InspectWorker(w) \/ Pause(w) \/ Resume(w) \/ Quarantines(w)
       PROVE  FlagsOK'
       BY <1>1, <1>13 DEF InspectWorker, Pause, Resume, Quarantines, procVars, nodeVars
<1>14. ASSUME NEW w \in Worker, Works(w) PROVE FlagsOK'
  <2>1. PICK b \in BOOLEAN : work' = [work EXCEPT ![w] = b]
    <3>1. (~work[w]) \in BOOLEAN
          OBVIOUS
    <3>2. QED BY <1>14, <3>1, Zenon DEF Works
  <2>2. work' \in [Worker -> BOOLEAN]
        BY <1>0, <2>1 DEF FlagsOK
  <2>3. QED BY <1>0, <1>14, <2>2, Zenon DEF Works, FlagsOK, procVars
<1>15. CASE SetAutomatic
       BY <1>1, <1>15 DEF SetAutomatic, procVars
<1>16. CASE Close \/ CloseRecovery
       BY <1>0, <1>16, Zenon DEF Close, CloseRecovery, FlagsOK, nodeVars
<1>17. CASE Restart
  <2>1. recovering' \in [Worker -> BOOLEAN] /\ work' \in [Worker -> BOOLEAN]
        BY <1>17 DEF Restart
  <2>2. QED BY <1>0, <1>17, <2>1, Zenon DEF Restart, FlagsOK
<1>18. CASE UNCHANGED <<nodeVars, procVars>>
       BY <1>1, <1>18 DEF procVars
<1>19. QED BY <1>3, <1>4, <1>5, <1>6, <1>7, <1>8, <1>9, <1>10, <1>11, <1>12, <1>13, <1>14, <1>15, <1>16,
              <1>17, <1>18 DEF Next, Executor, Requests, vars

LEMMA TypesStep == RecoveryGiven /\ TypeOK /\ [Next]_vars => TypeOK'
<1> SUFFICES ASSUME RecoveryGiven, TypeOK, [Next]_vars PROVE TypeOK'
    OBVIOUS
<1>1. HostOK' /\ StoreOK' /\ TaskOK' /\ FlagsOK'
      BY HostTypes, StoreTypes, TaskStep, FlagsStep
<1>2. ProcessOK'
      BY <1>1, Zenon DEF ProcessOK, TaskOK, FlagsOK
<1>3. QED BY <1>1, <1>2 DEF TypeOK

----------------------------------------------------------------------------
(* What an operation has on record.  A step that leaves it alone keeps it. *)
SameRecord(i) == /\ ops'[i].issued = ops[i].issued /\ ops'[i].new = ops[i].new
                 /\ ops'[i].st = ops[i].st /\ ops'[i].w = ops[i].w

LEMMA RecordKept ==
    ASSUME TypeOK, Recorded, UNCHANGED <<task, asked>>, \A i \in Id : SameRecord(i),
           \A c \in calls' : \E d \in calls : c.id = d.id /\ c.w = d.w
    PROVE  Recorded'
<1>1. calls \subseteq Call /\ \A d \in calls : d.id \in Id
      BY DEF TypeOK, HostOK, Call
<1>2. \A i \in Id : Unknown(i) => Unknown(i)'
      BY DEF Unknown, SameRecord
<1>3. task.op \in Id \cup {0} /\ (task.op = 0 <=> task.phase = "none")
      BY DEF TypeOK, ProcessOK, Task
<1>4. Undecided'
      BY <1>3 DEF Undecided, Recorded, SameRecord
<1>5. Asked'
      BY DEF Asked, Recorded, SameRecord
<1>6. CallsOpen'
      BY <1>1, <1>2 DEF CallsOpen, Recorded, SameRecord
<1>7. Calling'
      BY <1>2, <1>3 DEF Calling, Recorded
<1>8. Verifying'
      BY DEF Verifying, HelpersOver, Recorded
<1>9. QED BY <1>4, <1>5, <1>6, <1>7, <1>8 DEF Recorded

(* A step to a phase about which nothing is claimed.                       *)
LEMMA RecordMoves ==
    ASSUME TypeOK, Recorded, Asked', CallsOpen',
           task'.phase \in {"none", "watch", "watched"} \/ (task'.reconcile /\ task'.phase = "before")
    PROVE  Recorded'
BY DEF Recorded, Undecided, Calling, Verifying

(* The operation under way alone is written, and keeps what was issued.    *)
LEMMA RecordWritten ==
    ASSUME TypeOK, Recorded, NEW i \in Id, NEW x \in Operation, ops' = [ops EXCEPT ![i] = x],
           UNCHANGED asked, calls' \subseteq calls,
           x.issued = ops[i].issued, x.w = ops[i].w, x.st # "none",
           \/ \A c \in calls : c.id # i
           \/ x.new = ops[i].new /\ (Unknown(i) => x.st \notin {"recovered", "verified_paused", "failed"})
    PROVE  Asked' /\ CallsOpen'
<1>1. \A d \in calls : d.id \in Id
      BY DEF TypeOK, HostOK, Call
<1>2. ops \in [Id -> Operation]
      BY DEF TypeOK, StoreOK
<1>3. Asked'
      BY <1>2 DEF Recorded, Asked
<1>4. \A j \in Id : j # i => ops'[j] = ops[j]
      BY <1>2
<1>5. ops'[i] = x
      BY <1>2
<1>6. CallsOpen'
  <2> SUFFICES ASSUME NEW c \in calls, c \in calls' PROVE Unknown(c.id)' /\ ops'[c.id].w = c.w
      BY DEF CallsOpen
  <2>1. Unknown(c.id) /\ ops[c.id].w = c.w /\ c.id \in Id
        BY <1>1 DEF Recorded, CallsOpen
  <2>2. CASE c.id = i
        BY <2>1, <2>2, <1>5 DEF Unknown
  <2>3. CASE c.id # i
        BY <2>1, <2>3, <1>4 DEF Unknown
  <2>4. QED BY <2>2, <2>3
<1>7. QED BY <1>3, <1>6

(* execute's catch: what was issued without a known outcome is not failed. *)
LEMMA FailRecords ==
    ASSUME TypeOK, Recorded, task.phase # "none", Fail
    PROVE  Recorded'
<1>1. task.op \in Id /\ Op \in Operation
      BY TaskType DEF TypeOK
<1>2. UNCHANGED <<asked, calls>> /\ task' = NoTask
      BY DEF Fail
<1>3. NoTask.phase = "none"
      BY DEF NoTask
<1>4. CASE UNCHANGED ops
  <2>1. Asked' /\ CallsOpen'
        BY <1>2, <1>4 DEF Recorded, Asked, CallsOpen, Unknown
  <2>2. QED BY <1>2, <1>3, <2>1, RecordMoves
<1>5. CASE ~UNCHANGED ops
  <2>1. ops' = [ops EXCEPT ![task.op] = [Op EXCEPT !.st = FailureState]]
        BY <1>5 DEF Fail, Update
  <2>2. FailureState \in OpState \ {"none"}
        BY DEF FailureState, OpState, Terminal
  <2>3. Unknown(task.op) => FailureState \notin {"recovered", "verified_paused", "failed"}
        BY DEF Unknown, FailureState, Op
  <2> DEFINE x == [Op EXCEPT !.st = FailureState]
  <2>4. /\ x \in Operation /\ x.issued = ops[task.op].issued /\ x.w = ops[task.op].w
        /\ x.st = FailureState /\ x.new = ops[task.op].new
        BY <1>1, <2>2 DEF Operation, Op
  <2>5. Asked' /\ CallsOpen'
    <3> HIDE DEF x
    <3>1. ops' = [ops EXCEPT ![task.op] = x]
          BY <2>1 DEF x
    <3>2. QED BY <1>1, <1>2, <2>2, <2>3, <2>4, <3>1, RecordWritten
  <2>6. QED BY <1>2, <1>3, <2>5, RecordMoves
<1>6. QED BY <1>4, <1>5

LEMMA RecordedStep == RecoveryGiven /\ TypeOK /\ Recorded /\ [Next]_vars => Recorded'
<1> SUFFICES ASSUME RecoveryGiven, TypeOK, Recorded, [Next]_vars PROVE Recorded'
    OBVIOUS
<1>0. /\ HostOK /\ StoreOK /\ ProcessOK /\ ops \in [Id -> Operation] /\ task \in Task
      /\ asked \in [Id -> Nat] /\ \A d \in calls : d.id \in Id
      BY DEF TypeOK, StoreOK, ProcessOK, HostOK, Call
<1>1. ASSUME UNCHANGED <<ops, task, asked>>, calls' \subseteq calls PROVE Recorded'
      BY <1>1, RecordKept DEF SameRecord
<1>2. ASSUME NEW from, NEW to, ExecutorInspects(from, to),
             <<from, to>> \in {<<"before", "decide">>, <<"watch", "watched">>, <<"final", "conclude">>}
      PROVE  Recorded'
  <2>1. PICK o : task' = [task EXCEPT !.phase = to, !.snap = o.s, !.who = o.who]
        BY <1>2, Zenon DEF ExecutorInspects
  <2>2. task'.phase = to /\ task'.op = task.op /\ task'.reconcile = task.reconcile /\ task.phase = from
        BY <1>0, <1>2, <2>1 DEF Task, ExecutorInspects
  <2>3. UNCHANGED <<ops, calls, asked>>
        BY <1>2 DEF ExecutorInspects, hostVars
  <2>4. QED BY <1>2, <2>2, <2>3 DEF Recorded, Undecided, Asked, CallsOpen, Calling, Verifying,
                                  Unknown, HelpersOver
<1>3. CASE ExecuteIssues
  <2>1. task.op \in Id /\ Op \in Operation /\ Op = ops[task.op]
        BY <1>0, <1>3, TaskType DEF ExecuteIssues, Op
  <2>2. ~Op.issued /\ Op.new = 0 /\ asked[task.op] = 0
        BY <1>3, <2>1 DEF ExecuteIssues, Recorded, Undecided, Asked
  <2> DEFINE x == [Op EXCEPT !.st = "issuing", !.issued = TRUE]
  <2>3. x.issued /\ x.new = 0 /\ x.st = "issuing" /\ x.w = Op.w
        BY <2>1, <2>2 DEF Operation
  <2>4. ops' = [ops EXCEPT ![task.op] = x] /\ asked' = [asked EXCEPT ![task.op] = @ + 1]
        BY <1>3 DEF ExecuteIssues, Update
  <2>5. \A c \in calls' : c \in calls \/ (c.id = task.op /\ c.w = W)
        BY <1>0, <1>3, SendType DEF ExecuteIssues
  <2> HIDE DEF x
  <2>6. ops'[task.op] = x /\ \A j \in Id : j # task.op => ops'[j] = ops[j]
        BY <1>0, <2>1, <2>4
  <2>7. asked'[task.op] = 1 /\ \A j \in Id : j # task.op => asked'[j] = asked[j]
        BY <1>0, <2>1, <2>2, <2>4
  <2>8. Asked'
        BY <2>1, <2>3, <2>6, <2>7 DEF Recorded, Asked
  <2>9. Unknown(task.op)'
    <3>1. task'.op = task.op
          BY <1>0, <1>3 DEF ExecuteIssues, Forget, Task
    <3>2. ops'[task.op].issued /\ ops'[task.op].new = 0 /\ ops'[task.op].st = "issuing"
          BY <2>3, <2>6
    <3>3. QED BY <3>1, <3>2 DEF Unknown
  <2>10. CallsOpen'
    <3> SUFFICES ASSUME NEW c \in calls' PROVE Unknown(c.id)' /\ ops'[c.id].w = c.w
        BY DEF CallsOpen
    <3>1. CASE c.id = task.op /\ c.w = W
          BY <2>3, <2>6, <3>1 DEF Unknown, W
    <3>2. CASE c \in calls /\ c.id # task.op
          BY <1>0, <2>6, <3>2 DEF Recorded, CallsOpen, Unknown
    <3>3. CASE c \in calls /\ c.id = task.op
          BY <2>2, <3>3 DEF Recorded, CallsOpen, Unknown, Op
    <3>4. QED BY <2>5, <3>1, <3>2, <3>3
  <2>11. task'.phase = "calling" /\ task'.op = task.op
        BY <1>0, <1>3 DEF ExecuteIssues, Forget, Task
  <2>12. Calling'
        BY <2>3, <2>6, <2>11 DEF Calling, Unknown
  <2>13. QED BY <2>8, <2>10, <2>11, <2>12 DEF Recorded, Undecided, Verifying
<1>4. ASSUME task.phase # "none", Fail PROVE Recorded'
      BY <1>4, FailRecords
(* The executor writes a state and goes on to watch.                       *)
<1>5. ASSUME task.phase # "none", Update([Op EXCEPT !.st = "reconciling"]), UNCHANGED <<asked, calls>>,
             task'.phase = "watch"
      PROVE  Recorded'
  <2>1. task.op \in Id /\ Op \in Operation /\ Op = ops[task.op]
        BY <1>0, <1>5, TaskType DEF Op
  <2> DEFINE x == [Op EXCEPT !.st = "reconciling"]
  <2>2. x \in Operation /\ x.issued = Op.issued /\ x.w = Op.w /\ x.st = "reconciling" /\ x.new = Op.new
        BY <2>1 DEF Operation, OpState
  <2>3. ops' = [ops EXCEPT ![task.op] = x]
        BY <1>5 DEF Update
  <2> HIDE DEF x
  <2>4. Asked' /\ CallsOpen'
        BY <1>5, <2>1, <2>2, <2>3, RecordWritten
  <2>5. QED BY <1>5, <2>4, RecordMoves
<1>6. CASE ExecuteDecides
  <2>1. CASE Fail
        BY <1>4, <1>6, <2>1 DEF ExecuteDecides
  <2>2. CASE ~Fail
    <3>1. /\ task' = [Forget EXCEPT !.phase = "watch", !.replacement = Replacement]
          /\ UNCHANGED <<asked, calls>>
          /\ UNCHANGED ops \/ Update([Op EXCEPT !.st = "reconciling"])
          BY <1>6, <2>2 DEF ExecuteDecides, hostVars
    <3>2. task'.phase = "watch"
          BY <1>0, <3>1 DEF Forget, Task
    <3>3. CASE UNCHANGED ops
      <4>1. Asked' /\ CallsOpen'
            BY <3>1, <3>3 DEF Recorded, Asked, CallsOpen, Unknown
      <4>2. QED BY <3>2, <4>1, RecordMoves
    <3>4. QED BY <1>5, <1>6, <3>1, <3>2, <3>3 DEF ExecuteDecides
  <2>3. QED BY <2>1, <2>2
<1>7. CASE ExecuteWatches
  <2>1. CASE Fail
        BY <1>4, <1>7, <2>1 DEF ExecuteWatches
  <2>2. CASE Goto("watch") /\ UNCHANGED <<calls, ops, asked>>
    <3>1. task'.phase = "watch"
          BY <1>0, <2>2 DEF Goto, Forget, Task
    <3>2. Asked' /\ CallsOpen'
          BY <2>2 DEF Recorded, Asked, CallsOpen, Unknown
    <3>3. QED BY <3>1, <3>2, RecordMoves
  <2>3. CASE ~Fail /\ ~(Goto("watch") /\ UNCHANGED <<calls, ops, asked>>)
    <3>1. /\ Update([Op EXCEPT !.st = "verifying", !.new = task.snap.inst])
          /\ task' = [Forget EXCEPT !.phase = "verify", !.after = task.snap.inst]
          /\ UNCHANGED <<calls, asked>> /\ HelpersOver
          BY <1>7, <2>3, Zenon DEF ExecuteWatches, hostVars, storeVars, Arrived
    <3>2. task.op \in Id /\ Op \in Operation /\ Op = ops[task.op] /\ task.snap.inst \in Nat
          BY <1>0, <1>7, TaskType DEF ExecuteWatches, Op, Service
    <3> DEFINE x == [Op EXCEPT !.st = "verifying", !.new = task.snap.inst]
    <3>3. x \in Operation /\ x.issued = Op.issued /\ x.w = Op.w /\ x.st = "verifying"
          BY <3>2 DEF Operation, OpState
    <3>4. ops' = [ops EXCEPT ![task.op] = x]
          BY <3>1 DEF Update
    <3> HIDE DEF x
    <3>5. Asked' /\ CallsOpen'
          BY <3>1, <3>2, <3>3, <3>4, RecordWritten DEF HelpersOver
    <3>6. task'.phase = "verify" /\ task'.op = task.op
          BY <1>0, <3>1 DEF Forget, Task
    <3>7. Verifying'
          BY <3>1, <3>6 DEF Verifying, HelpersOver
    <3>8. QED BY <3>5, <3>6, <3>7 DEF Recorded, Undecided, Calling
  <2>4. QED BY <2>1, <2>2, <2>3
<1>8. CASE VerifyRecovery
  <2>1. CASE Fail
        BY <1>4, <1>8, <2>1 DEF VerifyRecovery
  <2>2. CASE ~Fail
    <3>1. task' = [Forget EXCEPT !.phase = "final"] /\ task.phase = "verify" /\ UNCHANGED <<calls, ops, asked>>
          BY <1>8, <2>2 DEF VerifyRecovery, Goto, hostVars, storeVars
    <3>2. task'.phase = "final" /\ task'.op = task.op
          BY <1>0, <3>1 DEF Forget, Task
    <3>3. QED BY <3>1, <3>2 DEF Recorded, Undecided, Asked, CallsOpen, Calling, Verifying, Unknown, HelpersOver
  <2>3. QED BY <2>1, <2>2
<1>9. CASE ExecuteConcludes
  <2>1. CASE Fail
        BY <1>4, <1>9, <2>1 DEF ExecuteConcludes, Conclude
  <2>2. CASE ~Fail
    <3>1. /\ Update([Op EXCEPT !.st = IF Held THEN "verified_paused" ELSE "recovered"])
          /\ task' = NoTask /\ UNCHANGED <<calls, asked>> /\ task.phase = "conclude"
          BY <1>9, <2>2 DEF ExecuteConcludes, Conclude, hostVars
    <3>2. task.op \in Id /\ Op \in Operation /\ Op = ops[task.op]
          BY <1>0, <3>1, TaskType DEF Op
    <3> DEFINE x == [Op EXCEPT !.st = IF Held THEN "verified_paused" ELSE "recovered"]
    <3>3. x \in Operation /\ x.issued = Op.issued /\ x.w = Op.w /\ x.st # "none"
          BY <3>2 DEF Operation, OpState, Terminal
    <3>4. ops' = [ops EXCEPT ![task.op] = x]
          BY <3>1 DEF Update
    <3> HIDE DEF x
    <3>5. \A c \in calls : c.id # task.op
          BY <3>1 DEF Recorded, Verifying, HelpersOver
    <3>6. Asked' /\ CallsOpen'
          BY <3>1, <3>2, <3>3, <3>4, <3>5, RecordWritten
    <3>7. task'.phase = "none"
          BY <3>1 DEF NoTask
    <3>8. QED BY <3>6, <3>7, RecordMoves
  <2>3. QED BY <2>1, <2>2
<1>10. CASE CallLost
  <2>0. task.phase = "calling" /\ task.op \in Id /\ Unknown(task.op) /\ task.n + 1 \in Nat
        BY <1>0, <1>10, TaskType DEF CallLost, Recorded, Calling, Task
  <2>1. CASE task' = [task EXCEPT !.n = @ + 1] /\ UNCHANGED ops /\ task.n < Targets
    <3>1. \A c \in calls' : c \in calls \/ (c.id = task.op /\ c.w = W)
          BY <1>0, <1>10, <2>0, <2>1, SendType DEF CallLost
    <3>2. task'.phase = "calling" /\ task'.op = task.op
          BY <1>0, <2>0, <2>1 DEF Task
    <3>3. CallsOpen'
          BY <2>0, <2>1, <3>1 DEF Recorded, CallsOpen, Unknown, W, Op
    <3>4. UNCHANGED asked
          BY <1>10 DEF CallLost
    <3>5. QED BY <2>0, <2>1, <3>2, <3>3, <3>4
              DEF Recorded, Undecided, Asked, Calling, Verifying, Unknown
  <2>2. CASE Goto("watch") /\ Update([Op EXCEPT !.st = "reconciling"]) /\ task.n = Targets
    <3>1. task'.phase = "watch"
          BY <1>0, <2>2 DEF Goto, Forget, Task
    <3>2. UNCHANGED <<asked, calls>>
          BY <1>10, <2>2 DEF CallLost, RecoveryGiven
    <3>3. QED BY <1>5, <2>0, <2>2, <3>1, <3>2
  <2>3. QED BY <1>10, <2>1, <2>2 DEF CallLost, NextTarget
<1>11. ASSUME NEW i \in Id, task' = [NoTask EXCEPT !.op = i, !.phase = "before", !.reconcile = TRUE],
              UNCHANGED <<calls, asked>>, UNCHANGED ops
       PROVE  Recorded'
  <2>1. task'.phase = "before" /\ task'.reconcile
        BY <1>11 DEF NoTask
  <2>2. Asked' /\ CallsOpen'
        BY <1>11 DEF Recorded, Asked, CallsOpen, Unknown
  <2>3. QED BY <2>1, <2>2, RecordMoves
<1>12. CASE TickResumes
       BY <1>11, <1>12 DEF TickResumes, Pending, hostVars, storeVars
<1>13. ASSUME NEW i \in Id, Reconcile(i) PROVE Recorded'
  <2>1. ops[i] \in Operation
        BY <1>0
  <2> DEFINE x == [ops[i] EXCEPT !.st = "reconciling"]
  <2>2. /\ x \in Operation /\ x.issued = ops[i].issued /\ x.w = ops[i].w /\ x.new = ops[i].new
        /\ x.st = "reconciling"
        BY <2>1 DEF Operation, OpState
  <2>3. ops' = [ops EXCEPT ![i] = x]
        BY <1>13 DEF Reconcile
  <2>4. UNCHANGED <<asked, calls>>
        BY <1>13 DEF Reconcile, hostVars
  <2>5. task'.phase = "before" /\ task'.reconcile
        BY <1>13 DEF Reconcile, NoTask
  <2> HIDE DEF x
  <2>6. Asked' /\ CallsOpen'
        BY <2>2, <2>3, <2>4, RecordWritten
  <2>7. QED BY <2>5, <2>6, RecordMoves
<1>14. ASSUME NEW w \in Worker, NEW actor \in Actor, NEW canary \in BOOLEAN,
              RequestRecovery(w, actor, canary)
       PROVE  Recorded'
  <2>1. PICK i \in Id \ Used, o \in Inspection(w) :
           /\ ops' = [ops EXCEPT ![i] =
                [NoOp(w) EXCEPT !.act = ServiceAction(w, o.s), !.inst = o.s.inst, !.st = "queued",
                   !.actor = actor,
                   !.profile = IF ServiceAction(w, o.s) \in {"adopt_restart", "adopt_verify"}
                               THEN o.s.profile ELSE effective[w],
                   !.canary = canary, !.paused = drained[w], !.quarantine = quarantine[w]]]
           /\ task' = [NoTask EXCEPT !.op = i, !.phase = "before"]
        BY <1>14, Zenon DEF RequestRecovery
  <2>2. ops[i].st = "none" /\ ~ops[i].issued /\ i \in Id
        BY DEF Used, Recorded, Asked
  <2>3. PICK x : ops' = [ops EXCEPT ![i] = x] /\ ~x.issued /\ x.new = 0 /\ x.st = "queued"
    <3> DEFINE x == [NoOp(w) EXCEPT !.act = ServiceAction(w, o.s), !.inst = o.s.inst, !.st = "queued",
                   !.actor = actor,
                   !.profile = IF ServiceAction(w, o.s) \in {"adopt_restart", "adopt_verify"}
                               THEN o.s.profile ELSE effective[w],
                   !.canary = canary, !.paused = drained[w], !.quarantine = quarantine[w]]
    <3>1. x.issued = FALSE /\ x.new = 0 /\ x.st = "queued"
          BY Zenon DEF NoOp
    <3>2. ops' = [ops EXCEPT ![i] = x]
          BY <2>1, Zenon
    <3> HIDE DEF x
    <3>3. QED BY <3>1, <3>2, Zenon
  <2>4. ops'[i] = x /\ \A j \in Id : j # i => ops'[j] = ops[j]
        BY <1>0, <2>3
  <2>5. UNCHANGED <<asked, calls>>
        BY <1>14 DEF RequestRecovery
  <2>6. task'.phase = "before" /\ task'.op = i
        BY <2>1 DEF NoTask
  <2>7. Asked'
        BY <2>2, <2>3, <2>4, <2>5 DEF Recorded, Asked
  <2>8. CallsOpen'
        BY <1>0, <2>2, <2>4, <2>5 DEF Recorded, CallsOpen, Unknown
  <2>9. QED BY <2>3, <2>4, <2>6, <2>7, <2>8 DEF Recorded, Undecided, Calling, Verifying
<1>15. CASE Helpers
  <2>1. PICK c \in calls :
          \/ /\ HelperIntends(c) \/ OmlxLeavesStopped(c) \/ HelperDies(c)
             /\ UNCHANGED <<storeVars, procVars>>
          \/ \E ok \in BOOLEAN : CallAnswered(c, ok)
        BY <1>15 DEF Helpers
  <2>2. CASE HelperIntends(c) /\ UNCHANGED <<storeVars, procVars>>
    <3>1. calls' = (calls \ {c}) \cup {[c EXCEPT !.at = "intent"]} /\ c \in Call
          BY <2>2, <1>0 DEF HelperIntends, Move, HostOK
    <3>2. \A d \in calls' : \E e \in calls : d.id = e.id /\ d.w = e.w
          BY <3>1 DEF Call
    <3>3. QED BY <2>2, <3>2, RecordKept DEF storeVars, procVars, SameRecord
  <2>3. CASE (OmlxLeavesStopped(c) \/ HelperDies(c)) /\ UNCHANGED <<storeVars, procVars>>
        BY <1>1, <2>3 DEF OmlxLeavesStopped, Runs, HelperDies, storeVars, procVars
  <2>4. ASSUME NEW ok \in BOOLEAN, CallAnswered(c, ok) PROVE Recorded'
    <3>1. calls' \subseteq calls /\ UNCHANGED <<ops, asked>>
          BY <2>4 DEF CallAnswered, HelperEnds, HelperRuns, HelperDeclines, Runs, storeVars
    <3>2. CASE UNCHANGED task
          BY <1>1, <3>1, <3>2
    <3>3. CASE ~UNCHANGED task
      <4>1. task'.phase = "watch"
            BY <1>0, <2>4, <3>3 DEF CallAnswered, Goto, Forget, Task
      <4>2. Asked' /\ CallsOpen'
            BY <3>1 DEF Recorded, Asked, CallsOpen, Unknown
      <4>3. QED BY <4>1, <4>2, RecordMoves
    <3>4. QED BY <3>2, <3>3
  <2>5. QED BY <2>1, <2>2, <2>3, <2>4
<1>16. ASSUME NEW w \in Worker, Pause(w) PROVE Recorded'
  <2>1. \A i \in Id : ops'[i] = ops[i] \/ ops'[i] = [ops[i] EXCEPT !.override = TRUE]
        BY <1>16 DEF Pause, OperatorPause
  <2>2. ASSUME NEW i \in Id PROVE SameRecord(i)
    <3>1. ops[i] \in Operation
          BY <1>0
    <3>2. QED BY <2>1, <3>1 DEF SameRecord, Operation
  <2>3. UNCHANGED <<task, asked, calls>>
        BY <1>16 DEF Pause, procVars, hostVars
  <2>4. QED BY <2>2, <2>3, RecordKept
<1>17. ASSUME NEW w \in Worker, InspectWorker(w) \/ Resume(w) \/ Works(w) \/ Quarantines(w)
       PROVE  Recorded'
       BY <1>1, <1>17 DEF InspectWorker, Resume, Works, Quarantines, procVars, hostVars, storeVars
<1>18. CASE SetAutomatic \/ Close \/ CloseRecovery
       BY <1>1, <1>18 DEF SetAutomatic, Close, CloseRecovery, procVars, hostVars, storeVars
<1>19. CASE Restart
  <2>1. task'.phase = "none" /\ UNCHANGED <<ops, asked, calls>>
        BY <1>19 DEF Restart, NoTask, storeVars
  <2>2. Asked' /\ CallsOpen'
        BY <2>1 DEF Recorded, Asked, CallsOpen, Unknown
  <2>3. QED BY <2>1, <2>2, RecordMoves
<1>20. CASE HostNext /\ UNCHANGED <<storeVars, procVars>>
  <2>1. UNCHANGED calls
        BY <1>20 DEF HostNext, Lands, Faults, Stops, Restarts, Removed, Disabled, Unasked
  <2>2. QED BY <1>1, <1>20, <2>1 DEF storeVars, procVars
<1>21. CASE UNCHANGED vars
       BY <1>1, <1>21 DEF vars, hostVars, storeVars, procVars
<1>22. QED BY <1>2, <1>3, <1>6, <1>7, <1>8, <1>9, <1>10, <1>12, <1>13, <1>14, <1>15, <1>16, <1>17,
              <1>18, <1>19, <1>20, <1>21 DEF Next, Executor, Requests

----------------------------------------------------------------------------
(* What was issued stays issued, on its worker, and an operation recovers  *)
(* its worker only when nobody has paused it.                              *)
Unpaused(i) == ~ops[i].override /\ ~drained[ops[i].w] /\ ~ops[i].paused
Kept(i) == /\ ops[i].issued => ops'[i].issued /\ ops'[i].w = ops[i].w
           /\ (ops[i].st # "recovered" /\ ops'[i].st = "recovered") => Unpaused(i)

LEMMA IssuedKept ==
    ASSUME TypeOK, Recorded, [Next]_vars
    PROVE  \A i \in Id : Kept(i)
<1>0. HostOK /\ StoreOK /\ ProcessOK /\ ops \in [Id -> Operation]
      BY DEF TypeOK, StoreOK
<1>1. ASSUME UNCHANGED ops PROVE \A i \in Id : Kept(i)
      BY <1>1 DEF Kept
<1>2. ASSUME NEW j \in Id, NEW x, ops' = [ops EXCEPT ![j] = x],
             ops[j].issued => x.issued /\ x.w = ops[j].w, x.st = "recovered" => Unpaused(j)
      PROVE  \A i \in Id : Kept(i)
      BY <1>0, <1>2 DEF Kept
<1>3. ASSUME task.phase # "none", NEW x, Update(x), x.st = "recovered" => Unpaused(task.op),
             Op.issued => x.issued /\ x.w = Op.w
      PROVE  \A i \in Id : Kept(i)
  <2>1. task.op \in Id /\ Op = ops[task.op]
        BY <1>0, <1>3, TaskType DEF Op
  <2>2. QED BY <1>2, <1>3, <2>1 DEF Update
<1>15. ASSUME task.phase # "none", NEW st, Update([Op EXCEPT !.st = st]),
              st = "recovered" => Unpaused(task.op)
       PROVE  \A i \in Id : Kept(i)
  <2>1. LET x == [Op EXCEPT !.st = st] IN x.issued = Op.issued /\ x.w = Op.w /\ x.st = st
        BY <1>0, <1>15, TaskType DEF Operation
  <2>2. QED BY <1>3, <1>15, <2>1
<1>4. ASSUME task.phase # "none", Fail PROVE \A i \in Id : Kept(i)
  <2>1. FailureState # "recovered"
        BY DEF FailureState
  <2>2. QED BY <1>1, <1>4, <1>15, <2>1 DEF Fail
<1>16. task.phase # "none" /\ Update([Op EXCEPT !.st = "reconciling"]) => \A i \in Id : Kept(i)
       BY <1>15
<1>5. CASE Executor
  <2>1. ASSUME NEW from, NEW to, ExecutorInspects(from, to) PROVE UNCHANGED ops
        BY <2>1 DEF ExecutorInspects
  <2>2. CASE ExecuteIssues
    <3>1. LET x == [Op EXCEPT !.st = "issuing", !.issued = TRUE] IN
          x.issued /\ x.w = Op.w /\ x.st = "issuing"
          BY <1>0, <2>2, TaskType DEF ExecuteIssues, Operation
    <3>2. Update([Op EXCEPT !.st = "issuing", !.issued = TRUE]) /\ task.phase # "none"
          BY <2>2 DEF ExecuteIssues
    <3>3. QED BY <1>3, <3>1, <3>2
  <2>3. CASE ExecuteDecides
        BY <1>1, <1>4, <1>16, <2>3 DEF ExecuteDecides
  <2>4. CASE ExecuteWatches
    <3>1. task.phase # "none"
          BY <2>4 DEF ExecuteWatches
    <3>2. Fail \/ UNCHANGED ops \/ Update([Op EXCEPT !.st = "verifying", !.new = task.snap.inst])
          BY <2>4, Zenon DEF ExecuteWatches, storeVars
    <3>3. LET x == [Op EXCEPT !.st = "verifying", !.new = task.snap.inst] IN
          x.issued = Op.issued /\ x.w = Op.w /\ x.st = "verifying"
          BY <1>0, <3>1, TaskType DEF Operation
    <3>4. QED BY <1>1, <1>3, <1>4, <3>1, <3>2, <3>3
  <2>5. CASE VerifyRecovery
        BY <1>1, <1>4, <2>5 DEF VerifyRecovery, storeVars
  <2>6. CASE ExecuteConcludes
    <3>1. CASE Fail
          BY <1>4, <2>6, <3>1 DEF ExecuteConcludes, Conclude
    <3>2. CASE ~Fail
      <4>1. /\ task.phase # "none"
            /\ Update([Op EXCEPT !.st = IF Held THEN "verified_paused" ELSE "recovered"])
            BY <2>6, <3>2 DEF ExecuteConcludes, Conclude
      <4>2. ~Held => Unpaused(task.op)
            BY DEF Held, Unpaused, Op, W
      <4>3. QED BY <1>15, <4>1, <4>2
    <3>3. QED BY <3>1, <3>2
  <2>7. QED BY <1>1, <1>5, <2>1, <2>2, <2>3, <2>4, <2>5, <2>6 DEF Executor
<1>6. CASE CallLost
      BY <1>1, <1>16, <1>6 DEF CallLost, NextTarget
<1>7. CASE TickResumes \/ Helpers
      BY <1>1, <1>7 DEF TickResumes, Helpers, CallAnswered, storeVars
<1>8. ASSUME NEW w \in Worker, NEW actor \in Actor, NEW canary \in BOOLEAN,
             RequestRecovery(w, actor, canary)
      PROVE  \A i \in Id : Kept(i)
  <2>1. PICK i \in Id \ Used, o \in Inspection(w) : ops' = [ops EXCEPT ![i] =
                [NoOp(w) EXCEPT !.act = ServiceAction(w, o.s), !.inst = o.s.inst, !.st = "queued",
                   !.actor = actor,
                   !.profile = IF ServiceAction(w, o.s) \in {"adopt_restart", "adopt_verify"}
                               THEN o.s.profile ELSE effective[w],
                   !.canary = canary, !.paused = drained[w], !.quarantine = quarantine[w]]]
        BY <1>8, Zenon DEF RequestRecovery
  <2>2. ~ops[i].issued /\ i \in Id
        BY DEF Used, Recorded, Asked
  <2>3. PICK x : ops' = [ops EXCEPT ![i] = x] /\ x.st = "queued"
    <3> DEFINE x == [NoOp(w) EXCEPT !.act = ServiceAction(w, o.s), !.inst = o.s.inst, !.st = "queued",
                   !.actor = actor,
                   !.profile = IF ServiceAction(w, o.s) \in {"adopt_restart", "adopt_verify"}
                               THEN o.s.profile ELSE effective[w],
                   !.canary = canary, !.paused = drained[w], !.quarantine = quarantine[w]]
    <3>1. x.st = "queued"
          BY Zenon DEF NoOp
    <3>2. ops' = [ops EXCEPT ![i] = x]
          BY <2>1, Zenon
    <3> HIDE DEF x
    <3>3. QED BY <3>1, <3>2, Zenon
  <2>4. QED BY <1>2, <2>2, <2>3
<1>9. ASSUME NEW i \in Id, Reconcile(i) PROVE \A j \in Id : Kept(j)
  <2>1. ops' = [ops EXCEPT ![i] = [ops[i] EXCEPT !.st = "reconciling"]]
        BY <1>9 DEF Reconcile
  <2>2. LET x == [ops[i] EXCEPT !.st = "reconciling"] IN
        x.issued = ops[i].issued /\ x.w = ops[i].w /\ x.st = "reconciling"
        BY <1>0 DEF Operation
  <2>3. QED BY <1>2, <2>1, <2>2
<1>10. ASSUME NEW w \in Worker, Pause(w) PROVE \A i \in Id : Kept(i)
  <2>1. \A i \in Id : ops'[i] = ops[i] \/ ops'[i] = [ops[i] EXCEPT !.override = TRUE]
        BY <1>10 DEF Pause, OperatorPause
  <2>2. QED BY <1>0, <2>1 DEF Kept, Operation
<1>11. ASSUME NEW w \in Worker, InspectWorker(w) \/ Resume(w) \/ Works(w) \/ Quarantines(w)
       PROVE  UNCHANGED ops
       BY <1>11 DEF InspectWorker, Resume, Works, Quarantines, storeVars
<1>12. CASE SetAutomatic \/ Close \/ CloseRecovery \/ Restart
       BY <1>1, <1>12 DEF SetAutomatic, Close, CloseRecovery, Restart, storeVars
<1>13. CASE UNCHANGED storeVars
       BY <1>1, <1>13 DEF storeVars
<1>14. QED BY <1>1, <1>5, <1>6, <1>7, <1>8, <1>9, <1>10, <1>11, <1>12, <1>13 DEF Next, Requests, vars

(* A step is one of a helper that writes its journal or gives a command,   *)
(* or it leaves journals and commands, and calls a helper at most.         *)
Quiet == /\ UNCHANGED <<journal, commands>>
         /\ \A c \in calls' : c \in calls \/ c.at = "sent"

LEMMA QuietOrHelper ==
    ASSUME TypeOK, [Next]_vars
    PROVE  Quiet \/ \E c \in calls : HelperIntends(c)
                                  \/ (Runs(c) /\ (UNCHANGED journal \/ Issued(c)))
<1>0. HostOK /\ StoreOK /\ ProcessOK
      BY DEF TypeOK
<1>1. ASSUME UNCHANGED <<journal, calls, commands>> PROVE Quiet
      BY <1>1 DEF Quiet
<1>2. CASE ExecuteIssues
      BY <1>0, <1>2, SendType DEF ExecuteIssues, Quiet
<1>3. CASE ExecuteDecides
      BY <1>1, <1>3 DEF ExecuteDecides, Fail, hostVars
<1>4. CASE ExecuteWatches
      BY <1>1, <1>4, Zenon DEF ExecuteWatches, Fail, hostVars
<1>5. CASE VerifyRecovery \/ ExecuteConcludes
      BY <1>1, <1>5 DEF VerifyRecovery, ExecuteConcludes, Conclude, Fail, hostVars
<1>6. ASSUME NEW from, NEW to, ExecutorInspects(from, to) PROVE Quiet
      BY <1>1, <1>6 DEF ExecutorInspects, hostVars
<1>7. CASE CallLost
  <2>1. task.n + 1 \in Nat
        BY <1>0 DEF ProcessOK, Task
  <2>2. QED BY <1>0, <1>7, <2>1, SendType DEF CallLost, Quiet
<1>8. CASE TickResumes \/ SetAutomatic \/ Close \/ CloseRecovery \/ Restart
      BY <1>1, <1>8 DEF TickResumes, SetAutomatic, Close, CloseRecovery, Restart, hostVars
<1>9. CASE Requests
      BY <1>1, <1>9 DEF Requests, RequestRecovery
<1>10. CASE Helpers
  <2>1. PICK c \in calls : \/ HelperIntends(c) \/ OmlxLeavesStopped(c) \/ HelperDies(c)
                           \/ \E ok \in BOOLEAN : HelperEnds(c, ok)
        BY <1>10 DEF Helpers, CallAnswered
  <2>2. CASE HelperIntends(c)
        BY <2>2
  <2>3. CASE OmlxLeavesStopped(c)
        BY <2>3 DEF OmlxLeavesStopped
  <2>4. CASE HelperDies(c)
        BY <2>4 DEF HelperDies, Quiet
  <2>5. ASSUME NEW ok \in BOOLEAN, HelperRuns(c, ok) PROVE Runs(c) /\ (UNCHANGED journal \/ Issued(c))
        BY <2>5 DEF HelperRuns
  <2>6. ASSUME NEW ok \in BOOLEAN, HelperDeclines(c, ok) PROVE Quiet
        BY <2>6 DEF HelperDeclines, Quiet
  <2>7. QED BY <2>1, <2>2, <2>3, <2>4, <2>5, <2>6 DEF HelperEnds
<1>11. ASSUME NEW i \in Id, Reconcile(i) PROVE Quiet
       BY <1>1, <1>11 DEF Reconcile, hostVars
<1>12. ASSUME NEW w \in Worker, InspectWorker(w) \/ Pause(w) \/ Resume(w) \/ Works(w) \/ Quarantines(w)
       PROVE  Quiet
       BY <1>1, <1>12 DEF InspectWorker, Pause, Resume, Works, Quarantines, hostVars
<1>13. CASE HostNext
       BY <1>1, <1>13 DEF HostNext, Lands, Faults, Stops, Restarts, Removed, Disabled, Unasked
<1>14. CASE UNCHANGED vars
       BY <1>1, <1>14 DEF vars, hostVars
<1>15. QED BY <1>2, <1>3, <1>4, <1>5, <1>6, <1>7, <1>8, <1>9, <1>10, <1>11, <1>12, <1>13, <1>14
           DEF Next, Executor

(* No helper commits to what its journal says was attempted.               *)
LEMMA AdmitsOnce == ASSUME NEW c, Admits(c) PROVE ~Attempted(c)
BY DEF Admits, SystemdAdmits, DockerAdmits, LaunchdAdmits, LaunchdBootstraps, OmlxAdmits

LEMMA JournalledStep == TypeOK /\ Recorded /\ Journalled /\ [Next]_vars => Journalled'
<1> SUFFICES ASSUME TypeOK, Recorded, Journalled, [Next]_vars PROVE Journalled'
    OBVIOUS
<1>0. /\ HostOK /\ calls \subseteq Call /\ commands \in Seq(Command)
      /\ journal \in [Worker -> SUBSET Receipt]
      BY DEF TypeOK, HostOK
<1>1. \A i \in 1..Len(commands) : commands[i] \in Command /\ commands[i].id \in Id
  <2>1. \A i \in 1..Len(commands) : commands[i] \in Command
        BY <1>0
  <2>2. QED BY <2>1 DEF Command
<1>2. \A i \in Id : Kept(i)
      BY IssuedKept
<1>3. \A i \in 1..Len(commands) : ops'[commands[i].id].issued /\ ops'[commands[i].id].w = commands[i].w
      BY <1>1, <1>2 DEF Journalled, CommandKept, Kept
<1>4. CASE Quiet
  <2>1. IntentKept' /\ OneIntent' /\ IntentNew' /\ OneCommand'
        BY <1>4 DEF Quiet, Journalled, IntentKept, OneIntent, IntentNew, OneCommand
  <2>2. CommandKept'
        BY <1>3, <1>4 DEF Quiet, Journalled, CommandKept
  <2>3. QED BY <2>1, <2>2 DEF Journalled
<1>5. ASSUME NEW c \in calls, HelperIntends(c) PROVE Journalled'
  <2> DEFINE d == [c EXCEPT !.at = "intent"]
             r == [id |-> c.id, act |-> c.act, inst |-> c.inst, st |-> "intent"]
  <2>1. /\ c.w \in Worker /\ c.id \in Id /\ c \in Call
        /\ d.id = c.id /\ d.w = c.w /\ d.act = c.act /\ d.inst = c.inst /\ d.at = "intent"
        BY <1>0 DEF Call
  <2>2. calls' = (calls \ {c}) \cup {d} /\ UNCHANGED commands
        BY <1>5 DEF HelperIntends, Move
  <2>3. r \in journal'[c.w] /\ For(r, d)
        BY <1>0, <1>5, <2>1 DEF HelperIntends, Save, For
  <2>4. \A w \in Worker : journal[w] \subseteq journal'[w]
    <3>1. \A q \in journal[c.w] : q.id # c.id
          BY <1>5 DEF HelperIntends, Previous
    <3>2. QED BY <1>0, <1>5, <2>1, <3>1 DEF HelperIntends, Save
  <2>5. \A e \in calls : e.w = c.w => e.at = "sent"
        BY <1>5 DEF HelperIntends, LockFree
  <2> HIDE DEF d, r
  <2>6. IntentKept'
        BY <1>0, <2>1, <2>2, <2>3, <2>4 DEF Journalled, IntentKept, Call
  <2>7. OneIntent'
        BY <1>0, <2>1, <2>2, <2>5 DEF Journalled, OneIntent
  <2>8. CommandKept'
        BY <1>1, <1>3, <2>2, <2>4 DEF Journalled, CommandKept, Command
  <2>9. OneCommand'
        BY <2>2 DEF Journalled, OneCommand
  <2>10. \A i \in 1..Len(commands) :
           /\ commands[i].id # c.id
           /\ ~(commands[i].w = c.w /\ commands[i].act = c.act /\ commands[i].inst = c.inst)
    <3> SUFFICES ASSUME NEW i \in 1..Len(commands)
                 PROVE  /\ commands[i].id # c.id
                        /\ ~(/\ commands[i].w = c.w /\ commands[i].act = c.act
                             /\ commands[i].inst = c.inst)
        OBVIOUS
    <3>1. PICK q \in journal[commands[i].w] : For(q, commands[i])
          BY DEF Journalled, CommandKept
    <3>2. commands[i].id = c.id => commands[i].w = c.w
          BY DEF Journalled, CommandKept, Recorded, CallsOpen
    <3>3. \A p \in journal[c.w] : p.id # c.id /\ ~(p.act = c.act /\ p.inst = c.inst)
          BY <1>5, AdmitsOnce DEF HelperIntends, Previous, Attempted
    <3>4. QED BY <3>1, <3>2, <3>3 DEF For
  <2>11. IntentNew'
        BY <2>1, <2>2, <2>10 DEF Journalled, IntentNew
  <2>12. QED BY <2>6, <2>7, <2>8, <2>9, <2>11 DEF Journalled
<1>6. ASSUME NEW c \in calls, Runs(c), UNCHANGED journal \/ Issued(c) PROVE Journalled'
  <2> DEFINE k == [id |-> c.id, w |-> c.w, act |-> c.act, inst |-> c.inst]
             r == [id |-> c.id, act |-> c.act, inst |-> c.inst, st |-> "issued"]
  <2>1. /\ c.w \in Worker /\ c.id \in Id /\ c \in Call /\ c.at = "intent"
        /\ k.id = c.id /\ k.w = c.w /\ k.act = c.act /\ k.inst = c.inst /\ k \in Command
        BY <1>0, <1>6 DEF Call, Runs, Command
  <2>2. calls' = calls \ {c} /\ commands' = Append(commands, k)
        BY <1>6 DEF Runs
  <2>3. ops'[c.id].issued /\ ops'[c.id].w = c.w
        BY <1>2, <2>1 DEF Recorded, CallsOpen, Unknown, Kept
  <2>4. /\ \A w \in Worker : \A q \in journal[w] : (w = c.w /\ q.id = c.id) \/ q \in journal'[w]
        /\ \E q \in journal'[c.w] : For(q, c)
    <3>1. PICK q \in journal[c.w] : For(q, c)
          BY <2>1 DEF Journalled, IntentKept
    <3>2. CASE UNCHANGED journal
          BY <3>1, <3>2
    <3>3. CASE Issued(c)
      <4>1. For(r, c) /\ r.id = c.id
            BY DEF For
      <4>2. journal' = [journal EXCEPT ![c.w] = {p \in @ : p.id # c.id} \cup {r}]
            BY <3>3 DEF Issued, Save
      <4> HIDE DEF r
      <4>3. QED BY <1>0, <2>1, <4>1, <4>2
    <3>4. QED BY <1>6, <3>2, <3>3
  <2> HIDE DEF k, r
  <2>5. /\ Len(commands') = Len(commands) + 1 /\ commands'[Len(commands) + 1] = k
        /\ \A i \in 1..Len(commands) : commands'[i] = commands[i]
        /\ Len(commands) \in Nat
        BY <1>0, <2>1, <2>2
  <2>6. \A i \in 1..Len(commands) :
           /\ commands[i].id # c.id
           /\ ~(commands[i].w = c.w /\ commands[i].act = c.act /\ commands[i].inst = c.inst)
        BY <2>1 DEF Journalled, IntentNew
  <2>7. \A e \in calls' : e \in calls /\ (e.at = "intent" => e.w # c.w /\ e.id # c.id)
        BY <2>1, <2>2 DEF Journalled, OneIntent, Recorded, CallsOpen
  <2>8. IntentKept'
        BY <1>0, <2>4, <2>7 DEF Journalled, IntentKept, Call
  <2>9. OneIntent'
        BY <2>7 DEF Journalled, OneIntent
  <2>10. CommandKept'
    <3> SUFFICES ASSUME NEW i \in 1..Len(commands')
                 PROVE  /\ \E q \in journal'[commands'[i].w] : For(q, commands'[i])
                        /\ ops'[commands'[i].id].issued /\ ops'[commands'[i].id].w = commands'[i].w
        BY DEF CommandKept
    <3>1. CASE i = Len(commands) + 1
          BY <2>1, <2>3, <2>4, <2>5, <3>1 DEF For
    <3>2. CASE i \in 1..Len(commands)
      <4>1. commands'[i] = commands[i] /\ commands[i].id # c.id /\ commands[i].w \in Worker
            BY <1>1, <2>5, <2>6, <3>2 DEF Command
      <4>2. PICK q \in journal[commands[i].w] : For(q, commands[i])
            BY <3>2 DEF Journalled, CommandKept
      <4>3. q \in journal'[commands[i].w]
            BY <2>4, <4>1, <4>2 DEF For
      <4>4. QED BY <1>3, <3>2, <4>1, <4>2, <4>3
    <3>3. QED BY <2>5, <3>1, <3>2
  <2>11. IntentNew'
    <3> SUFFICES ASSUME NEW e \in calls', NEW i \in 1..Len(commands'), e.at = "intent"
                 PROVE  /\ commands'[i].id # e.id
                        /\ ~(/\ commands'[i].w = e.w /\ commands'[i].act = e.act
                             /\ commands'[i].inst = e.inst)
        BY DEF IntentNew
    <3>1. CASE i = Len(commands) + 1
          BY <2>1, <2>5, <2>7, <3>1
    <3>2. CASE i \in 1..Len(commands)
          BY <2>5, <2>7, <3>2 DEF Journalled, IntentNew
    <3>3. QED BY <2>5, <3>1, <3>2
  <2>12. OneCommand'
    <3> SUFFICES ASSUME NEW i \in 1..Len(commands'), NEW j \in 1..Len(commands'), i # j
                 PROVE  /\ commands'[i].id # commands'[j].id
                        /\ ~(/\ commands'[i].w = commands'[j].w /\ commands'[i].act = commands'[j].act
                             /\ commands'[i].inst = commands'[j].inst)
        BY DEF OneCommand
    <3>1. CASE i = Len(commands) + 1 /\ j \in 1..Len(commands)
          BY <2>1, <2>5, <2>6, <3>1
    <3>2. CASE j = Len(commands) + 1 /\ i \in 1..Len(commands)
          BY <2>1, <2>5, <2>6, <3>2
    <3>3. CASE i \in 1..Len(commands) /\ j \in 1..Len(commands)
          BY <2>5, <3>3 DEF Journalled, OneCommand
    <3>4. QED BY <2>5, <3>1, <3>2, <3>3
  <2>13. QED BY <2>8, <2>9, <2>10, <2>11, <2>12 DEF Journalled
<1>7. QED BY <1>4, <1>5, <1>6, QuietOrHelper

LEMMA InvariantInit == RecoveryGiven /\ Init => IInv
<1> SUFFICES ASSUME RecoveryGiven, Init PROVE IInv
    OBVIOUS
<1>1. PICK w \in Worker : w = CHOOSE x \in Worker : TRUE
      BY DEF RecoveryGiven
<1>2. NoOp(w) \in Operation /\ NoOp(w).st = "none" /\ NoOp(w).issued = FALSE
      BY SmallTypes DEF NoOp
<1>3. Settled \in Service
      BY DEF Settled, Service, Profile
<1>4. HostOK
      BY <1>3 DEF Init, HostInit, HostOK
<1>5. StoreOK
      BY <1>1, <1>2, SmallTypes DEF Init, StoreOK, Profile
<1>6. ProcessOK
      BY SmallTypes DEF Init, ProcessOK, NoTask
<1>7. Recorded
  <2>1. task.phase = "none"
        BY DEF Init, NoTask
  <2>2. Asked
        BY <1>1, <1>2 DEF Init, Asked
  <2>3. QED BY <2>1, <2>2 DEF Init, HostInit, Recorded, Undecided, CallsOpen, Calling, Verifying
<1>8. Journalled
      BY DEF Init, HostInit, Journalled, IntentKept, OneIntent, CommandKept, IntentNew, OneCommand
<1>9. QED BY <1>4, <1>5, <1>6, <1>7, <1>8 DEF IInv, TypeOK

(* Every reachable state has the invariant: what the store, the executor,  *)
(* the helpers and their journals say of an operation agrees, whatever is  *)
(* lost, repeated, killed or restarted.                                    *)
THEOREM RecoveryInvariant == ASSUME RecoveryGiven PROVE Spec => []IInv
<1>1. Init => IInv
      BY InvariantInit
<1>2. IInv /\ [Next]_vars => IInv'
      BY TypesStep, RecordedStep, JournalledStep DEF IInv
<1>3. QED BY <1>1, <1>2, PTL DEF Spec

(* A service manager is given one command per operation and per instance,  *)
(* and the gateway asks for it once: recovery.mjs writes "issuing" before  *)
(* it calls, the helper's journal answers a repeated call.                 *)
THEOREM CommandedCorrect == ASSUME RecoveryGiven PROVE Spec => []CommandedOnce
<1>1. IInv => CommandedOnce
  <2> SUFFICES ASSUME IInv PROVE CommandedOnce
      OBVIOUS
  <2>1. OneCommand
        BY DEF IInv, Journalled
  <2>2. NeverResent
        BY DEF IInv, Recorded, Asked, NeverResent
  <2>3. QED BY <2>1, <2>2 DEF CommandedOnce
<1>2. QED BY <1>1, RecoveryInvariant, PTL

(* Action properties: no command reaches a service for an operation that   *)
(* has definitely ended, and no operation puts a worker back into service  *)
(* that an operator paused (execute's catch, the helpers' late commands,   *)
(* and the reinstatement at the end of execute).                           *)
THEOREM EndsCorrect == ASSUME RecoveryGiven PROVE Spec => EndsRespected
<1>1. IInv /\ [Next]_vars => [DefiniteEnds]_vars
  <2> SUFFICES ASSUME IInv, [Next]_vars, NEW i \in Id, commands' # commands,
                      commands'[Len(commands')].id = i
               PROVE  i \in Pending \/ ops[i].st = "reconciliation_needed"
      BY DEF DefiniteEnds
  <2>1. PICK c \in calls : Runs(c)
        BY QuietOrHelper DEF IInv, Quiet, HelperIntends
  <2>2. c.id = i
    <3> DEFINE k == [id |-> c.id, w |-> c.w, act |-> c.act, inst |-> c.inst]
    <3>1. commands' = Append(commands, k) /\ k.id = c.id
          BY <2>1 DEF Runs
    <3>2. k \in Command /\ commands \in Seq(Command)
          BY DEF IInv, TypeOK, HostOK, Call, Command
    <3> HIDE DEF k
    <3>3. commands'[Len(commands')] = k
          BY <3>1, <3>2
    <3>4. QED BY <3>1, <3>3
  <2>3. Unknown(i) /\ ops[i].st \in OpState
        BY <2>2 DEF IInv, Recorded, CallsOpen, TypeOK, StoreOK, Operation
  <2>4. QED BY <2>3 DEF Unknown, Pending, OpState, Terminal
<1>2. IInv /\ [Next]_vars => [PauseWins]_vars
      BY IssuedKept DEF IInv, Kept, Unpaused, PauseWins
<1>3. IInv /\ [Next]_vars => [DefiniteEnds /\ PauseWins]_vars
      BY <1>1, <1>2
<1>4. QED BY <1>3, RecoveryInvariant, PTL DEF Spec, EndsRespected
=============================================================================
