------------------------------ MODULE Recovery ------------------------------
(***************************************************************************)
(* Worker recovery (ds4-gateway/recovery.mjs) over the helpers of module   *)
(* RecoveryHost: durable operations in the gateway's store, one executor,  *)
(* the policy that admits an operation, and what a restart of the core     *)
(* makes of an operation it finds unfinished.                              *)
(*                                                                         *)
(* An await of the executor ends one action and a later one continues with *)
(* the answer, which may be stale by then.  The 30 minute cooldown and the *)
(* confirmation of an observation only delay an operation and are left     *)
(* out; the 15 minute deadline is an event.  Enrollment is fixed: every    *)
(* worker is enrolled for restart, start and, with launchd, bootstrap.     *)
(***************************************************************************)
EXTENDS RecoveryHost

CONSTANTS Certified    \* workers whose bootstrap was drilled in an operation before

(* 0 stands for no operation.                                              *)
RecoveryGiven == Id \subseteq Nat \ {0} /\ Worker # {} /\ Targets \in Nat

VARIABLES
    (* the store *)
    ops,            \* recovery.operations
    automatic,      \* recovery.automatic
    effective,      \* the adopted profile of a worker, or the enrolled one
    prior,          \* last_identities: the last instance seen well
    drained, quarantine,
    (* the process *)
    task,           \* the operation under way
    recovering, work,
    stopping, closed,
    asked           \* history: how often an operation asked for its command

storeVars == <<ops, automatic, effective, prior, drained, quarantine>>
nodeVars == <<recovering, work>>
procVars == <<task, stopping, closed, asked>>
vars == <<hostVars, storeVars, nodeVars, procVars>>

Terminal == {"recovered", "verified_paused", "failed", "reconciliation_needed"}
OpState == Terminal \cup {"none", "queued", "issuing", "reconciling", "verifying"}
Actor == {"operator", "detector"}      \* the Genie is bound as the detector is
OpAct == Act \cup {"adopt_restart", "adopt_verify"}
NoQuarantine == [inst |-> 0, fatal |-> FALSE]
NoAnswer == [Settled EXCEPT !.kind = "absent", !.inst = 0, !.caller = "none"]
NoTask == [op |-> 0, phase |-> "none", reconcile |-> FALSE, snap |-> NoAnswer, who |-> "none",
           replacement |-> FALSE, after |-> 0, n |-> 0]
NoOp(w) == [w |-> w, act |-> "restart", inst |-> 0, profile |-> "enrolled", canary |-> FALSE,
            paused |-> FALSE, actor |-> "operator", quarantine |-> NoQuarantine, st |-> "none",
            issued |-> FALSE, new |-> 0, override |-> FALSE]
Phase == {"none", "before", "decide", "calling", "watch", "watched", "verify", "final", "conclude"}

Used == {i \in Id : ops[i].st # "none"}
Pending == {i \in Id : ops[i].st \notin Terminal \cup {"none"}}
On(w) == {i \in Used : ops[i].w = w}

Operation == [w : Worker, act : OpAct, inst : Nat, profile : Profile, canary : BOOLEAN,
              paused : BOOLEAN, actor : Actor, quarantine : [inst : Nat, fatal : BOOLEAN],
              st : OpState, issued : BOOLEAN, new : Nat, override : BOOLEAN]
Task == [op : Id \cup {0}, phase : Phase, reconcile : BOOLEAN, snap : Service,
         who : {"none", "loginwindow", "launchctl"}, replacement : BOOLEAN, after : Nat, n : Nat]

HostOK == /\ adapter \in [Worker -> Adapter] /\ svc \in [Worker -> Service]
          /\ journal \in [Worker -> SUBSET Receipt]
          /\ calls \subseteq Call /\ commands \in Seq(Command) /\ events \in Nat
StoreOK == /\ ops \in [Id -> Operation] /\ automatic \in BOOLEAN
           /\ effective \in [Worker -> Profile] /\ prior \in [Worker -> Nat]
           /\ drained \in [Worker -> BOOLEAN]
           /\ quarantine \in [Worker -> [inst : Nat, fatal : BOOLEAN]]
ProcessOK == /\ task \in Task /\ ((task.op = 0) <=> (task.phase = "none"))
             /\ {recovering, work} \subseteq [Worker -> BOOLEAN]
             /\ {stopping, closed} \subseteq BOOLEAN
             /\ asked \in [Id -> Nat]
TypeOK == HostOK /\ StoreOK /\ ProcessOK

Init ==
    /\ HostInit
    /\ ops = [i \in Id |-> NoOp(CHOOSE w \in Worker : TRUE)]
    /\ automatic = TRUE
    /\ effective = [w \in Worker |-> "enrolled"] /\ prior = [w \in Worker |-> 0]
    /\ drained = [w \in Worker |-> FALSE] /\ quarantine = [w \in Worker |-> NoQuarantine]
    /\ task = NoTask
    /\ recovering = [w \in Worker |-> FALSE]
    /\ work = [w \in Worker |-> FALSE]
    /\ stopping = FALSE /\ closed = FALSE
    /\ asked = [i \in Id |-> 0]

----------------------------------------------------------------------------
(* node.healthy, as the probes of module Gateway keep it.                  *)
Healthy(w) == svc[w].kind = "running" /\ ~recovering[w] /\ quarantine[w] = NoQuarantine

(* The policy: which operation an inspection s of worker w supports.       *)
Valid(s, p) == s.kind = "running" /\ s.profile = p
ValidStopped(w, s) == s.kind = "stopped" /\ adapter[w] # "docker"
Candidate(w, s) == s.kind = "running" /\ s.profile # effective[w]
NativePolicy(w, s) == adapter[w] = "launchd" => ~s.disabled

(* A new instance since the quarantine: verify it, do not restart it.      *)
Replaced(s, q) == q # NoQuarantine /\ s.inst > q.inst
Attempts(w, acts, inst) == {i \in On(w) : ops[i].act \in acts /\ ops[i].inst = inst}

(* A drill by the operator that ended verified, with the worker paused.    *)
BootstrapCertified(w) == w \in Certified \/ \E i \in On(w) :
    /\ ops[i].act = "bootstrap" /\ ops[i].canary /\ ops[i].actor = "operator"
    /\ ops[i].st = "verified_paused" /\ ops[i].issued /\ ~ops[i].override

BootstrapReason(w, s, who, canary, except) ==
    /\ s.kind = "absent" /\ s.inst # 0 /\ s.inst = prior[w] /\ NativePolicy(w, s)
    /\ ~work[w] /\ ~Healthy(w)
    /\ drained[w] <=> canary
    /\ who = "loginwindow" \/ (canary /\ who = "launchctl")
    /\ Attempts(w, {"bootstrap"}, prior[w]) \ {except} = {}
    /\ canary \/ BootstrapCertified(w)

Reason(w, o, canary) == LET s == o.s IN
    \/ BootstrapReason(w, s, o.who, canary, 0) /\ adapter[w] = "launchd"
    \/ /\ ~work[w] /\ NativePolicy(w, s) /\ canary /\ drained[w]
       /\ \/ Valid(s, effective[w])
          \/ ValidStopped(w, s) /\ ~Healthy(w)
    \/ /\ ~work[w] /\ NativePolicy(w, s) /\ ~canary /\ ~drained[w]
       /\ \/ /\ Candidate(w, s) /\ quarantine[w] # NoQuarantine
             /\ Replaced(s, quarantine[w]) \/ (quarantine[w].fatal /\ s.fault)
             /\ Attempts(w, {"adopt_restart", "adopt_verify"}, s.inst) = {}
          \/ /\ ValidStopped(w, s) /\ ~Healthy(w)
             /\ Attempts(w, {"start"}, s.inst) = {}
          \/ /\ Valid(s, effective[w]) /\ quarantine[w] # NoQuarantine
             /\ Replaced(s, quarantine[w]) \/ (quarantine[w].fatal /\ s.fault)
             /\ {i \in On(w) : ops[i].inst = s.inst} = {}

(* request: the service action that the inspection calls for.              *)
ServiceAction(w, s) ==
    CASE s.kind = "absent" -> "bootstrap"
      [] Candidate(w, s) -> IF Replaced(s, quarantine[w]) THEN "adopt_verify" ELSE "adopt_restart"
      [] s.kind = "stopped" -> "start"
      [] OTHER -> "restart"

----------------------------------------------------------------------------
(* inspect and inspectRemoval.  The observation a request relies on may be *)
(* 90 s old, and must be confirmed by an earlier one where it stands for a *)
(* stopped service or a changed profile; the executor inspects again, so   *)
(* a request here observes at once.                                        *)
Inspection(w) == {[s |-> s, who |-> who] : s \in Inspect(w), who \in InspectRemoval(w, prior[w])}
                 \cup {[s |-> NoAnswer, who |-> "none"]}

(* rememberIdentity: launchd only, and only of a healthy instance.         *)
Remember(w, s) == prior' = IF adapter[w] = "launchd" /\ Valid(s, effective[w]) /\ ~s.fault
                           THEN [prior EXCEPT ![w] = s.inst] ELSE prior
InspectWorker(w) ==
    /\ ~closed
    /\ \E s \in Inspect(w) : Remember(w, s)
    /\ UNCHANGED <<hostVars, ops, automatic, effective, drained, quarantine, nodeVars, procVars>>

(* request, by the operator, the Genie or the detector of a tick.          *)
RequestRecovery(w, actor, canary) ==
    /\ ~closed /\ ~stopping /\ task = NoTask /\ Pending = {}
    /\ actor = "operator" \/ (automatic /\ ~canary)
    /\ IF Used = {} THEN UNCHANGED events ELSE Event
    /\ \E o \in Inspection(w), i \in Id \ Used :
         /\ Reason(w, o, canary)
         /\ \A j \in Id \ Used : i <= j
         /\ LET s == o.s act == ServiceAction(w, s) IN
            ops' = [ops EXCEPT ![i] =
                [NoOp(w) EXCEPT !.act = act, !.inst = s.inst, !.st = "queued", !.actor = actor,
                   !.profile = IF act \in {"adopt_restart", "adopt_verify"} THEN s.profile ELSE effective[w],
                   !.canary = canary, !.paused = drained[w], !.quarantine = quarantine[w]]]
         /\ task' = [NoTask EXCEPT !.op = i, !.phase = "before"]
    /\ recovering' = [recovering EXCEPT ![w] = TRUE]
    /\ UNCHANGED <<adapter, svc, journal, calls, commands, automatic, effective, prior, drained, quarantine, work,
                   stopping, closed, asked>>

(* reconcile: the operator has an issued operation observed again.         *)
Reconcile(i) ==
    /\ ops[i].st \in {"reconciliation_needed", "failed"} /\ ops[i].issued
    /\ task = NoTask /\ ~closed /\ ~stopping /\ ~work[ops[i].w]
    /\ ops' = [ops EXCEPT ![i].st = "reconciling"]
    /\ task' = [NoTask EXCEPT !.op = i, !.phase = "before", !.reconcile = TRUE]
    /\ recovering' = [recovering EXCEPT ![ops[i].w] = TRUE]
    /\ UNCHANGED <<hostVars, automatic, effective, prior, drained, quarantine, work,
                   stopping, closed, asked>>

(* Mutant: an operation found unfinished is executed from its beginning.   *)
TickResumesActing ==
    /\ ~closed /\ ~stopping /\ task = NoTask
    /\ \E i \in Pending : task' = [NoTask EXCEPT !.op = i, !.phase = "before"]
    /\ UNCHANGED <<hostVars, storeVars, nodeVars, stopping, closed, asked>>

(* tick: an operation found unfinished is only observed and verified.      *)
TickResumes ==
    /\ ~closed /\ ~stopping /\ task = NoTask
    /\ \E i \in Pending : task' = [NoTask EXCEPT !.op = i, !.phase = "before", !.reconcile = TRUE]
    /\ UNCHANGED <<hostVars, storeVars, nodeVars, stopping, closed, asked>>

----------------------------------------------------------------------------
(* The executor.  Op is the operation under way, W its worker.             *)
Op == ops[task.op]
W == Op.w
Bootstrapping == Op.act = "bootstrap"
Starting == Op.act = "start"
(* update: the operation's fields and state, durably.                      *)
Update(fields) == ops' = [ops EXCEPT ![task.op] = fields]
Forget == [task EXCEPT !.snap = NoAnswer, !.who = "none"]
Goto(p) == task' = [Forget EXCEPT !.phase = p]

(* execute's catch and finally.  When even the failure cannot be recorded  *)
(* recovery closes itself and the operation stays as it is.                *)
FailureStateFailed == "failed"               \* mutant: it did not work, so it failed
FailureState == IF closed /\ Op.issued THEN "reconciling"
                ELSE IF Op.issued /\ Op.new = 0 THEN "reconciliation_needed" ELSE "failed"
Fail ==
    /\ \/ Update([Op EXCEPT !.st = FailureState]) /\ UNCHANGED <<closed, events>>
       \/ Event /\ closed' = TRUE /\ UNCHANGED ops
    /\ task' = NoTask
    /\ recovering' = [recovering EXCEPT ![W] = FALSE]
    /\ UNCHANGED <<calls, asked, adapter, svc, journal, commands, automatic, effective,
                   drained, quarantine, work, stopping>>

(* An inspection the executor awaits.                                      *)
ExecutorInspects(from, to) ==
    /\ task.phase = from
    /\ \E o \in Inspection(W) :
         /\ task' = [task EXCEPT !.phase = to, !.snap = o.s, !.who = o.who]
         /\ Remember(W, o.s)
    /\ UNCHANGED <<hostVars, ops, automatic, effective, drained, quarantine, nodeVars,
                   stopping, closed, asked>>

(* bootstrapExecutionVeto                                                  *)
Veto == /\ Bootstrapping
        /\ \/ stopping \/ closed \/ work[W] \/ Op.override
           \/ drained[W] /\ ~Op.paused
           \/ Op.actor # "operator" /\ ~automatic

(* What the inspection before the command shows.                           *)
Active == Valid(task.snap, Op.profile)
StoppedBefore == Starting /\ ValidStopped(W, task.snap) /\ task.snap.inst = Op.inst
Replacement == /\ Active
               /\ \/ Starting \/ Op.act = "adopt_verify" \/ task.snap.inst # Op.inst
                  \/ ~Op.canary /\ Replaced(task.snap, Op.quarantine)
BindingChanged == Op.act \in Act /\ effective[W] # Op.profile
Unfit == \/ BindingChanged
         \/ ~task.reconcile /\ ~Active /\ ~StoppedBefore /\ ~Bootstrapping
         \/ (Active \/ StoppedBefore) /\ ~NativePolicy(W, task.snap)
         \/ Veto \/ work[W] \/ closed

(* The evidence still supports the command, and nobody cancelled it.       *)
Supported ==
    /\ CASE Bootstrapping -> /\ prior[W] = Op.inst
                             /\ BootstrapReason(W, task.snap, task.who, Op.canary, task.op)
         [] Starting -> StoppedBefore
         [] OTHER -> task.snap.inst = Op.inst /\ (Op.canary \/ task.snap.fault)
    /\ ~Op.override /\ (Op.actor = "operator" \/ automatic)

CommandAct == IF Op.act \in {"restart", "adopt_restart", "adopt_verify"} THEN "restart" ELSE Op.act
Send(n) == calls' = calls \cup {[id |-> task.op, w |-> W, act |-> CommandAct, inst |-> Op.inst,
                                 profile |-> Op.profile, canary |-> Op.canary, n |-> n, at |-> "sent"]}

(* The command: the operation is durably "issued" before it is sent.       *)
ExecuteIssues ==
    /\ task.phase = "decide" /\ ~Unfit /\ ~Replacement /\ ~task.reconcile /\ Supported
    /\ Update([Op EXCEPT !.st = "issuing", !.issued = TRUE])
    /\ Send(1) /\ asked' = [asked EXCEPT ![task.op] = @ + 1]
    /\ task' = [Forget EXCEPT !.phase = "calling", !.n = 1]
    /\ UNCHANGED <<adapter, svc, journal, commands, events, automatic, effective, prior,
                   drained, quarantine, nodeVars, stopping, closed>>

ExecuteDecides ==
    /\ task.phase = "decide"
    /\ IF Unfit THEN Fail /\ UNCHANGED prior
       ELSE \/ /\ Replacement \/ task.reconcile
               /\ task' = [Forget EXCEPT !.phase = "watch", !.replacement = Replacement]
               /\ IF Replacement THEN UNCHANGED ops ELSE Update([Op EXCEPT !.st = "reconciling"])
               /\ UNCHANGED <<hostVars, automatic, effective, prior, drained, quarantine,
                              nodeVars, stopping, closed, asked>>
            \/ /\ ~Replacement /\ ~task.reconcile /\ ~Supported
               /\ Fail /\ UNCHANGED prior

(* recoveryCall: a failed attempt is repeated over the next ssh target;    *)
(* after the last one the outcome is unknown and only observed.            *)
NextTarget ==
    \/ /\ task.n < Targets /\ task' = [task EXCEPT !.n = @ + 1]
       /\ UNCHANGED ops
    \/ /\ task.n = Targets /\ Goto("watch")
       /\ Update([Op EXCEPT !.st = "reconciling"])
CallLost ==
    /\ task.phase = "calling"
    /\ IF \E c \in calls : c.id = task.op /\ c.n = task.n THEN Event ELSE UNCHANGED events
    /\ NextTarget
    /\ IF task.n < Targets THEN Send(task.n + 1) ELSE UNCHANGED calls
    /\ UNCHANGED <<adapter, svc, journal, commands, automatic, effective, prior, drained,
                   quarantine, nodeVars, stopping, closed, asked>>

CallAnswered(c, ok) ==
    /\ c \in calls
    /\ HelperEnds(c, ok)
    /\ IF ok /\ task.phase = "calling" /\ task.op = c.id /\ task.n = c.n
       THEN Goto("watch") ELSE UNCHANGED task
    /\ UNCHANGED <<storeVars, nodeVars, stopping, closed, asked>>

(* A helper bounds its commands by seconds and is over, one way or the     *)
(* other, before a new instance has loaded its model and listens, and      *)
(* before the 15 minute deadline.                                          *)
HelpersOver == \A c \in calls : c.id # task.op

Arrived == /\ Valid(task.snap, Op.profile) /\ HelpersOver
           /\ Starting \/ task.snap.inst # Op.inst \/ task.replacement
ExecuteWatches ==
    /\ task.phase = "watched"
    /\ CASE closed \/ (Arrived /\ (task.snap.fault \/ ~NativePolicy(W, task.snap) \/ Veto)) ->
                Fail /\ UNCHANGED prior
         [] Arrived /\ ~closed ->
                /\ Update([Op EXCEPT !.st = "verifying", !.new = task.snap.inst])
                /\ task' = [Forget EXCEPT !.phase = "verify", !.after = task.snap.inst]
                /\ UNCHANGED <<hostVars, automatic, effective, prior, drained, quarantine,
                               nodeVars, stopping, closed, asked>>
         [] OTHER -> \/ HelpersOver /\ Fail /\ UNCHANGED prior
                     \/ /\ Goto("watch")
                        /\ UNCHANGED <<hostVars, storeVars, nodeVars, stopping, closed, asked>>

(* verifyRecovery: two synthetic conversations, cold and then warm.        *)
VerifyRecovery ==
    /\ task.phase = "verify"
    /\ \/ svc[W].kind = "running" /\ ~closed /\ Goto("final")
          /\ UNCHANGED <<hostVars, storeVars, nodeVars, stopping, closed, asked>>
       \/ Fail /\ UNCHANGED prior

Held == Op.override \/ Op.paused \/ drained[W] \/ stopping
Unproven == \/ ~Valid(task.snap, Op.profile) \/ task.snap.inst # task.after \/ task.snap.fault
            \/ ~NativePolicy(W, task.snap) \/ Veto
(* The gateway's reinstate refuses when the worker changed under it.       *)
Reinstates == ~drained[W] /\ ~work[W] /\ quarantine[W] = Op.quarantine /\ ~stopping

Conclude(held, ready) ==
    /\ task.phase = "conclude"
    /\ IF Unproven \/ (~held /\ ~ready) THEN Fail /\ UNCHANGED prior
       ELSE /\ Update([Op EXCEPT !.st = IF held THEN "verified_paused" ELSE "recovered"])
            /\ effective' = [effective EXCEPT ![W] = Op.profile]
            /\ quarantine' = IF held THEN quarantine ELSE [quarantine EXCEPT ![W] = NoQuarantine]
            /\ recovering' = [recovering EXCEPT ![W] = FALSE]
            /\ task' = NoTask
            /\ UNCHANGED <<hostVars, automatic, prior, drained, work, stopping, closed, asked>>

(* Mutant: only the pause that was there at the request is looked at.      *)
ExecuteConcludesAtOnce == Conclude(Op.paused, TRUE)
ExecuteConcludes == Conclude(Held, Reinstates)

Executor ==
    \/ ExecutorInspects("before", "decide") \/ ExecutorInspects("watch", "watched")
    \/ ExecutorInspects("final", "conclude")
    \/ ExecuteIssues \/ ExecuteDecides \/ ExecuteWatches \/ VerifyRecovery \/ ExecuteConcludes

----------------------------------------------------------------------------
(* The operator.                                                           *)
SetAutomatic ==
    /\ Event
    /\ automatic' = ~automatic
    /\ UNCHANGED <<adapter, svc, journal, calls, commands, ops, effective, prior, drained, quarantine,
                   nodeVars, procVars>>

(* drainNodes, with recovery.operatorPause: the pause is kept in every     *)
(* unfinished operation of the worker.                                     *)
OperatorPause(w) == ops' = [i \in Id |-> IF i \in Pending /\ ops[i].w = w
                                         THEN [ops[i] EXCEPT !.override = TRUE] ELSE ops[i]]
Pause(w) ==
    /\ ~drained[w] /\ drained' = [drained EXCEPT ![w] = TRUE]
    /\ OperatorPause(w)
    /\ UNCHANGED <<hostVars, automatic, effective, prior, quarantine, nodeVars, procVars>>

(* /resume-workers: probed, idle and not under recovery.                   *)
Resume(w) ==
    /\ Event
    /\ drained[w] /\ ~recovering[w] /\ ~work[w] /\ svc[w].kind = "running" /\ ~svc[w].fault
    /\ drained' = [drained EXCEPT ![w] = FALSE]
    /\ quarantine' = [quarantine EXCEPT ![w] = NoQuarantine]
    /\ UNCHANGED <<adapter, svc, journal, calls, commands, ops, automatic, effective, prior, recovering, work, procVars>>

----------------------------------------------------------------------------
(* The gateway (module Gateway): requests come to a worker in service, its *)
(* failures quarantine it, probes see it up or down.                       *)
InService(w) == Healthy(w) /\ ~drained[w]
Works(w) ==
    /\ \/ work[w] /\ UNCHANGED events
       \/ InService(w) /\ Event
    /\ work' = [work EXCEPT ![w] = ~@]
    /\ UNCHANGED <<adapter, svc, journal, calls, commands, storeVars, recovering, procVars>>
Quarantines(w) ==
    /\ InService(w)
    /\ quarantine' = [quarantine EXCEPT ![w] = [inst |-> svc[w].inst, fatal |-> svc[w].fault]]
    /\ UNCHANGED <<hostVars, ops, automatic, effective, prior, drained, recovering, work, procVars>>
(* close: admission stops first, then recovery is closed.  Of interest     *)
(* here while an operation is under way.                                   *)
Close ==
    /\ Event /\ task # NoTask /\ ~closed
    /\ stopping' = TRUE
    /\ UNCHANGED <<adapter, svc, journal, calls, commands, storeVars, nodeVars, task, closed, asked>>
CloseRecovery ==
    /\ stopping /\ ~closed
    /\ closed' = TRUE
    /\ UNCHANGED <<hostVars, storeVars, nodeVars, task, stopping, asked>>

(* The core dies, or ends after close(), and starts again: the constructor *)
(* takes the workers of unfinished operations out of service.              *)
Restart ==
    /\ IF closed THEN UNCHANGED events ELSE Event
    /\ Pending # {} \/ closed \/ stopping
    /\ task' = NoTask /\ stopping' = FALSE /\ closed' = FALSE
    /\ recovering' = [w \in Worker |-> \E i \in Pending : ops[i].w = w]
    /\ work' = [w \in Worker |-> FALSE]
    /\ UNCHANGED <<adapter, svc, journal, calls, commands, storeVars, asked>>

----------------------------------------------------------------------------
Helpers == \E c \in calls :
    \/ /\ HelperIntends(c) \/ OmlxLeavesStopped(c) \/ HelperDies(c)
       /\ UNCHANGED <<storeVars, nodeVars, procVars>>
    \/ \E ok \in BOOLEAN : CallAnswered(c, ok)

Requests == \E w \in Worker, actor \in Actor, canary \in BOOLEAN :
    RequestRecovery(w, actor, canary)

Next ==
    \/ Executor \/ CallLost \/ TickResumes \/ Requests \/ Helpers
    \/ \E i \in Id : Reconcile(i)
    \/ \E w \in Worker : InspectWorker(w) \/ Pause(w) \/ Resume(w)
                         \/ Works(w) \/ Quarantines(w)
    \/ SetAutomatic \/ Close \/ CloseRecovery \/ Restart
    \/ HostNext /\ UNCHANGED <<storeVars, nodeVars, procVars>>

Spec == Init /\ [][Next]_vars

----------------------------------------------------------------------------
(* A service manager is given one command per operation, and no instance   *)
(* or stopped epoch is acted upon twice, whatever is lost, repeated over   *)
(* another ssh target, or restarted.                                       *)
OneCommand == \A i, j \in 1..Len(commands) : i # j =>
    /\ commands[i].id # commands[j].id
    /\ ~(/\ commands[i].w = commands[j].w /\ commands[i].act = commands[j].act
         /\ commands[i].inst = commands[j].inst)

(* What was issued is on record before any helper hears of it, and after a *)
(* lost answer or a restart of the core it is never asked for again.       *)
NeverResent == \A i \in Id : asked[i] <= 1 /\ (asked[i] = 1 => ops[i].issued)

(* Both: what the core asks for and what the machine is told happen once.   *)
CommandedOnce == OneCommand /\ NeverResent

(* A definite end is definite: no command reaches a service for an         *)
(* operation that is recorded as recovered, paused or failed.              *)
DefiniteEnds == \A i \in Id :
    (commands' # commands /\ commands'[Len(commands')].id = i)
        => i \in Pending \/ ops[i].st = "reconciliation_needed"

(* An operator's pause wins: an operation never puts a worker back into    *)
(* service that was paused when it began or at any time since.             *)
PauseWins == \A i \in Id : (ops[i].st # "recovered" /\ ops'[i].st = "recovered")
    => ~ops[i].override /\ ~drained[ops[i].w] /\ ~ops[i].paused

(* Both: an operation that has ended does nothing more, and none ends by    *)
(* overruling a pause.                                                     *)
EndsRespected == [][DefiniteEnds /\ PauseWins]_vars

(* What makes them inductive.  The command of an operation that the        *)
(* executor has yet to decide on was not asked for.                        *)
Undecided == (task.phase \in {"before", "decide"} /\ ~task.reconcile)
    => ~ops[task.op].issued /\ ops[task.op].new = 0
Asked == \A i \in Id : /\ asked[i] = IF ops[i].issued THEN 1 ELSE 0
                       /\ ops[i].st = "none" => ~ops[i].issued

(* A helper works for an issued operation without a known outcome, on its  *)
(* worker, and for none whose new instance is being verified.              *)
Unknown(i) == /\ ops[i].issued /\ ops[i].new = 0
              /\ ops[i].st \notin {"none", "recovered", "verified_paused", "failed"}
CallsOpen == \A c \in calls : Unknown(c.id) /\ ops[c.id].w = c.w
Calling == task.phase = "calling" => Unknown(task.op)
Verifying == task.phase \in {"verify", "final", "conclude"} => HelpersOver

(* The journals: an intent and a command have their receipt, a worker has  *)
(* one intent under way, and it repeats nothing that was commanded.        *)
For(r, x) == r.id = x.id /\ r.act = x.act /\ r.inst = x.inst
IntentKept == \A c \in calls : c.at = "intent" => \E r \in journal[c.w] : For(r, c)
OneIntent == \A c, d \in calls : (c.at = "intent" /\ d.at = "intent" /\ c.w = d.w) => c = d
CommandKept == \A i \in 1..Len(commands) : LET k == commands[i] IN
    /\ \E r \in journal[k.w] : For(r, k)
    /\ ops[k.id].issued /\ ops[k.id].w = k.w
IntentNew == \A c \in calls, i \in 1..Len(commands) : c.at = "intent" =>
    /\ commands[i].id # c.id
    /\ ~(commands[i].w = c.w /\ commands[i].act = c.act /\ commands[i].inst = c.inst)
Journalled == IntentKept /\ OneIntent /\ CommandKept /\ IntentNew /\ OneCommand
Recorded == Undecided /\ Asked /\ CallsOpen /\ Calling /\ Verifying
IInv == TypeOK /\ Recorded /\ Journalled

(* docs/genie-powers-plan.md:70: "Keep one active recovery per worker; the *)
(* fleet limit is one recovery at a time."                                 *)
OneRecoveryAtATime == Cardinality(Pending) <= 1

=============================================================================
