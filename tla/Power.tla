-------------------------------- MODULE Power --------------------------------
(***************************************************************************)
(* The fleet's power switches: the tool that Genie and the dashboard call  *)
(* (ds4-gateway/genie-power.mjs), and the runner of the owner's scripts    *)
(* with its check of the endpoint (power-scripts.mjs).  Several models     *)
(* share a machine, and a call awaits the registry, the script and the     *)
(* endpoint.  Scripts, engines and the gateway's load are external: a start*)
(* script looks whether its hardware is free before it loads a model, a    *)
(* stop script stops whatever is on its machines.                          *)
(***************************************************************************)
EXTENDS Naturals, FiniteSets

CONSTANTS PowerWorker, Machine,
          machineGroup,        \* the machines of each worker
          PowerCall,           \* calls of the tool
          MaxWear              \* bound: failures of scripts and engines

VARIABLES models,      \* external: each model is down, loading or up
          atWork,      \* external: workers with gateway load
          power,       \* the calls: worker, action and step
          running,     \* running: the call that holds each machine
          told,        \* history: the worker, action and verified state of the last receipt
          wear
powerVars == <<models, atWork, power, running, told, wear>>

NoPower == [step |-> "idle", worker |-> "none", action |-> "none"]
Shares(v, w) == machineGroup[v] \cap machineGroup[w] # {}

PowerInit ==
    /\ models = [w \in PowerWorker |-> "down"] /\ atWork = {}
    /\ power = [c \in PowerCall |-> NoPower] /\ running = [m \in Machine |-> "none"]
    /\ told = [worker |-> "none", action |-> "none", state |-> "none", models |-> "down"] /\ wear = 0

Worn == wear < MaxWear /\ wear' = wear + 1

(* The engines and the load change by themselves.                          *)
EngineLoads(w) ==
    /\ models[w] = "loading" /\ models' = [models EXCEPT ![w] = "up"]
    /\ UNCHANGED <<atWork, power, running, told, wear>>
EngineDies(w) ==
    /\ models[w] # "down" /\ Worn /\ models' = [models EXCEPT ![w] = "down"]
    /\ UNCHANGED <<atWork, power, running, told>>
LoadChanges(w) ==
    /\ w \in atWork \/ models[w] = "up"
    /\ atWork' = IF w \in atWork THEN atWork \ {w} ELSE atWork \cup {w}
    /\ UNCHANGED <<models, power, running, told, wear>>

(* precheck: a stop is refused for work here or on the same hardware, and  *)
(* for the last model that is up.                                          *)
PrecheckRefuses(w, a) ==
    /\ a = "stop"
    /\ \/ \E v \in atWork : Shares(v, w)
       \/ models[w] = "up" /\ Cardinality({v \in PowerWorker : models[v] = "up"}) <= 1
Prechecks(c, w, a) ==
    /\ power[c].step = "idle" /\ ~PrecheckRefuses(w, a)
    /\ power' = [power EXCEPT ![c] = [step |-> "checked", worker |-> w, action |-> a]]
    /\ UNCHANGED <<models, atWork, running, told, wear>>

(* run: refused while anyone changes a machine of the worker; otherwise all*)
(* its machines are taken before the script is awaited.                    *)
HardwareBusyWorker(w) == \E c \in PowerCall : power[c].worker = w /\ power[c].step \in {"script", "verify"} \* mutant
HardwareBusy(w) == \E m \in machineGroup[w] : running[m] # "none"
RunRefused(c) ==
    /\ power[c].step = "checked" /\ HardwareBusy(power[c].worker)
    /\ power' = [power EXCEPT ![c] = NoPower]
    /\ UNCHANGED <<models, atWork, running, told, wear>>
RunBegins(c) ==
    /\ power[c].step = "checked" /\ ~HardwareBusy(power[c].worker)
    /\ running' = [m \in Machine |-> IF m \in machineGroup[power[c].worker] THEN c ELSE running[m]]
    /\ power' = [power EXCEPT ![c].step =
                   IF power[c].action = "start"
                      /\ \E v \in PowerWorker : Shares(v, power[c].worker) /\ models[v] # "down"
                   THEN "occupied" ELSE "script"]
    /\ UNCHANGED <<models, atWork, told, wear>>

(* A receipt, after which the call's machines are free.                    *)
Receipt(c, state) ==
    /\ told' = [worker |-> power[c].worker, action |-> power[c].action, state |-> state,
                models |-> models[power[c].worker]]
    /\ running' = [m \in Machine |-> IF running[m] = c THEN "none" ELSE running[m]]
    /\ power' = [power EXCEPT ![c] = NoPower]

(* The script ends: well, and its endpoint is looked at if it is known; or *)
(* with an error, a timeout or a refusal, which may come after its effect. *)
Effect(c) == LET w == power[c].worker IN
    [v \in PowerWorker |-> IF power[c].action = "stop" /\ Shares(v, w) THEN "down"
                           ELSE IF power[c].action = "start" /\ v = w THEN "loading" ELSE models[v]]
ScriptEnds(c) ==
    /\ power[c].step = "script" /\ models' = Effect(c)
    /\ \/ power' = [power EXCEPT ![c].step = "verify"] /\ UNCHANGED <<running, told, wear>>
       \/ Receipt(c, "unverified") /\ UNCHANGED wear
       \/ Receipt(c, "failed") /\ Worn
    /\ UNCHANGED atWork
ScriptFails(c) ==
    /\ \/ power[c].step = "occupied" /\ UNCHANGED wear
       \/ power[c].step = "script" /\ Worn
    /\ Receipt(c, "failed")
    /\ UNCHANGED <<models, atWork>>

(* verify: polls until the endpoint is as asked, or the deadline.          *)
EndpointSeen(c) == LET w == power[c].worker IN
    CASE power[c].action = "start" /\ models[w] = "up" -> "ready"
      [] power[c].action = "stop" /\ models[w] # "up" -> "stopped"
      [] OTHER -> "timeout"
VerifyEnds(c) ==
    /\ power[c].step = "verify" /\ Receipt(c, EndpointSeen(c))
    /\ UNCHANGED <<models, atWork, wear>>

PowerNext ==
    \/ \E w \in PowerWorker : EngineLoads(w) \/ EngineDies(w) \/ LoadChanges(w)
    \/ \E c \in PowerCall : \/ RunRefused(c) \/ RunBegins(c)
                            \/ ScriptEnds(c) \/ ScriptFails(c) \/ VerifyEnds(c)
                            \/ \E w \in PowerWorker, a \in {"start", "stop"} : Prechecks(c, w, a)

----------------------------------------------------------------------------
(* Whoever asks and in whatever order, two changes never run on the same   *)
(* hardware at once, so two models never occupy a machine; and what a stop *)
(* says is stopped was not being started by another call.                  *)
Mutating(c) == power[c].step \in {"script", "occupied", "verify"}
PowerSound ==
    /\ \A c, d \in PowerCall : c # d /\ Mutating(c) /\ Mutating(d) =>
         ~Shares(power[c].worker, power[d].worker)
    /\ \A v, w \in PowerWorker : v # w /\ Shares(v, w) => models[v] = "down" \/ models[w] = "down"
    /\ told.state = "stopped" => told.models = "down"
=============================================================================
