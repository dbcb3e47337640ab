------------------------------ MODULE Admission ------------------------------
(***************************************************************************)
(* Genie admits an endpoint to the fleet (ds4-gateway/genie-admission.mjs):*)
(* an inspection drafts a proposal with a fingerprint, and each stage of it*)
(* is asked for by the owner, with that fingerprint, one at a time.  An    *)
(* inspection does not wait for a stage: it may replace the proposal, and  *)
(* the stages completed, while a stage awaits the core, and the stage goes *)
(* on with the proposal it then finds.  The core's registry and the door   *)
(* are external; calls to them may fail after they took effect.            *)
(***************************************************************************)
EXTENDS Naturals, Sequences, Functions

CONSTANTS Endpoint,              \* the endpoints the owner may ask about
          MaxProposals,          \* bound: inspections
          MaxFailures            \* bound: failed calls

VARIABLES fleet,       \* the core's registry: the state of each worker of the endpoints
          draft,       \* state.proposal and fingerprint, with its number
          completed,   \* state.completed, of each stage with the proposal it was asked for
          stageRun,    \* the stage in progress (state.busy), what it read, and its approval
          look,        \* inspections: begun, and open with the registry they have read
          effect,      \* history: what a stage did last, under which approved proposal
          failures
admissionVars == <<fleet, draft, completed, stageRun, look, effect, failures>>

\* Of each endpoint a worker there before, and the two ids slug() and "-2" give.
Candidate == Endpoint \X (0..2)
NoWorker == <<"none", 0>>
NoDraft == [number |-> 0, removal |-> {}, id |-> NoWorker, torn |-> FALSE]
NoStage == [name |-> "none", draft |-> NoDraft, before |-> <<>>, at |-> "none", read |-> {},
            left |-> {}, worker |-> NoWorker, overlapped |-> FALSE]
NoEffect == [worker |-> NoWorker, run |-> NoStage]
StageOrder == <<"remove-dead", "add-worker", "route", "restart", "verify">>

AdmissionInit ==
    /\ \E before \in [Endpoint -> {"absent", "dead", "healthy"}] :
         fleet = [c \in Candidate |-> IF c[2] = 0 THEN before[c[1]] ELSE "absent"]
    /\ draft = NoDraft /\ completed = <<>> /\ stageRun = NoStage
    /\ look = [begun |-> 0, open |-> {}]
    /\ effect = NoEffect /\ failures = 0

(* read(): the registered workers and their health.                        *)
ReadFleet == {<<w, fleet[w]>> : w \in {x \in Candidate : fleet[x] # "absent"}}
Registered(read, w) == \E h \in {"dead", "healthy"} : <<w, h>> \in read

(* A worker's health changes while Genie and the owner talk.               *)
HealthChanges(w) ==
    /\ fleet[w] # "absent" /\ fleet' = [fleet EXCEPT ![w] = IF @ = "dead" THEN "healthy" ELSE "dead"]
    /\ UNCHANGED <<draft, completed, stageRun, look, effect, failures>>

----------------------------------------------------------------------------
(* inspect: an endpoint answers and the registry is read, whether a stage  *)
(* is in progress or not.                                                  *)
InspectReads(e) ==
    /\ look.begun < MaxProposals
    /\ look' = [begun |-> look.begun + 1,
                open |-> look.open \cup {[number |-> look.begun + 1, endpoint |-> e, read |-> ReadFleet]}]
    /\ UNCHANGED <<fleet, draft, completed, stageRun, effect, failures>>

(* With the answer the draft is set and the stages start over; it is torn  *)
(* if a stage is still in progress, which is overlapped then.              *)
InspectSets(l) ==
    /\ look' = [look EXCEPT !.open = @ \ {l}]
    /\ draft' = [number |-> l.number,
                 removal |-> {w \in Candidate : w[1] = l.endpoint /\ <<w, "dead">> \in l.read},
                 id |-> <<l.endpoint, IF Registered(l.read, <<l.endpoint, 1>>) THEN 2 ELSE 1>>,
                 torn |-> stageRun # NoStage]
    /\ completed' = <<>>
    /\ stageRun' = IF stageRun = NoStage THEN NoStage ELSE [stageRun EXCEPT !.overlapped = TRUE]
    /\ UNCHANGED <<fleet, effect, failures>>

(* requireStage: the next stage, for the fingerprint of the present draft, *)
(* when no stage is in progress.                                           *)
Expected(d) == IF d.removal = {} THEN Tail(StageOrder) ELSE StageOrder
RequireStageUnordered(name) == stageRun = NoStage /\ draft # NoDraft                  \* mutant
RequireStage(name) ==
    /\ stageRun = NoStage /\ draft # NoDraft
    /\ Len(completed) < Len(Expected(draft)) /\ Expected(draft)[Len(completed) + 1] = name

Admitted(name) == [name |-> name, draft |-> draft, before |-> completed, at |-> "asked", read |-> {},
                   left |-> {}, worker |-> NoWorker, overlapped |-> FALSE]
Admit(name) ==
    /\ RequireStage(name) /\ stageRun' = Admitted(name)
    /\ UNCHANGED <<fleet, draft, completed, look, effect, failures>>

----------------------------------------------------------------------------
(* What a stage does, and how it is concluded.                             *)
Notes(s, w) == effect' = [worker |-> w, run |-> s]
Concludes(s) == stageRun' = NoStage /\ completed' = Append(completed, <<s.draft.number, s.name>>)

(* writeRoute awaits nothing: the route of the approved draft is written in*)
(* the callback that admits the stage.                                     *)
WritesRoute ==
    /\ RequireStage("route")
    /\ Notes(Admitted("route"), draft.id) /\ Concludes(Admitted("route"))
    /\ UNCHANGED <<fleet, draft, look, failures>>

(* The core answers a stage's own read of the registry.                    *)
StageReads ==
    /\ stageRun.at = "asked" /\ stageRun.name \in {"remove-dead", "add-worker", "verify"}
    /\ stageRun' = [stageRun EXCEPT !.at = "read", !.read = ReadFleet]
    /\ UNCHANGED <<fleet, draft, completed, look, effect, failures>>

(* The stage goes on with the proposal the tool holds by then.             *)
ChecksRemoval ==
    /\ stageRun.at = "read" /\ stageRun.name = "remove-dead"
    /\ LET present == {w \in draft.removal : Registered(stageRun.read, w)} IN
         IF present = {} THEN Concludes(stageRun)
         ELSE stageRun' = [stageRun EXCEPT !.at = "acting", !.left = present] /\ UNCHANGED completed
    /\ UNCHANGED <<fleet, draft, look, effect, failures>>
ChecksWorker ==
    /\ stageRun.at = "read" /\ stageRun.name \in {"add-worker", "verify"}
    /\ stageRun' = IF stageRun.name = "add-worker" /\ Registered(stageRun.read, draft.id) THEN NoStage
                   ELSE [stageRun EXCEPT !.at = "acting", !.worker = draft.id]
    /\ UNCHANGED <<fleet, draft, completed, look, effect, failures>>

(* A worker that is healthy again ends the removal.                        *)
StageRefuses(w) ==
    /\ stageRun.name = "remove-dead" /\ w \in stageRun.left /\ <<w, "healthy">> \in stageRun.read
    /\ stageRun' = NoStage
    /\ UNCHANGED <<fleet, draft, completed, look, effect, failures>>

(* The core removes a worker, adds one, is parked.                         *)
RemovesDead(w) ==
    /\ stageRun.name = "remove-dead" /\ w \in stageRun.left /\ <<w, "dead">> \in stageRun.read
    /\ fleet' = [fleet EXCEPT ![w] = "absent"] /\ Notes(stageRun, w)
    /\ stageRun' = [stageRun EXCEPT !.left = @ \ {w}, !.at = IF stageRun.left = {w} THEN "done" ELSE @]
    /\ UNCHANGED <<draft, completed, look, failures>>
AddsWorker ==
    /\ stageRun.at = "acting" /\ stageRun.name = "add-worker"
    /\ fleet[stageRun.worker] = "absent"                     \* the core refuses a second
    /\ fleet' = [fleet EXCEPT ![stageRun.worker] = "dead"] /\ Notes(stageRun, stageRun.worker)
    /\ stageRun' = [stageRun EXCEPT !.at = "done"]
    /\ UNCHANGED <<draft, completed, look, failures>>
RestartsCore ==
    /\ stageRun.at = "asked" /\ stageRun.name = "restart" /\ Notes(stageRun, NoWorker)
    /\ stageRun' = [stageRun EXCEPT !.at = "done"]
    /\ UNCHANGED <<fleet, draft, completed, look, failures>>

(* Its answer arrives; the canary's does, and the worker was seen well or  *)
(* there are problems; or a call fails, with its effect or without.        *)
StageDone ==
    /\ stageRun.at = "done" /\ Concludes(stageRun)
    /\ UNCHANGED <<fleet, draft, look, effect, failures>>
Verifies ==
    /\ stageRun.at = "acting" /\ stageRun.name = "verify" /\ Notes(stageRun, stageRun.worker)
    /\ \/ <<stageRun.worker, "healthy">> \in stageRun.read /\ Concludes(stageRun)
       \/ stageRun' = NoStage /\ UNCHANGED completed
    /\ UNCHANGED <<fleet, draft, look, failures>>
StageFails ==
    /\ stageRun # NoStage /\ failures < MaxFailures /\ failures' = failures + 1
    /\ stageRun' = NoStage
    /\ UNCHANGED <<fleet, draft, completed, look, effect>>

AdmissionNext ==
    \/ \E e \in Endpoint : InspectReads(e)
    \/ \E l \in look.open : InspectSets(l)
    \/ \E i \in {1, 2, 4, 5} : Admit(StageOrder[i])
    \/ WritesRoute \/ StageReads \/ ChecksRemoval \/ ChecksWorker
    \/ AddsWorker \/ RestartsCore \/ StageDone \/ Verifies \/ StageFails
    \/ \E w \in Candidate : HealthChanges(w) \/ StageRefuses(w) \/ RemovesDead(w)

----------------------------------------------------------------------------
(* Only what the stage itself saw dead is removed and only a new worker is *)
(* added, whatever was inspected meanwhile.  A stage acts after all earlier*)
(* stages of its proposal were concluded, if that was drafted while no     *)
(* stage was in progress.  It acts on the workers its proposal names, if   *)
(* no inspection ended while it was in progress.                           *)
StagesBefore(run) == {s \in Range(Expected(run.draft)) : \E i, j \in 1..Len(StageOrder) :
    StageOrder[i] = s /\ StageOrder[j] = run.name /\ i < j}
Named(run) == CASE run.name = "remove-dead" -> run.draft.removal
                [] run.name = "restart" -> {NoWorker}
                [] OTHER -> {run.draft.id}
AdmissionSound == LET run == effect.run w == effect.worker IN
    /\ run.name = "remove-dead" => <<w, "dead">> \in run.read
    /\ run.name = "add-worker" => ~Registered(run.read, w)
    /\ ~run.draft.torn => \A s \in StagesBefore(run) : <<run.draft.number, s>> \in Range(run.before)
    /\ ~run.overlapped => w \in Named(run)

(* genie-admission.mjs:3: "this tool never approves itself — every mutating*)
(* stage must be separately requested after the owner agreed in chat": what*)
(* a stage removes, adds or routes is what the proposal it was requested   *)
(* for names.                                                              *)
ApprovedOnly == effect.worker \in Named(effect.run)
=============================================================================
