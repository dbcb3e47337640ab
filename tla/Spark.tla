-------------------------------- MODULE Spark --------------------------------
(***************************************************************************)
(* Setting up a new host: the watch that carries an owner's request on     *)
(* (ds4-gateway/spark-setup-watch.mjs), the tool Genie calls for each step *)
(* (genie-spark-setup.mjs), and the registration of the finished worker    *)
(* (spark-registration.mjs).  The host's preparation and qualification, the*)
(* core and Genie's decisions are external.  The dashboard may die between *)
(* any two saves, and an answer from the host may be lost.                 *)
(***************************************************************************)
EXTENDS Naturals, FiniteSets

CONSTANT MaxSetbacks      \* bound: crashes, lost answers, failed stages

VARIABLES host,        \* external: preparation, media and LLM qualification of the host
          request,     \* requests[id], in its file
          tickStep,    \* tick in progress and the snapshot it read
          prompt,      \* the stage Genie is working on, and the prompts of this request
          call,        \* pending: the tool call in progress, and its step
          enlisted,    \* the registration's file
          worker,      \* the core's worker of this host
          adds,        \* history: how often it was added
          setbacks
sparkVars == <<host, request, tickStep, prompt, call, enlisted, worker, adds, setbacks>>

NoRequest == [state |-> "none", dispatched |-> "none", pending |-> "none", id |-> 0]
NoTick == [phase |-> "idle", seen |-> <<>>, enlisted |-> "none", stage |-> "none"]
NoCall == [action |-> "none", step |-> "none"]
Stages == {"prepare_spark", "qualify_spark_media", "qualify_spark_llm", "register_spark_llm"}

SparkInit ==
    /\ \E media \in {"none", "not required"} :
         host = [state |-> "not_started", media |-> media, llm |-> "none"]
    /\ request = NoRequest /\ tickStep = NoTick /\ call = NoCall
    /\ prompt = [stage |-> "none", ids |-> {}, last |-> 0]
    /\ enlisted = "none" /\ worker = "absent" /\ adds = 0 /\ setbacks = 0

Setback == setbacks < MaxSetbacks /\ setbacks' = setbacks + 1

(* The host works by itself, and ends a stage in success or not.           *)
HostEnds ==
    /\ \/ host.state = "running" /\ host' = [host EXCEPT !.state = "prepared_stopped"]
       \/ host.media = "running" /\ host' = [host EXCEPT !.media = "qualified_stopped"]
       \/ host.llm = "running" /\ host' = [host EXCEPT !.llm = "qualified_serving"]
    /\ UNCHANGED <<request, tickStep, prompt, call, enlisted, worker, adds, setbacks>>
HostFails ==
    /\ Setback
    /\ \E f \in {"state", "media", "llm"} :
         host[f] = "running" /\ host' = [host EXCEPT ![f] = "needs_attention"]
    /\ UNCHANGED <<request, tickStep, prompt, call, enlisted, worker, adds>>
(* The owner has repaired the host and resumed its stage, by himself or    *)
(* with the tool, which lets a preparation that waited for him go on.      *)
PreparationResumed(r) == [r EXCEPT !.state = "working", !.pending = "none",
                        !.dispatched = IF @ = "prepare_spark" THEN "none" ELSE @]
HostResumes ==
    /\ \E f \in {"state", "media", "llm"} :
         /\ host[f] = "needs_attention" /\ host' = [host EXCEPT ![f] = "running"]
         /\ \/ UNCHANGED request
            \/ /\ f = "state" /\ enlisted = "none" /\ host.media \in {"none", "not required"}
               /\ request.state = "needs_attention" /\ tickStep.phase \in {"idle", "read"}
               /\ request' = PreparationResumed(request)
    /\ UNCHANGED <<tickStep, prompt, call, enlisted, worker, adds, setbacks>>

----------------------------------------------------------------------------
(* request: made once, and made again of one that needs attention.         *)
SetupRequested ==
    /\ request.state \in {"none", "needs_attention"} /\ tickStep.phase \in {"idle", "read"}
    /\ request' = [NoRequest EXCEPT !.state = "requested"]
    /\ prompt' = [prompt EXCEPT !.ids = {}, !.last = 0]
    /\ UNCHANGED <<host, tickStep, call, enlisted, worker, adds, setbacks>>

(* tick: nothing while Genie is busy; the status is read first, from a host*)
(* that may not answer.                                                    *)
StatusRead == {[host EXCEPT !.state = s] : s \in {host.state, "unavailable"}}
TickReads ==
    /\ tickStep.phase = "idle" /\ prompt.stage = "none"
    /\ request.state \notin {"none", "complete", "needs_attention"}
    /\ \E seen \in StatusRead :
         tickStep' = [phase |-> "read", seen |-> <<seen>>, enlisted |-> enlisted, stage |-> "none"]
    /\ UNCHANGED <<host, request, prompt, call, enlisted, worker, adds, setbacks>>

NextStage(h) ==
    CASE h.media \notin {"not required", "qualified_stopped"} /\ h.llm = "none" ->
           IF h.state = "not_started" THEN "prepare_spark"
           ELSE IF h.state = "prepared_stopped" /\ h.media = "none" THEN "qualify_spark_media" ELSE "none"
      [] OTHER -> CASE h.llm = "qualified_serving" -> "register_spark_llm"
                    [] h.state = "prepared_stopped" /\ h.llm = "none" -> "qualify_spark_llm"
                    [] h.state = "not_started" -> "prepare_spark"
                    [] OTHER -> "none"
Attention(h, e) == "needs_attention" \in {h.state, h.media, h.llm, e} \/ e = "registered_paused"
StaleStageNever(stage) == FALSE                                          \* mutant
StaleStage(stage) == request.dispatched = stage /\ request.pending = "none"
(* One pass: the request is judged by the snapshot, and a prompt for the   *)
(* next stage is saved with its identity before it is submitted.           *)
TickJudges ==
    /\ tickStep.phase = "read"
    /\ LET h == tickStep.seen[1]
           e == tickStep.enlisted
           s == NextStage(h)
           ends(state) == /\ request' = [request EXCEPT !.state = state,
                                 !.pending = IF state = "complete" THEN "none" ELSE @]
                          /\ tickStep' = NoTick /\ prompt' = prompt IN
       CASE request.state \in {"complete", "needs_attention"} -> ends(request.state)
         [] request.state \notin {"complete", "needs_attention"} /\ Attention(h, e) -> ends("needs_attention")
         [] OTHER ->
            IF h.state = "unavailable" THEN ends("observing")
            ELSE IF e = "registered_serving" THEN ends("complete")
            ELSE IF s = "none" THEN ends("working")
            ELSE IF StaleStage(s) THEN ends("needs_attention")
            ELSE /\ request' = IF request.pending = s THEN request
                               ELSE [request EXCEPT !.pending = s, !.id = prompt.last + 1]
                 /\ prompt' = IF request.pending = s THEN prompt ELSE [prompt EXCEPT !.last = @ + 1]
                 /\ tickStep' = [NoTick EXCEPT !.phase = "submit", !.stage = s]
    /\ UNCHANGED <<host, call, enlisted, worker, adds, setbacks>>
(* chat.submit accepts an identity once; then the dispatch is saved.       *)
TickSubmits ==
    /\ tickStep.phase = "submit"
    /\ prompt' = IF <<tickStep.stage, request.id>> \in prompt.ids THEN prompt
                 ELSE [prompt EXCEPT !.stage = tickStep.stage, !.ids = @ \cup {<<tickStep.stage, request.id>>}]
    /\ tickStep' = [tickStep EXCEPT !.phase = "note"]
    /\ UNCHANGED <<host, request, call, enlisted, worker, adds, setbacks>>
TickNotes ==
    /\ tickStep.phase = "note"
    /\ request' = [request EXCEPT !.state = "waiting_for_genie", !.dispatched = tickStep.stage, !.pending = "none"]
    /\ tickStep' = NoTick
    /\ UNCHANGED <<host, prompt, call, enlisted, worker, adds, setbacks>>

----------------------------------------------------------------------------
(* Genie makes the call he was asked for, or none, and ends his turn.      *)
GenieCalls ==
    /\ prompt.stage # "none" /\ call = NoCall
    /\ call' = [action |-> prompt.stage, step |-> "begun"]
    /\ UNCHANGED <<host, request, tickStep, prompt, enlisted, worker, adds, setbacks>>
GenieEnds ==
    /\ prompt.stage # "none" /\ call = NoCall /\ prompt' = [prompt EXCEPT !.stage = "none"]
    /\ UNCHANGED <<host, request, tickStep, call, enlisted, worker, adds, setbacks>>
(* A stage of the host begins where its status still calls for it.         *)
CallStarts ==
    /\ call.action \in Stages \ {"register_spark_llm"}
    /\ host' = CASE call.action = "prepare_spark" /\ host.state = "not_started" -> [host EXCEPT !.state = "running"]
                 [] call.action = "qualify_spark_media" /\ host.media = "none" -> [host EXCEPT !.media = "running"]
                 [] call.action = "qualify_spark_llm" /\ host.llm = "none"
                      /\ host.state = "prepared_stopped" /\ host.media # "running" -> [host EXCEPT !.llm = "running"]
                 [] OTHER -> host
    /\ call' = NoCall
    /\ UNCHANGED <<request, tickStep, prompt, enlisted, worker, adds, setbacks>>

(* register: a saved attempt is returned, never repeated; the attempt is   *)
(* saved before the worker is added, and after each answer of the core.    *)
EnlistBegins ==
    /\ call = [action |-> "register_spark_llm", step |-> "begun"]
    /\ IF enlisted # "none" \/ host.llm # "qualified_serving" \/ worker # "absent"
       THEN call' = NoCall /\ UNCHANGED enlisted
       ELSE enlisted' = "registering" /\ call' = [call EXCEPT !.step = "add"]
    /\ UNCHANGED <<host, request, tickStep, prompt, worker, adds, setbacks>>
(* The core adds the worker, paused, and resumes it.                       *)
CoreEnlists ==
    \/ call.step = "add" /\ worker = "absent" /\ worker' = "paused" /\ adds' = adds + 1
    \/ call.step = "resume" /\ worker' = "serving" /\ UNCHANGED adds
EnlistAsks ==
    /\ CoreEnlists /\ call' = [call EXCEPT !.step = IF @ = "add" THEN "added" ELSE "resumed"]
    /\ UNCHANGED <<host, request, tickStep, prompt, enlisted, setbacks>>
EnlistSaves ==
    /\ \/ /\ call.step = "added" /\ enlisted' = "registered_paused"
          /\ call' = [call EXCEPT !.step = "resume"]
       \/ call.step = "resumed" /\ enlisted' = "registered_serving" /\ call' = NoCall
    /\ UNCHANGED <<host, request, tickStep, prompt, worker, adds, setbacks>>
(* A call to the core fails, with its effect or without, its answer is not *)
(* the one expected, or a save fails.                                      *)
EnlistFails ==
    /\ Setback /\ call.step \in {"add", "added", "resume", "resumed"}
    /\ enlisted' = "needs_attention" /\ call' = NoCall
    /\ CoreEnlists \/ UNCHANGED <<worker, adds>>
    /\ UNCHANGED <<host, request, tickStep, prompt>>

(* A prompt that still waited is taken up after the restart; one that was  *)
(* being answered is cut short.                                            *)
DashboardDies ==
    /\ Setback
    /\ tickStep' = NoTick /\ call' = NoCall
    /\ \/ prompt' = [prompt EXCEPT !.stage = "none"]
       \/ call = NoCall /\ UNCHANGED prompt
    /\ UNCHANGED <<host, request, enlisted, worker, adds>>

SparkNext ==
    \/ HostEnds \/ HostFails \/ HostResumes \/ SetupRequested
    \/ TickReads \/ TickJudges \/ TickSubmits \/ TickNotes
    \/ GenieCalls \/ GenieEnds \/ CallStarts
    \/ EnlistBegins \/ EnlistAsks \/ EnlistSaves \/ EnlistFails \/ DashboardDies

----------------------------------------------------------------------------
(* Between two words of the owner Genie is asked for a stage at most once, *)
(* whatever is lost or repeated; the worker is added at most once for the  *)
(* life of the host, only from a finished qualification; and a request that*)
(* says complete has its worker serving.                                   *)
SparkSound ==
    /\ \A s \in Stages : Cardinality({p \in prompt.ids : p[1] = s}) <= 1
    /\ adds <= 1
    /\ worker # "absent" => host.llm = "qualified_serving" /\ enlisted # "none"
    /\ request.state = "complete" => worker = "serving"
=============================================================================
