----------------------------- MODULE MediaCycle ------------------------------
(***************************************************************************)
(* A media job borrows an LLM worker's machine (media-cycle.mjs, run by    *)
(* media-runner.mjs): the worker is held and idle, its LLM is stopped, the *)
(* media engine started, the generation submitted once, observed and       *)
(* collected; then, whatever happened, the LLM is started again, verified  *)
(* and returned, or the worker is left held for a person.                  *)
(***************************************************************************)
EXTENDS Maintenance

\* A step of the process that changes nothing outside its own folder.
Local(j) == UNCHANGED <<gateVars, events, base, late, hostVars>>

\* The enrolled LLM serves and the engine is stopped.
BeginMedia(j) ==
  LET w == Target(j)
  IN /\ Kind(j) = "media" /\ at[j] = "start"
     /\ IF "prev" \in run[w] /\ Answers(w) /\ "media" \notin run[w]
        THEN Goto(j, "baseline") /\ UNCHANGED disk
        ELSE Raise(j, {})
     /\ Local(j)

\* maintenance('transition'): still owned and idle, another LLM still serving.
Transition(j) ==
  /\ at[j] = "transition"
  /\ IF OwnedIdle(j) /\ Floor(j) THEN Goto(j, "stop-llm") /\ UNCHANGED disk ELSE Raise(j, {})
  /\ Local(j)

\* The engine's readiness: an engine that exits or is never ready gets no job.
EngineReady(j) ==
  /\ at[j] = "engine"
  /\ \/ "media" \in run[Target(j)] /\ Goto(j, "dispatch") /\ UNCHANGED disk
     \/ Raise(j, {})
  /\ Local(j)

\* dispatch: an idle engine of an owned worker gets the job once.  A definite
\* rejection fails the job.
DispatchMedia(j) ==
  LET w == Target(j)
  IN /\ at[j] = "dispatch"
     /\ IF ~(OwnedIdle(j) /\ Floor(j) /\ native[w] = {} /\ "media" \in run[w])
        THEN Raise(j, {}) /\ UNCHANGED <<native, bench, submitted>>
        ELSE /\ submitted' = [submitted EXCEPT ![j] = @ + 1]
             /\ \/ /\ bench' = [bench EXCEPT ![j] = "running"]
                   /\ native' = [native EXCEPT ![w] = @ \cup {j}]
                   /\ Goto(j, "observe") /\ UNCHANGED disk
                \/ Raise(j, {}) /\ UNCHANGED <<native, bench>>
     /\ UNCHANGED <<gateVars, events, base, late, run, name, inc, started, record, verified>>

\* An uncertain submission is observed like an accepted one, for as long as the
\* engine does not report its end.
DispatchUnanswered(j) ==
  LET w == Target(j)
  IN /\ Event
     /\ at[j] = "dispatch"
     /\ OwnedIdle(j) /\ Floor(j) /\ native[w] = {} /\ "media" \in run[w]
     /\ submitted' = [submitted EXCEPT ![j] = @ + 1]
     /\ \/ UNCHANGED <<native, bench>>
        \/ /\ bench' = [bench EXCEPT ![j] = "running"]
           /\ native' = [native EXCEPT ![w] = @ \cup {j}]
     /\ Goto(j, "observe")
     /\ UNCHANGED <<gateVars, disk, base, late, run, name, inc, started, record, verified>>

\* observe and collect: the files are retained before the engine is released; a
\* generation that failed or could not be collected ends the batch.
ObserveMedia(j) ==
  /\ Kind(j) = "media" /\ at[j] = "observe"
  /\ bench[j] = "done" /\ "media" \in run[Target(j)]
  /\ \/ Goto(j, "finally") /\ Save(j, {"collected"})
     \/ Raise(j, {})
  /\ Local(j)

-----------------------------------------------------------------------------
(* The finally block.                                                      *)

\* A cycle that stopped the LLM must own the worker to go on; it waits for the
\* engine's work, its own and anybody's, before stopping it.
Finally(j) ==
  LET w == Target(j)
      busy == "stop-llm" \in disk[j] /\ OwnedIdle(j) /\ "media" \in run[w] /\ native[w] # {}
  IN /\ at[j] = "finally" /\ ~busy
     /\ UNCHANGED disk
     /\ Goto(j, IF "stop-llm" \in disk[j]
                THEN IF ~OwnedIdle(j) THEN "ended"
                     ELSE IF "media" \in run[w] THEN "stop-media" ELSE "start-llm"
                ELSE IF "lock-intent" \in disk[j] /\ OwnedIdle(j) THEN "proof"
                ELSE "ended")
     /\ Local(j)

\* waitForMediaLlm: only observes, never starts again.
WaitForMediaLlm(j) ==
  /\ at[j] = "wait-llm"
  /\ "prev" \in run[Target(j)]
  /\ Goto(j, "proof")
  /\ UNCHANGED disk /\ Local(j)

\* verify: real answers and cache reuse, then the window is finished.
ProveLlm(j) ==
  LET w == Target(j)
  IN /\ at[j] = "proof"
     /\ \/ /\ Answers(w)
           /\ verified' = [verified EXCEPT ![w] = @ \cup {name[w]}]
           /\ Save(j, {"llm-proof"}) /\ Goto(j, "release")
        \/ Raise(j, {}) /\ UNCHANGED verified
     /\ UNCHANGED <<gateVars, events, base, late, run, name, inc, started, native, bench, submitted, record>>

MediaStep(j) ==
  \/ BeginMedia(j) \/ Transition(j) \/ EngineReady(j) \/ DispatchMedia(j)
  \/ DispatchUnanswered(j) \/ ObserveMedia(j) \/ Finally(j) \/ WaitForMediaLlm(j)
  \/ ProveLlm(j)
=============================================================================
