-------------------------------- MODULE Chat --------------------------------
(***************************************************************************)
(* GenieChat (genie-chat.mjs): the saved questions of one conversation and *)
(* the job that puts them to the model one after the other, with stops,    *)
(* failed saves, testing mode and crashes of the dashboard anywhere.  The  *)
(* text of a reply is the number of its parts.                             *)
(***************************************************************************)
EXTENDS Integers, Sequences, FiniteSets

CONSTANTS Question,    \* questions a client submits, each with its identifier
          MaxText,     \* bound: parts of a partial reply
          MaxFaults    \* bound: failed saves, failed answers and crashes

ChatGiven ==
  MaxText \in Nat /\ MaxFaults \in Nat /\ Question # {} /\ "none" \notin Question

VARIABLES conv,        \* the conversation in memory: messages, stops, paused queue, texts
          saved,       \* the conversation file
          checkpoint,  \* the progress file; fresh while no later save has superseded it
          turn,        \* the job of the conversation and the reply it works on
          alive,       \* the dashboard runs
          suspended,   \* testing mode
          faults,
          accepted,    \* history: questions whose submission returned
          asked,       \* history: how often a question was put to the model
          uncertain    \* history: a crash cut a reply short before waiting questions

chatVars == <<conv, saved, checkpoint, turn, alive, suspended, faults, accepted, asked, uncertain>>

Replies == {conv.log[i] : i \in DOMAIN conv.log}
Unanswered(c) == {q \in Question : c.state[q] = "queued"}
Idle == [pc |-> "idle", q |-> "none"]

ChatInit ==
  /\ conv = [log |-> <<>>, state |-> [q \in Question |-> "none"], stopped |-> {},
             paused |-> "none", text |-> [q \in Question |-> 0]]
  /\ saved = conv
  /\ checkpoint = [q |-> "none", text |-> 0, fresh |-> FALSE]
  /\ turn = Idle /\ alive = TRUE /\ suspended = FALSE /\ faults = 0
  /\ accepted = {} /\ asked = [q \in Question |-> 0] /\ uncertain = FALSE

\* save(): the new conversation file supersedes the checkpoint; or the write fails.
Saves(c) ==
  /\ saved' = c /\ checkpoint' = [checkpoint EXCEPT !.fresh = FALSE]
  /\ UNCHANGED faults
WriteFails ==
  /\ faults < MaxFaults /\ faults' = faults + 1
  /\ UNCHANGED <<saved, checkpoint>>

\* start(): a job for a conversation that has none, waits and may go on.
Starts(c) ==
  turn' = IF turn.pc = "idle" /\ ~suspended /\ c.paused = "none" /\ Unanswered(c) # {}
          THEN [pc |-> "loop", q |-> "none"] ELSE turn

\* Mutation: a message that could not be saved stays.
SubmitQuestionKeeping(q) ==
  LET c == [conv EXCEPT !.log = Append(@, q), !.state[q] = "queued"]
  IN /\ alive /\ ~suspended /\ q \notin Replies
     /\ conv' = c
     /\ \/ Saves(c) /\ accepted' = accepted \cup {q}
        \/ WriteFails /\ UNCHANGED accepted
     /\ Starts(c)
     /\ UNCHANGED <<alive, suspended, asked, uncertain>>

\* submit(): saved before it is accepted, or taken back; a known identifier changes
\* nothing.
SubmitQuestion(q) ==
  LET c == [conv EXCEPT !.log = Append(@, q), !.state[q] = "queued"]
  IN /\ alive /\ ~suspended /\ q \notin Replies
     /\ \/ Saves(c) /\ conv' = c /\ accepted' = accepted \cup {q} /\ Starts(c)
        \/ WriteFails /\ UNCHANGED <<conv, accepted, turn>>
     /\ UNCHANGED <<alive, suspended, asked, uncertain>>

\* tick(): the dashboard's timer starts what may go on.
Tick ==
  /\ alive /\ Starts(conv) /\ turn' # turn
  /\ UNCHANGED <<conv, saved, checkpoint, alive, suspended, faults, accepted, asked, uncertain>>

SetTestingMode ==
  /\ alive /\ suspended' = ~suspended
  /\ UNCHANGED <<conv, saved, checkpoint, turn, alive, faults, accepted, asked, uncertain>>

\* resume(): the owner lets the questions behind a failed or stopped reply go on.
Resume ==
  LET c == [conv EXCEPT !.paused = "none"]
  IN /\ alive /\ ~suspended /\ conv.paused # "none"
     /\ \/ Saves(c) /\ conv' = c /\ Starts(c) /\ uncertain' = FALSE
        \/ WriteFails /\ UNCHANGED <<conv, turn, uncertain>>
     /\ UNCHANGED <<alive, suspended, accepted, asked>>

\* stop(): the decision is saved, then the turn is aborted.
Stop(q) ==
  LET c == [conv EXCEPT !.state[q] = "interrupted", !.stopped = @ \cup {q},
                        !.paused = IF Unanswered(conv) \ {q} # {} THEN q ELSE "none"]
  IN /\ alive /\ conv.state[q] \in {"working", "queued"}
     /\ \/ Saves(c) /\ conv' = c /\ uncertain' = FALSE
        \/ WriteFails /\ UNCHANGED <<conv, uncertain>>
     /\ UNCHANGED <<turn, alive, suspended, accepted, asked>>

\* The end of a reply: an outcome, a pause for the questions behind a failure, and the
\* last save, without which the reply counts as failed.
Outcome(c, q, ok) ==
  IF ok THEN [c EXCEPT !.state[q] = "complete", !.text[q] = MaxText + 1]
  ELSE IF q \in c.stopped THEN [c EXCEPT !.state[q] = "interrupted"]
  ELSE [c EXCEPT !.state[q] = "failed", !.paused = IF Unanswered(c) # {} THEN q ELSE @]

Settles(c, q, ok) ==
  LET e == Outcome(c, q, ok)
  IN /\ turn' = [pc |-> "loop", q |-> "none"]
     /\ \/ Saves(e) /\ conv' = e
        \/ WriteFails /\ conv' = [e EXCEPT !.state[q] = "failed", !.paused = q]

\* The job's loop ends when nothing waits or nothing may start.
JobEnds ==
  /\ turn.pc = "loop"
  /\ suspended \/ conv.paused # "none" \/ Unanswered(conv) = {}
  /\ turn' = Idle
  /\ UNCHANGED <<conv, saved, checkpoint, alive, suspended, faults, accepted, asked, uncertain>>

First(c) == c.log[CHOOSE i \in DOMAIN c.log :
                    /\ c.state[c.log[i]] = "queued"
                    /\ \A j \in 1..(i - 1) : c.state[c.log[j]] # "queued"]

\* The first waiting question is marked as working on disk, or its reply fails; the
\* save of that failure is retried with the next change.
JobTakes ==
  /\ turn.pc = "loop" /\ ~suspended /\ conv.paused = "none" /\ Unanswered(conv) # {}
  /\ LET q == First(conv)
         c == [conv EXCEPT !.state[q] = "working"]
     IN \/ Saves(c) /\ conv' = c /\ turn' = [pc |-> "wait", q |-> q]
        \/ /\ faults < MaxFaults
           /\ \/ /\ faults' = faults + 1 /\ conv' = Outcome(c, q, FALSE)
                 /\ saved' = conv' /\ checkpoint' = [checkpoint EXCEPT !.fresh = FALSE]
              \/ /\ faults + 1 < MaxFaults /\ faults' = faults + 2
                 /\ conv' = [c EXCEPT !.state[q] = "failed", !.paused = q]
                 /\ UNCHANGED <<saved, checkpoint>>
           /\ UNCHANGED turn
  /\ UNCHANGED <<alive, suspended, accepted, asked, uncertain>>

\* runQuestion's callback, after any wait for an action review: a stop or testing mode
\* prevents the dispatch, and so does a failed save.
Dispatches ==
  /\ turn.pc = "wait" /\ ~suspended /\ turn.q \notin conv.stopped
  /\ Saves(conv)
  /\ asked' = [asked EXCEPT ![turn.q] = @ + 1]
  /\ turn' = [turn EXCEPT !.pc = "generate"]
  /\ UNCHANGED <<conv, alive, suspended, accepted, uncertain>>

DispatchFails ==
  /\ turn.pc = "wait"
  /\ \/ (suspended \/ turn.q \in conv.stopped) /\ Settles(conv, turn.q, FALSE)
     \/ faults < MaxFaults /\ LET e == Outcome(conv, turn.q, FALSE)
                              IN /\ conv' = e /\ saved' = e /\ faults' = faults + 1
                                 /\ checkpoint' = [checkpoint EXCEPT !.fresh = FALSE]
                                 /\ turn' = [pc |-> "loop", q |-> "none"]
  /\ UNCHANGED <<alive, suspended, accepted, asked, uncertain>>

Accepting == turn.pc = "generate" /\ conv.state[turn.q] = "working"

\* onDelta: a part of the answer, in memory only.
Delta ==
  /\ Accepting /\ conv.text[turn.q] < MaxText
  /\ conv' = [conv EXCEPT !.text[turn.q] = @ + 1]
  /\ UNCHANGED <<saved, checkpoint, turn, alive, suspended, faults, accepted, asked, uncertain>>

\* onProgress: a checkpoint of the reply beside the conversation file.
SaveProgress ==
  /\ Accepting
  /\ checkpoint' = [q |-> turn.q, text |-> conv.text[turn.q], fresh |-> TRUE]
  /\ UNCHANGED <<conv, saved, turn, alive, suspended, faults, accepted, asked, uncertain>>

\* A tool's event is saved with the conversation.
ToolEvent ==
  /\ Accepting /\ Saves(conv)
  /\ UNCHANGED <<conv, turn, alive, suspended, accepted, asked, uncertain>>

\* Mutation: the answer counts although the owner has stopped the reply.
RepliedDespiteStop ==
  /\ turn.pc = "generate"
  /\ \/ Settles(conv, turn.q, TRUE)
     \/ turn.q \in conv.stopped /\ Settles(conv, turn.q, FALSE)
  /\ UNCHANGED <<alive, suspended, accepted, asked, uncertain>>

\* generate returns an answer, which an abort voids, or fails.
Replied ==
  /\ turn.pc = "generate"
  /\ \/ Settles(conv, turn.q, turn.q \notin conv.stopped)
     \/ /\ faults < MaxFaults
        /\ LET e == Outcome(conv, turn.q, FALSE)
           IN /\ conv' = e /\ saved' = e /\ faults' = faults + 1
              /\ checkpoint' = [checkpoint EXCEPT !.fresh = FALSE]
              /\ turn' = [pc |-> "loop", q |-> "none"]
  /\ UNCHANGED <<alive, suspended, accepted, asked, uncertain>>

DashboardCrashes ==
  /\ alive /\ faults < MaxFaults
  /\ alive' = FALSE /\ faults' = faults + 1 /\ turn' = Idle
  /\ uncertain' = (uncertain \/ (Accepting /\ Unanswered(saved) # {}))
  /\ UNCHANGED <<conv, saved, checkpoint, suspended, accepted, asked>>

\* Mutation: a checkpoint of any revision counts.
RestoredStale(c) ==
  IF checkpoint.q # "none" /\ c.state[checkpoint.q] = "working"
  THEN [c EXCEPT !.text[checkpoint.q] = checkpoint.text] ELSE c

\* restoreProgress: a checkpoint counts for a working reply of the same revision.
Restored(c) ==
  IF checkpoint.fresh /\ c.state[checkpoint.q] = "working"
  THEN [c EXCEPT !.text[checkpoint.q] = checkpoint.text] ELSE c

\* Mutation: a reply that was at work is asked for again.
LoadedConversationReplaying(c) ==
  [c EXCEPT !.state = [q \in Question |-> IF c.state[q] = "working" THEN "queued" ELSE @[q]]]

\* Mutation: what waits behind the cut reply goes on.
LoadedConversationGoingOn(c) ==
  [c EXCEPT !.state = [q \in Question |-> IF c.state[q] = "working" THEN "interrupted" ELSE @[q]]]

\* The constructor: a reply that was at work is interrupted, never repeated, and pauses
\* the queue.
LoadedConversation(c) ==
  LET cut == {q \in Question : c.state[q] = "working"}
  IN [c EXCEPT !.state = [q \in Question |-> IF q \in cut THEN "interrupted" ELSE @[q]],
               !.paused = IF cut # {} /\ Unanswered(c) # {} THEN CHOOSE q \in cut : TRUE ELSE @]

DashboardStarts ==
  LET c == LoadedConversation(Restored(saved))
  IN /\ ~alive /\ alive' = TRUE
     /\ conv' = c
     /\ IF c # saved THEN Saves(c) ELSE UNCHANGED <<saved, checkpoint, faults>>
     /\ Starts(c)
     /\ UNCHANGED <<suspended, accepted, asked, uncertain>>

ChatNext ==
  \/ \E q \in Question : SubmitQuestion(q) \/ Stop(q)
  \/ Tick \/ SetTestingMode \/ Resume
  \/ JobEnds \/ JobTakes \/ Dispatches \/ DispatchFails
  \/ Delta \/ SaveProgress \/ ToolEvent \/ Replied
  \/ DashboardCrashes \/ DashboardStarts

------------------------------------------------------------------------------
\* "A server restart is not permission to replay an uncertain request": no question is
\* put to the model twice, whatever saves fail and wherever the dashboard crashes,
\* because its file says so before the model does.
AskedOnce == \A q \in Question : asked[q] <= 1

\* A submission the owner was told is not saved is never sent to the model.
RefusedNotSent == \A q \in Question : asked[q] > 0 => q \in accepted

\* A reply the owner has stopped never turns into an answer, not even when the model
\* had finished.
StopWins == alive => \A q \in conv.stopped : conv.state[q] \in {"interrupted", "failed"}

\* After a crash in the middle of a reply the questions behind it wait for the owner.
OwnerDecides == asked' # asked => ~uncertain

\* The saved part of an answer never shrinks: a checkpoint from before the last save
\* does not come back with a restart.
PartialKept == \A q \in Question : saved'.text[q] >= saved.text[q]

\* The model is asked once, for what the owner knows to be submitted, and a stop wins.
AskedByOwner == AskedOnce /\ RefusedNotSent /\ StopWins

\* After a crash the owner decides about what waits, and what was saved of an answer is
\* still there.
CrashRespected == [][OwnerDecides /\ PartialKept]_chatVars
=============================================================================
