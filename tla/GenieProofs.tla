---------------------------- MODULE GenieProofs -----------------------------
(***************************************************************************)
(* The proofs about Genie: his reviews, for any number of chat jobs, his   *)
(* conversation, for any questions, texts and faults, and his tools: the   *)
(* admission of an endpoint, his journals and the setting up of a host.    *)
(* The five share no state.                                                *)
(***************************************************************************)
EXTENDS Genie, Chat, Admission, Notebook, Spark, WellFoundedInduction, FiniteSetTheorems,
        SequenceTheorems, TLAPS

-----------------------------------------------------------------------------
(* The reviews.                                                            *)

GenieSpec == GenieInit /\ [][GenieNext]_genieVars

Kind == {"manual", "scheduled", "action"}
Waiting == {"queued", "accepted"}

ReviewTyped ==
  /\ assessing \in [kind : Kind \cup {"none"}, pc : {"idle", "connecting", "connected", "acting"},
                    provider : {"none", "dedicated", "pool"}, aborted : BOOLEAN, left : Nat]
  /\ assessing.kind = "none" <=> assessing.pc = "idle"
  /\ received \in Nat
  /\ chatting \in [Asker -> {"no", "waiting", "answering"}]

\* While a provider is called the review has not spoken, and only one that was called
\* off is revoked; one that acts is not.
CallSilent ==
  /\ Calling => ~spoke /\ (revoked => assessing.aborted)
  /\ assessing.pc = "acting" => ~revoked

\* A provider that is not yet connected has received nothing.
ConnectingUnseen == assessing.pc = "connecting" => received = 0

\* A question that was accepted is taken up by the microtask that follows.
AcceptedNext == receipt = "accepted" => On /\ ~Reviewing

GenieInv ==
  /\ ReviewTyped /\ CallSilent /\ ConnectingUnseen /\ AcceptedNext
  /\ RevokedStaysSilent /\ RoutineYields /\ OneProvider /\ ReceiptTrue
\* A Genie that starts reviews nothing.
LEMMA GenieInitial == GenieInit => GenieInv
  BY DEF GenieInit, GenieInv, NoReview, ReviewTyped, CallSilent, ConnectingUnseen, AcceptedNext, RevokedStaysSilent, RoutineYields, OneProvider, ReceiptTrue, On, Reviewing, Calling, Kind

\* Beginning a review: nothing has been sent, nothing has been said.
Begun(k) ==
  /\ assessing' \in [kind : Kind \cup {"none"}, pc : {"idle", "connecting", "connected", "acting"},
                     provider : {"none", "dedicated", "pool"}, aborted : BOOLEAN, left : Nat]
  /\ assessing'.kind = k /\ assessing'.pc = "connecting"
  /\ received' = 0 /\ revoked' = FALSE /\ spoke' = FALSE

LEMMA BeginEffect == \A k \in Kind : BeginReview(k) => Begun(k)
<1> SUFFICES ASSUME NEW k \in Kind, BeginReview(k) PROVE Begun(k)
  OBVIOUS
<1>1. PICK p \in Assignment :
        assessing' = [kind |-> k, pc |-> "connecting", provider |-> p, aborted |-> FALSE, left |-> 0]
  BY DEF BeginReview
<1>2. p \in {"none", "dedicated", "pool"}
  BY <1>1 DEF Assignment
<1> QED
  BY <1>1, <1>2 DEF BeginReview, Begun, Kind

\* The end of a review keeps the invariant, with a report only if nobody called it off.
LEMMA EndKeeps ==
  ASSUME GenieInv, Reviewing, ~micro, NEW r \in BOOLEAN, ReviewEnds(r), r => ~revoked,
         UNCHANGED <<switch, underTest, held, received, revoked>>
  PROVE  GenieInv'
<1> USE DEF GenieInv, ReviewTyped, Reviewing
<1>1. assessing' = NoReview /\ micro' = held /\ spoke' = (spoke \/ r)
  BY DEF ReviewEnds
<1>2. chatting' \in [Asker -> {"no", "waiting", "answering"}]
  BY DEF ReviewEnds
<1>3. ReviewTyped'
  BY <1>1, <1>2 DEF NoReview, Kind
<1>4. CallSilent' /\ ConnectingUnseen'
  BY <1>1 DEF NoReview, CallSilent, Calling, ConnectingUnseen
<1>5. receipt # "accepted"
  BY DEF AcceptedNext
<1>6. receipt' \in {receipt, "answered", "failed"} /\ (assessing.kind = "manual" => receipt' # receipt \/ receipt # "answering")
  BY DEF ReviewEnds
<1>7. AcceptedNext'
  BY <1>5, <1>6 DEF AcceptedNext
<1>8. ReceiptTrue'
  BY <1>1, <1>5 DEF ReceiptTrue, ReviewEnds, NoReview
<1>9. RevokedStaysSilent' /\ RoutineYields' /\ OneProvider'
  BY <1>1 DEF RevokedStaysSilent, RoutineYields, OneProvider, NoReview
<1> QED
  BY <1>3, <1>4, <1>7, <1>8, <1>9

\* What follows an answer or an action: the next action, or the report.
LEMMA ActsKeeps ==
  ASSUME GenieInv, Reviewing, ~micro, ~revoked, NEW n \in Nat, Acts(n),
         UNCHANGED <<switch, underTest, held, received, revoked>>
  PROVE  GenieInv'
<1>1. CASE n > 0 /\ On
  <2>1. /\ assessing' = [assessing EXCEPT !.pc = "acting", !.left = n - 1]
        /\ spoke' = TRUE /\ UNCHANGED <<receipt, micro, chatting>>
    BY <1>1 DEF Acts
  <2>2. n - 1 \in Nat
    BY <1>1
  <2> QED
    BY <2>1, <2>2 DEF GenieInv, ReviewTyped, CallSilent, ConnectingUnseen, AcceptedNext, RevokedStaysSilent, RoutineYields, OneProvider, ReceiptTrue, On, Reviewing, Calling, Kind
<1>2. CASE ~(n > 0 /\ On)
  <2>1. ReviewEnds(TRUE)
    BY <1>2 DEF Acts
  <2> QED
    BY <2>1, EndKeeps
<1> QED
  BY <1>1, <1>2

\* Every step keeps the invariant.
LEMMA GenieStep == GenieInv /\ [GenieNext]_genieVars => GenieInv'
<1> SUFFICES ASSUME GenieInv, [GenieNext]_genieVars PROVE GenieInv'
  OBVIOUS
<1> USE DEF GenieInv, ReviewTyped, CallSilent, ConnectingUnseen, AcceptedNext, RevokedStaysSilent, RoutineYields, OneProvider, ReceiptTrue, On, Reviewing, Calling, Kind
<1>1. CASE SetTestingOf
  BY <1>1 DEF SetTestingOf
<1>2. CASE TurnOff
  BY <1>2 DEF TurnOff, Abort, CancelQueued
<1>3. CASE TurnOn
  BY <1>3 DEF TurnOn
<1>4. CASE CloseGenie
  BY <1>4 DEF CloseGenie, Abort, CancelQueued
<1>5. CASE SubmitReview
  BY <1>5 DEF SubmitReview, Pending, Preempt, Abort
<1>6. CASE RunSubmitted
  <2>1. CASE On /\ ~Reviewing /\ held
    <3>1. BeginReview("manual") /\ receipt' = "answering" /\ held' = FALSE
      BY <1>6, <2>1 DEF RunSubmitted
    <3>2. UNCHANGED <<switch, underTest, chatting>>
      BY <1>6 DEF RunSubmitted
    <3>3. Begun("manual")
      BY <3>1, BeginEffect
    <3> QED
      BY <1>6, <2>1, <3>1, <3>2, <3>3 DEF Begun, RunSubmitted
  <2>2. CASE ~(On /\ ~Reviewing /\ held)
    BY <1>6, <2>2 DEF RunSubmitted
  <2> QED
    BY <2>1, <2>2
<1>7. CASE GenieTick
  <2>0. ~micro /\ On /\ ~Reviewing /\ UNCHANGED <<switch, underTest, receipt, held, chatting>>
    BY <1>7 DEF GenieTick
  <2>1. CASE held
    BY <1>7, <2>0, <2>1 DEF GenieTick
  <2>2. CASE ~held /\ UNCHANGED micro /\ BeginReview("action")
    <3>1. Begun("action")
      BY <2>2, BeginEffect
    <3> QED
      BY <2>0, <2>2, <3>1 DEF Begun
  <2>3. CASE ~held /\ UNCHANGED micro /\ BeginReview("scheduled") /\ \A c \in Asker : chatting[c] = "no"
    <3>1. Begun("scheduled")
      BY <2>3, BeginEffect
    <3> QED
      BY <2>0, <2>3, <3>1 DEF Begun
  <2> QED
    BY <1>7, <2>1, <2>2, <2>3 DEF GenieTick
<1>8. CASE ProviderConnects
  BY <1>8 DEF ProviderConnects
<1>9. CASE ProviderRefuses
  <2>1. CASE assessing.provider = "dedicated" /\ On
    <3>1. assessing.pc = "connecting" /\ ~micro /\ UNCHANGED <<switch, underTest, held, received, revoked>>
      BY <1>9 DEF ProviderRefuses, NotDispatched
    <3>2. /\ assessing' = [assessing EXCEPT !.provider = "pool", !.pc = "connecting"]
          /\ UNCHANGED <<receipt, micro, chatting, spoke>>
      BY <1>9, <2>1 DEF ProviderRefuses
    <3> QED
      BY <3>1, <3>2
  <2>2. CASE ~(assessing.provider = "dedicated" /\ On)
    BY <1>9, <2>2, EndKeeps DEF ProviderRefuses
  <2> QED
    BY <2>1, <2>2
<1>10. CASE ProviderFails
  BY <1>10, EndKeeps DEF ProviderFails
<1>11. CASE ProviderAnswers
  <2>0. Reviewing /\ ~micro /\ ~revoked /\ UNCHANGED <<switch, underTest, held, received, revoked>>
    BY <1>11 DEF ProviderAnswers
  <2>1. CASE On
    <3>1. PICK n \in RequestedActions : Acts(n)
      BY <1>11, <2>1 DEF ProviderAnswers
    <3>2. n \in Nat
      BY <3>1 DEF RequestedActions
    <3> QED
      BY <2>0, <3>1, <3>2, ActsKeeps
  <2>2. CASE ~On
    BY <1>11, <2>0, <2>2, EndKeeps DEF ProviderAnswers
  <2> QED
    BY <2>1, <2>2
<1>12. CASE ActionReturns
  <2>1. Reviewing /\ ~micro /\ ~revoked /\ assessing.left \in Nat /\ Acts(assessing.left)
    BY <1>12 DEF ActionReturns
  <2>2. UNCHANGED <<switch, underTest, held, received, revoked>>
    BY <1>12 DEF ActionReturns
  <2> QED
    BY <2>1, <2>2, ActsKeeps
<1>13. ASSUME NEW c \in {"primary", "pool"}, SetSource(c) PROVE GenieInv'
  BY <1>13 DEF SetSource
<1>14. ASSUME NEW c \in Asker, AnswerChat(c) PROVE GenieInv'
  <2>0. UNCHANGED <<switch, underTest, receipt, held, micro, received, spoke>>
    BY <1>14 DEF AnswerChat
  <2>1. CASE Reviewing /\ Preempt /\ chatting' = [chatting EXCEPT ![c] = "waiting"]
    <3>1. CASE assessing.kind = "scheduled"
      BY <2>0, <2>1, <3>1 DEF Preempt, Abort
    <3>2. CASE assessing.kind # "scheduled"
      BY <2>0, <2>1, <3>2 DEF Preempt
    <3> QED
      BY <3>1, <3>2
  <2>2. CASE /\ ~Reviewing /\ chatting' = [chatting EXCEPT ![c] = "answering"]
             /\ UNCHANGED <<assessing, revoked>>
    BY <2>0, <2>2
  <2> QED
    BY <1>14, <2>1, <2>2 DEF AnswerChat
<1>15. ASSUME NEW c \in Asker, ChatAnswered(c) PROVE GenieInv'
  BY <1>15 DEF ChatAnswered
<1>16. CASE UNCHANGED genieVars
  BY <1>16 DEF genieVars
<1> QED
  BY <1>1, <1>2, <1>3, <1>4, <1>5, <1>6, <1>7, <1>8, <1>9, <1>10, <1>11, <1>12, <1>13, <1>14, <1>15, <1>16 DEF GenieNext

\* The invariant of Genie's reviews (genie.mjs ask, tick, submitReview, answerChat): for
\* any number of chat jobs, the conditions on which the properties below rest.
THEOREM GenieInvariant == GenieSpec => []GenieInv
  BY GenieInitial, GenieStep, PTL DEF GenieSpec

\* A review that was called off during its provider call neither acts nor reports, a
\* routine review yields to a person's question, the evidence reaches one provider at
\* most and the owner's receipt is true (genie.mjs ask, tick, answerChat, submitReview,
\* genieNotDispatched).
THEOREM GenieCorrect == GenieSpec => []GenieSound
<1>1. GenieInv => GenieSound
  BY DEF GenieInv, GenieSound
<1> QED
  BY <1>1, GenieInvariant, PTL

-----------------------------------------------------------------------------
(* The conversation.                                                       *)

ChatSpec == ChatInit /\ [][ChatNext]_chatVars

ReplyState == {"none", "queued", "working", "interrupted", "failed", "complete"}
Conversation ==
  [log : Seq(Question), state : [Question -> ReplyState], stopped : SUBSET Question,
   paused : Question \cup {"none"}, text : [Question -> 0..(MaxText + 1)]]

ChatTyped ==
  /\ conv \in Conversation /\ saved \in Conversation
  /\ checkpoint \in [q : Question \cup {"none"}, text : 0..(MaxText + 1), fresh : BOOLEAN]
  /\ turn \in [pc : {"idle", "loop", "wait", "generate"}, q : Question \cup {"none"}]
  /\ alive \in BOOLEAN /\ suspended \in BOOLEAN /\ uncertain \in BOOLEAN
  /\ faults \in Nat /\ accepted \subseteq Question /\ asked \in [Question -> Nat]

\* What a conversation says, in memory or on disk: its questions were accepted, one
\* that waits was never put to the model, and a stopped one has no answer.
Truthful(c) ==
  /\ \A q \in Question : c.state[q] # "none" => q \in accepted /\ \E i \in DOMAIN c.log : c.log[i] = q
  /\ \A q \in Question : c.state[q] \in {"none", "queued"} => asked[q] = 0
  /\ \A q \in c.stopped : c.state[q] \in {"interrupted", "failed"}

\* Memory and file both tell the truth.
ConversationsTruthful == Truthful(conv) /\ Truthful(saved)

\* The reply under way is at work in memory and on disk, or the owner has stopped it.
AtWork ==
  /\ turn.q \in accepted
  /\ turn.q \in conv.stopped \/ (conv.state[turn.q] = "working" /\ saved.state[turn.q] = "working")

TurnFollows ==
  /\ turn.pc \in {"wait", "generate"} => AtWork
  /\ turn.pc = "wait" => asked[turn.q] = 0
  /\ ~alive => turn = Idle

\* A crash that cut a reply short before waiting questions is to be seen on disk, until
\* the dashboard has read it; then the conversation is paused, on disk too.
CrashSeen ==
  uncertain =>
    IF alive THEN turn = Idle /\ conv.paused # "none" /\ saved.paused # "none"
    ELSE saved.paused # "none" \/ (Unanswered(saved) # {} /\ \E q \in Question : saved.state[q] = "working")

\* Texts only grow: what a restart would restore, and what the next save would write.
TextsGrow ==
  /\ checkpoint.fresh => checkpoint.q \in Question /\ checkpoint.text >= saved.text[checkpoint.q]
  /\ alive => \A q \in Question : conv.text[q] >= saved.text[q]

ChatInv ==
  /\ ChatTyped /\ ConversationsTruthful /\ TurnFollows /\ CrashSeen /\ TextsGrow
  /\ \A q \in Question : asked[q] <= 1

\* A nonempty set of naturals has a least element.
LEMMA LeastIndex ==
  ASSUME NEW T \in SUBSET Nat, T # {}
  PROVE  \E x \in T : \A y \in T : x <= y
<1> DEFINE R == OpToRel(<, Nat)
<1>1. \A x, y \in Nat : y < x => <<y, x>> \in R
  BY DEF OpToRel
<1>2. IsWellFoundedOn(R, Nat)
  BY NatLessThanWellFounded
<1> HIDE DEF R
<1>3. PICK x \in T : \A y \in T : ~(<<y, x>> \in R)
  BY <1>2, WFMin
<1>4. ASSUME NEW y \in T PROVE x <= y
  <2>1. x \in Nat /\ y \in Nat /\ ~(y < x)
    BY <1>1, <1>3
  <2> QED BY <2>1
<1> QED BY <1>4

\* The question the job takes is one that waits.
LEMMA FirstQueued ==
  ASSUME NEW c, c.log \in Seq(Question), NEW q \in Question, c.state[q] = "queued",
         \E i \in DOMAIN c.log : c.log[i] = q
  PROVE  First(c) \in Question /\ c.state[First(c)] = "queued"
<1> DEFINE At == {i \in DOMAIN c.log : c.state[c.log[i]] = "queued"}
           Is(i) == c.state[c.log[i]] = "queued" /\ \A j \in 1..(i - 1) : c.state[c.log[j]] # "queued"
<1>1. At \in SUBSET Nat /\ At # {}
  OBVIOUS
<1>2. PICK i \in At : \A j \in At : i <= j
  <2> HIDE DEF At
  <2> QED BY <1>1, LeastIndex
<1>3. \A j \in 1..(i - 1) : c.state[c.log[j]] # "queued"
  BY <1>2
<1>4. i \in DOMAIN c.log /\ Is(i)
  BY <1>2, <1>3
<1> DEFINE k == CHOOSE n \in DOMAIN c.log : Is(n)
<1>5. k \in DOMAIN c.log /\ Is(k)
  <2> HIDE DEF Is
  <2> QED BY <1>4
<1>6. First(c) = c.log[k]
  BY DEF First
<1> HIDE DEF k
<1> QED BY <1>5, <1>6

\* No part of a text is lost.
Grows(t, u) == \A p \in Question : u[p] >= t[p]

\* d is c after the end of q's reply: decided, without an answer if it was stopped, and
\* no text lost.
Over(c, d, q) ==
  /\ d \in Conversation /\ d.log = c.log /\ d.stopped = c.stopped
  /\ d.state[q] \in {"complete", "interrupted", "failed"} /\ (q \in c.stopped => d.state[q] # "complete")
  /\ \A p \in Question \ {q} : d.state[p] = c.state[p]
  /\ Grows(c.text, d.text)

\* A reply that is decided, with any pause and any longer text, is over.
LEMMA DecidedOver ==
  ASSUME NEW c \in Conversation, NEW q \in Question, NEW s \in {"complete", "interrupted", "failed"},
         q \in c.stopped => s # "complete", NEW p \in Question \cup {"none"},
         NEW t \in [Question -> 0..(MaxText + 1)], Grows(c.text, t)
  PROVE  Over(c, [c EXCEPT !.state[q] = s, !.paused = p, !.text = t], q)
<1> DEFINE d == [c EXCEPT !.state[q] = s, !.paused = p, !.text = t]
<1>1. /\ d.log = c.log /\ d.stopped = c.stopped /\ d.paused = p /\ d.text = t
      /\ d.state = [c.state EXCEPT ![q] = s]
  BY DEF Conversation
<1>2. d \in Conversation
  <2>1. [c.state EXCEPT ![q] = s] \in [Question -> ReplyState]
    BY DEF Conversation, ReplyState
  <2> QED BY <2>1 DEF Conversation
<1>3. d.state[q] = s /\ \A x \in Question \ {q} : d.state[x] = c.state[x]
  BY <1>1 DEF Conversation
<1>4. Over(c, d, q)
  <2> HIDE DEF d
  <2> QED BY <1>1, <1>2, <1>3 DEF Over
<1> QED BY <1>4

\* So is one with its outcome, and one whose last save failed.
LEMMA OutcomeOver ==
  ASSUME ChatGiven, NEW c \in Conversation, NEW q \in Question, NEW ok \in BOOLEAN, ok => q \notin c.stopped
  PROVE  /\ Over(c, Outcome(c, q, ok), q)
         /\ Over(c, [Outcome(c, q, ok) EXCEPT !.state[q] = "failed", !.paused = q], q)
<1> DEFINE d(s, p, t) == [c EXCEPT !.state[q] = s, !.paused = p, !.text = t]
           Decided == {"complete", "interrupted", "failed"}
<1>0. Grows(c.text, c.text)
  BY DEF Grows, Conversation
<1>1. /\ c.paused \in Question \cup {"none"} /\ c.text \in [Question -> 0..(MaxText + 1)]
      /\ c = [log |-> c.log, state |-> c.state, stopped |-> c.stopped, paused |-> c.paused, text |-> c.text]
  BY DEF Conversation
<1>2. PICK s \in Decided, p \in Question \cup {"none"}, t \in [Question -> 0..(MaxText + 1)] :
        /\ Outcome(c, q, ok) = d(s, p, t) /\ (q \in c.stopped => s # "complete")
        /\ Grows(c.text, t)
  <2>1. CASE ok
    <3>1. Outcome(c, q, ok) = d("complete", c.paused, [c.text EXCEPT ![q] = MaxText + 1])
      BY <1>1, <2>1 DEF Outcome
    <3>2. /\ [c.text EXCEPT ![q] = MaxText + 1] \in [Question -> 0..(MaxText + 1)]
          /\ Grows(c.text, [c.text EXCEPT ![q] = MaxText + 1])
      BY <1>1 DEF ChatGiven, Grows
    <3> HIDE DEF d
    <3> QED BY <1>0, <1>1, <2>1, <3>1, <3>2
  <2>2. CASE ~ok /\ q \in c.stopped
    <3>1. Outcome(c, q, ok) = d("interrupted", c.paused, c.text)
      BY <1>1, <2>2 DEF Outcome
    <3> HIDE DEF d
    <3> QED BY <1>0, <1>1, <2>2, <3>1
  <2>3. CASE ~ok /\ q \notin c.stopped
    <3>1. Outcome(c, q, ok) = d("failed", IF Unanswered(c) # {} THEN q ELSE c.paused, c.text)
      BY <1>1, <2>3 DEF Outcome
    <3> HIDE DEF d
    <3> QED BY <1>0, <1>1, <2>3, <3>1
  <2> QED BY <2>1, <2>2, <2>3
<1>3. [Outcome(c, q, ok) EXCEPT !.state[q] = "failed", !.paused = q] = d("failed", q, t)
  BY <1>1, <1>2 DEF Conversation
<1>4. Over(c, d(s, p, t), q) /\ Over(c, d("failed", q, t), q)
  BY <1>1, <1>2, DecidedOver
<1> HIDE DEF d
<1> QED BY <1>2, <1>3, <1>4

\* The job's steps belong to a dashboard that runs and that no crash left a doubt in.
LEMMA JobCertain ==
  ASSUME ChatInv, turn.pc # "idle"
  PROVE  alive /\ ~uncertain
  BY DEF ChatInv, ChatTyped, TurnFollows, CrashSeen, Idle

\* The job at hand.
LEMMA JobQuestion ==
  ASSUME ChatInv, turn.pc \in {"wait", "generate"}
  PROVE  /\ turn.q \in Question /\ conv.state[turn.q] \notin {"none", "queued"}
  BY DEF ChatInv, ChatTyped, TurnFollows, AtWork, ConversationsTruthful, Truthful

\* What is written: the conversation in memory, or nothing.
Written ==
  \/ saved' = conv' /\ checkpoint' = [checkpoint EXCEPT !.fresh = FALSE]
  \/ UNCHANGED <<saved, checkpoint>>

\* A reply ends, with or without its last save.
ReplyEnds(q) ==
  /\ turn.pc # "idle" /\ conv.state[q] # "none" /\ Over(conv, conv', q) /\ Written
  /\ turn' \in [pc : {"loop"}, q : Question \cup {"none"}]
  /\ UNCHANGED <<alive, suspended, accepted, asked, uncertain>> /\ faults' \in Nat

\* The job marks a waiting question as the one it works on.
JobTook(q) ==
  /\ turn.pc = "loop" /\ conv.state[q] = "queued"
  /\ conv' = [conv EXCEPT !.state[q] = "working"] /\ saved' = conv'
  /\ checkpoint' = [checkpoint EXCEPT !.fresh = FALSE] /\ turn' = [pc |-> "wait", q |-> q]
  /\ UNCHANGED <<alive, suspended, accepted, asked, uncertain, faults>>

\* The two ways a reply ends.
LEMMA SettlesOver ==
  ASSUME ChatGiven, ChatInv, turn.pc \in {"wait", "generate"}, NEW ok \in BOOLEAN, ok => turn.q \notin conv.stopped,
         Settles(conv, turn.q, ok), UNCHANGED <<alive, suspended, accepted, asked, uncertain>>
  PROVE  ReplyEnds(turn.q)
<1>1. turn.q \in Question /\ conv.state[turn.q] # "none" /\ conv \in Conversation /\ faults \in Nat
  BY JobQuestion DEF ChatInv, ChatTyped
<1> DEFINE e == Outcome(conv, turn.q, ok)
<1>2. Over(conv, e, turn.q) /\ Over(conv, [e EXCEPT !.state[turn.q] = "failed", !.paused = turn.q], turn.q)
  BY <1>1, OutcomeOver
<1>3. /\ turn' = [pc |-> "loop", q |-> "none"]
      /\ \/ Saves(e) /\ conv' = e
         \/ WriteFails /\ conv' = [e EXCEPT !.state[turn.q] = "failed", !.paused = turn.q]
  BY DEF Settles
<1> HIDE DEF e
<1> QED BY <1>1, <1>2, <1>3 DEF ReplyEnds, Written, Saves, WriteFails

LEMMA FailsOver ==
  ASSUME ChatGiven, ChatInv, turn.pc \in {"wait", "generate"}, faults' = faults + 1,
         conv' = Outcome(conv, turn.q, FALSE), saved' = conv',
         checkpoint' = [checkpoint EXCEPT !.fresh = FALSE], turn' = [pc |-> "loop", q |-> "none"],
         UNCHANGED <<alive, suspended, accepted, asked, uncertain>>
  PROVE  ReplyEnds(turn.q)
<1>1. turn.q \in Question /\ conv.state[turn.q] # "none" /\ conv \in Conversation /\ faults \in Nat
  BY JobQuestion DEF ChatInv, ChatTyped
<1>2. Over(conv, Outcome(conv, turn.q, FALSE), turn.q)
  BY <1>1, OutcomeOver
<1>3. Over(conv, conv', turn.q)
  BY <1>2
<1>4. turn' \in [pc : {"loop"}, q : Question \cup {"none"}] /\ faults' \in Nat
  BY <1>1
<1> QED BY <1>1, <1>3, <1>4 DEF ReplyEnds, Written

\* The steps of the job that change the conversation.
LEMMA JobEffect ==
  ASSUME ChatGiven, ChatInv, JobTakes \/ DispatchFails \/ Replied
  PROVE  \E q \in Question : JobTook(q) \/ ReplyEnds(q)
<1>1. CASE JobTakes
  <2> DEFINE q == First(conv)
             c == [conv EXCEPT !.state[q] = "working"]
  <2>1. q \in Question /\ conv.state[q] = "queued"
    <3>1. PICK p \in Question : conv.state[p] = "queued"
      BY <1>1 DEF JobTakes, Unanswered
    <3>2. conv.log \in Seq(Question) /\ \E i \in DOMAIN conv.log : conv.log[i] = p
      BY <3>1 DEF ChatInv, ChatTyped, Conversation, ConversationsTruthful, Truthful
    <3> QED BY <3>1, <3>2, FirstQueued
  <2> HIDE DEF q
  <2>2. /\ c \in Conversation /\ c.log = conv.log /\ c.stopped = conv.stopped /\ c.text = conv.text
        /\ c.state[q] = "working" /\ \A p \in Question \ {q} : c.state[p] = conv.state[p]
        /\ q \notin conv.stopped
    BY <2>1 DEF ChatInv, ChatTyped, Conversation, ReplyState, ConversationsTruthful, Truthful
  <2> HIDE DEF c
  <2>3. /\ Over(c, Outcome(c, q, FALSE), q)
        /\ Over(c, [Outcome(c, q, FALSE) EXCEPT !.state[q] = "failed", !.paused = q], q)
    BY <2>1, <2>2, OutcomeOver
  <2>4. Over(c, [c EXCEPT !.state[q] = "failed", !.paused = q], q)
    <3>1. /\ c.paused \in Question \cup {"none"} /\ c.text \in [Question -> 0..(MaxText + 1)]
          /\ Grows(c.text, c.text)
      BY <2>2 DEF Conversation, Grows
    <3>2. [c EXCEPT !.state[q] = "failed", !.paused = q] = [c EXCEPT !.state[q] = "failed", !.paused = q, !.text = c.text]
      BY <2>2 DEF Conversation
    <3>3. Over(c, [c EXCEPT !.state[q] = "failed", !.paused = q, !.text = c.text], q)
      BY <2>1, <2>2, <3>1, DecidedOver
    <3> QED BY <3>2, <3>3
  <2>5. \A d : Over(c, d, q) => Over(conv, d, q)
    BY <2>2 DEF Over
  <2>6. /\ turn.pc = "loop" /\ faults \in Nat /\ turn \in [pc : {"loop"}, q : Question \cup {"none"}]
        /\ UNCHANGED <<alive, suspended, accepted, asked, uncertain>>
    BY <1>1 DEF JobTakes, ChatInv, ChatTyped
  <2>7. CASE Saves(c) /\ conv' = c /\ turn' = [pc |-> "wait", q |-> q]
    BY <2>1, <2>6, <2>7 DEF JobTook, Saves, c
  <2>8. CASE /\ faults' = faults + 1 /\ conv' = Outcome(c, q, FALSE) /\ UNCHANGED turn
             /\ saved' = conv' /\ checkpoint' = [checkpoint EXCEPT !.fresh = FALSE]
    <3>1. Over(conv, conv', q)
      BY <2>3, <2>5, <2>8
    <3>2. Written /\ turn' \in [pc : {"loop"}, q : Question \cup {"none"}] /\ faults' \in Nat
      BY <2>6, <2>8 DEF Written
    <3>3. turn.pc # "idle" /\ conv.state[q] # "none"
      BY <2>1, <2>6
    <3> QED BY <2>1, <2>6, <3>1, <3>2, <3>3 DEF ReplyEnds
  <2>9. CASE /\ faults' = faults + 2 /\ conv' = [c EXCEPT !.state[q] = "failed", !.paused = q]
             /\ UNCHANGED <<saved, checkpoint, turn>>
    <3>1. Over(conv, conv', q)
      BY <2>4, <2>5, <2>9
    <3> QED BY <2>1, <2>6, <2>9, <3>1 DEF ReplyEnds, Written
  <2> QED BY <1>1, <2>7, <2>8, <2>9 DEF JobTakes, q, c
<1>2. CASE DispatchFails
  <2>1. turn.q \in Question
    BY <1>2, JobQuestion DEF DispatchFails
  <2>2. ReplyEnds(turn.q)
    BY <1>2, SettlesOver, FailsOver DEF DispatchFails
  <2> QED BY <2>1, <2>2
<1>3. CASE Replied
  <2>1. turn.q \in Question
    BY <1>3, JobQuestion DEF Replied
  <2>2. ReplyEnds(turn.q)
    BY <1>3, SettlesOver, FailsOver DEF Replied
  <2> QED BY <2>1, <2>2
<1> QED BY <1>1, <1>2, <1>3

\* A job begins at the end of a step only where nothing is paused.
TurnKept == turn' = turn \/ (turn.pc = "idle" /\ conv'.paused = "none" /\ turn' = [pc |-> "loop", q |-> "none"])

\* What the owner changes, and saves: a question more, a stop, or the end of a pause.
Edits(q) ==
  /\ alive /\ conv' \in Conversation /\ saved' = conv' /\ checkpoint' = [checkpoint EXCEPT !.fresh = FALSE]
  /\ conv'.text = conv.text /\ \A p \in Question \ {q} : conv'.state[p] = conv.state[p]
  /\ \A p \in Question : (\E i \in DOMAIN conv.log : conv.log[i] = p) => \E i \in DOMAIN conv'.log : conv'.log[i] = p
  /\ \/ /\ conv.state[q] = "none" /\ conv'.state[q] = "queued" /\ conv'.stopped = conv.stopped
        /\ \E i \in DOMAIN conv'.log : conv'.log[i] = q
        /\ accepted' = accepted \cup {q} /\ conv'.paused = conv.paused /\ UNCHANGED uncertain
     \/ /\ conv.state[q] \in {"working", "queued"} /\ conv'.state[q] = "interrupted"
        /\ conv'.stopped = conv.stopped \cup {q} /\ UNCHANGED accepted /\ uncertain' = FALSE
     \/ /\ conv'.state[q] = conv.state[q] /\ conv'.stopped = conv.stopped
        /\ UNCHANGED accepted /\ uncertain' = FALSE
  /\ TurnKept
  /\ UNCHANGED <<alive, suspended, asked, faults>>

\* A step that leaves the conversation and its files as they are.
Rests ==
  /\ UNCHANGED <<conv, saved, checkpoint, alive, accepted, asked, uncertain>>
  /\ faults' \in Nat /\ suspended' \in BOOLEAN
  /\ \/ turn' = turn
     \/ /\ ~uncertain /\ alive /\ turn.pc \in {"idle", "loop"}
        /\ turn' \in [pc : {"idle", "loop"}, q : Question \cup {"none"}]

\* A step of a reply that is at work: a part of it, a checkpoint or a save.
Streams ==
  /\ turn.pc = "generate" /\ turn.q \in Question /\ conv.state[turn.q] = "working"
  /\ \/ /\ conv' = [conv EXCEPT !.text[turn.q] = @ + 1] /\ conv.text[turn.q] < MaxText
        /\ UNCHANGED <<saved, checkpoint>>
     \/ /\ checkpoint' = [q |-> turn.q, text |-> conv.text[turn.q], fresh |-> TRUE]
        /\ UNCHANGED <<conv, saved>>
     \/ /\ saved' = conv /\ checkpoint' = [checkpoint EXCEPT !.fresh = FALSE] /\ UNCHANGED conv
  /\ UNCHANGED <<turn, alive, suspended, faults, accepted, asked, uncertain>>

\* Each step of the owner is one of these two.
LEMMA StartsKept ==
  ASSUME Starts(conv')
  PROVE  TurnKept
  BY DEF Starts, TurnKept

LEMMA SubmitEffect ==
  ASSUME ChatInv, NEW q \in Question, SubmitQuestion(q)
  PROVE  Edits(q) \/ Rests
<1> DEFINE c == [conv EXCEPT !.log = Append(@, q), !.state[q] = "queued"]
<1>1. /\ conv \in Conversation /\ faults \in Nat /\ suspended \in BOOLEAN
      /\ alive /\ q \notin Replies /\ UNCHANGED <<alive, suspended, asked, uncertain>>
  BY DEF ChatInv, ChatTyped, SubmitQuestion
<1>2. conv.state[q] = "none"
  BY <1>1 DEF ChatInv, ConversationsTruthful, Truthful, Replies
<1>3. /\ c.log = Append(conv.log, q) /\ c.state = [conv.state EXCEPT ![q] = "queued"]
      /\ c.text = conv.text /\ c.stopped = conv.stopped /\ c.paused = conv.paused
  BY <1>1 DEF Conversation
<1>4. c \in Conversation
  <2>1. Append(conv.log, q) \in Seq(Question) /\ [conv.state EXCEPT ![q] = "queued"] \in [Question -> ReplyState]
    BY <1>1 DEF Conversation, ReplyState
  <2> QED BY <1>1, <2>1 DEF Conversation
<1>5. \/ Saves(c) /\ conv' = c /\ accepted' = accepted \cup {q} /\ Starts(c)
      \/ WriteFails /\ UNCHANGED <<conv, accepted, turn>>
  BY DEF SubmitQuestion
<1>6. /\ c.state[q] = "queued" /\ \A p \in Question \ {q} : c.state[p] = conv.state[p]
      /\ \E i \in DOMAIN c.log : c.log[i] = q
      /\ \A p \in Question : (\E i \in DOMAIN conv.log : conv.log[i] = p) => \E i \in DOMAIN c.log : c.log[i] = p
  <2>1. conv.log \in Seq(Question) /\ conv.state \in [Question -> ReplyState]
    BY <1>1 DEF Conversation
  <2>2. /\ DOMAIN c.log = 1..(Len(conv.log) + 1) /\ c.log[Len(conv.log) + 1] = q
        /\ \A i \in 1..Len(conv.log) : c.log[i] = conv.log[i]
    BY <1>3, <2>1
  <2>3. Len(conv.log) + 1 \in 1..(Len(conv.log) + 1) /\ 1..Len(conv.log) \subseteq 1..(Len(conv.log) + 1)
        /\ DOMAIN conv.log = 1..Len(conv.log)
    BY <2>1
  <2>4. c.state[q] = "queued" /\ \A p \in Question \ {q} : c.state[p] = conv.state[p]
    BY <1>3, <2>1
  <2> HIDE DEF c
  <2> QED BY <2>2, <2>3, <2>4
<1> HIDE DEF c
<1>7. CASE Saves(c) /\ conv' = c /\ accepted' = accepted \cup {q} /\ Starts(c)
  <2>1. TurnKept
    BY <1>7, StartsKept
  <2>2. saved' = conv' /\ checkpoint' = [checkpoint EXCEPT !.fresh = FALSE] /\ UNCHANGED faults
    BY <1>7 DEF Saves
  <2> QED BY <1>1, <1>2, <1>3, <1>4, <1>6, <1>7, <2>1, <2>2 DEF Edits
<1>8. CASE WriteFails /\ UNCHANGED <<conv, accepted, turn>>
  BY <1>1, <1>8 DEF WriteFails, Rests
<1> QED BY <1>5, <1>7, <1>8

LEMMA StopEffect ==
  ASSUME ChatInv, NEW q \in Question, Stop(q)
  PROVE  Edits(q) \/ Rests
<1>1. /\ conv \in Conversation /\ faults \in Nat /\ suspended \in BOOLEAN
      /\ alive /\ conv.state[q] \in {"working", "queued"} /\ UNCHANGED <<turn, alive, suspended, accepted, asked>>
  BY DEF ChatInv, ChatTyped, Stop
<1>2. PICK p \in Question \cup {"none"} :
        \/ /\ Saves([conv EXCEPT !.state[q] = "interrupted", !.stopped = @ \cup {q}, !.paused = p])
           /\ conv' = [conv EXCEPT !.state[q] = "interrupted", !.stopped = @ \cup {q}, !.paused = p]
           /\ uncertain' = FALSE
        \/ WriteFails /\ UNCHANGED <<conv, uncertain>>
  BY DEF Stop
<1> DEFINE c == [conv EXCEPT !.state[q] = "interrupted", !.stopped = @ \cup {q}, !.paused = p]
<1>3. /\ c.log = conv.log /\ c.state = [conv.state EXCEPT ![q] = "interrupted"]
      /\ c.text = conv.text /\ c.stopped = conv.stopped \cup {q}
  BY <1>1 DEF Conversation
<1>4. c \in Conversation
  <2>1. [conv.state EXCEPT ![q] = "interrupted"] \in [Question -> ReplyState]
    BY <1>1 DEF Conversation, ReplyState
  <2> QED BY <1>1, <2>1 DEF Conversation
<1>5. c.state[q] = "interrupted" /\ \A x \in Question \ {q} : c.state[x] = conv.state[x]
  BY <1>1, <1>3 DEF Conversation
<1>6. (Saves(c) /\ conv' = c /\ uncertain' = FALSE) \/ (WriteFails /\ UNCHANGED <<conv, uncertain>>)
  BY <1>2
<1> HIDE DEF c
<1>7. CASE Saves(c) /\ conv' = c /\ uncertain' = FALSE
  <2>1. saved' = conv' /\ checkpoint' = [checkpoint EXCEPT !.fresh = FALSE] /\ UNCHANGED faults
    BY <1>7 DEF Saves
  <2> QED BY <1>1, <1>3, <1>4, <1>5, <1>7, <2>1 DEF Edits, TurnKept
<1>8. CASE WriteFails /\ UNCHANGED <<conv, uncertain>>
  BY <1>1, <1>8 DEF WriteFails, Rests
<1> QED BY <1>6, <1>7, <1>8

LEMMA ResumeEffect ==
  ASSUME ChatInv, Resume
  PROVE  Rests \/ \E q \in Question : Edits(q)
<1>1. /\ conv \in Conversation /\ faults \in Nat /\ suspended \in BOOLEAN
      /\ alive /\ conv.paused \in Question /\ UNCHANGED <<alive, suspended, accepted, asked>>
  BY DEF ChatInv, ChatTyped, Resume, Conversation
<1> DEFINE c == [conv EXCEPT !.paused = "none"]
<1>2. /\ c \in Conversation /\ c.log = conv.log /\ c.state = conv.state /\ c.text = conv.text
      /\ c.stopped = conv.stopped
  BY <1>1 DEF Conversation
<1>3. \/ Saves(c) /\ conv' = c /\ Starts(c) /\ uncertain' = FALSE
      \/ WriteFails /\ UNCHANGED <<conv, turn, uncertain>>
  BY DEF Resume
<1> HIDE DEF c
<1>4. CASE Saves(c) /\ conv' = c /\ Starts(c) /\ uncertain' = FALSE
  <2>1. TurnKept
    BY <1>4, StartsKept
  <2>2. saved' = conv' /\ checkpoint' = [checkpoint EXCEPT !.fresh = FALSE] /\ UNCHANGED faults
    BY <1>4 DEF Saves
  <2> QED BY <1>1, <1>2, <1>4, <2>1, <2>2 DEF Edits
<1>5. CASE WriteFails /\ UNCHANGED <<conv, turn, uncertain>>
  BY <1>1, <1>5 DEF WriteFails, Rests
<1> QED BY <1>3, <1>4, <1>5

\* Every step is one of these.
LEMMA ChatEffect ==
  ASSUME ChatGiven, ChatInv, [ChatNext]_chatVars
  PROVE  \/ \E q \in Question : Edits(q) \/ JobTook(q) \/ ReplyEnds(q)
         \/ Rests \/ Dispatches \/ Streams \/ DashboardCrashes \/ DashboardStarts
<1>1. ASSUME NEW q \in Question, SubmitQuestion(q) \/ Stop(q) PROVE Edits(q) \/ Rests
  BY <1>1, SubmitEffect, StopEffect
<1>2. CASE Tick \/ SetTestingMode \/ JobEnds \/ UNCHANGED chatVars
  <2>1. CASE Tick
    BY <2>1 DEF Tick, Starts, Rests, ChatInv, ChatTyped, CrashSeen
  <2>2. CASE SetTestingMode
    BY <2>2 DEF SetTestingMode, Rests, ChatInv, ChatTyped
  <2>3. CASE JobEnds
    BY <2>3, JobCertain DEF JobEnds, Rests, ChatInv, ChatTyped, Idle
  <2>4. CASE UNCHANGED chatVars
    BY <2>4 DEF chatVars, Rests, ChatInv, ChatTyped
  <2> QED BY <1>2, <2>1, <2>2, <2>3, <2>4
<1>3. CASE Delta \/ SaveProgress \/ ToolEvent
  <2>1. Accepting
    BY <1>3 DEF Delta, SaveProgress, ToolEvent
  <2>2. turn.pc = "generate" /\ turn.q \in Question /\ conv.state[turn.q] = "working"
    BY <2>1, JobQuestion DEF Accepting
  <2> QED BY <1>3, <2>2 DEF Delta, SaveProgress, ToolEvent, Saves, Streams
<1> QED BY <1>1, <1>2, <1>3, ResumeEffect, JobEffect DEF ChatNext

\* What a restart makes of the file: a reply that was at work is interrupted, with at
\* least the text that was saved, and pauses what waits behind it.
Restarted ==
  /\ conv' \in Conversation /\ saved' = conv' /\ alive' = TRUE
  /\ conv'.log = saved.log /\ conv'.stopped = saved.stopped
  /\ \A q \in Question : conv'.state[q] = IF saved.state[q] = "working" THEN "interrupted" ELSE saved.state[q]
  /\ Grows(saved.text, conv'.text)
  /\ saved.paused # "none" => conv'.paused # "none"
  /\ (\E q \in Question : saved.state[q] = "working") /\ Unanswered(saved) # {} => conv'.paused # "none"
  /\ UNCHANGED checkpoint \/ checkpoint' = [checkpoint EXCEPT !.fresh = FALSE]
  /\ UNCHANGED checkpoint => UNCHANGED saved \/ ~checkpoint.fresh
  /\ TurnKept /\ turn = Idle
  /\ UNCHANGED <<suspended, accepted, asked, uncertain, faults>>

\* Every start of the dashboard is such a restart.
LEMMA RestartEffect ==
  ASSUME ChatGiven, ChatInv, DashboardStarts
  PROVE  Restarted
<1> DEFINE r == Restored(saved)
           c == LoadedConversation(r)
<1>1. /\ saved \in Conversation /\ checkpoint.text \in 0..(MaxText + 1) /\ turn = Idle
      /\ UNCHANGED <<suspended, accepted, asked, uncertain>>
  BY DEF DashboardStarts, ChatInv, ChatTyped, TurnFollows
<1>2. /\ r \in Conversation /\ r.log = saved.log /\ r.stopped = saved.stopped
      /\ r.state = saved.state /\ r.paused = saved.paused /\ Grows(saved.text, r.text)
  <2>1. CASE checkpoint.fresh /\ saved.state[checkpoint.q] = "working"
    <3>1. checkpoint.q \in Question /\ checkpoint.text >= saved.text[checkpoint.q]
      BY <2>1 DEF ChatInv, TextsGrow
    <3>2. r = [saved EXCEPT !.text[checkpoint.q] = checkpoint.text]
      BY <2>1 DEF Restored
    <3> DEFINE t == [saved.text EXCEPT ![checkpoint.q] = checkpoint.text]
    <3>3. t \in [Question -> 0..(MaxText + 1)] /\ Grows(saved.text, t)
      BY <1>1, <3>1 DEF Conversation, Grows
    <3>4. /\ r.log = saved.log /\ r.stopped = saved.stopped /\ r.state = saved.state
          /\ r.paused = saved.paused /\ r.text = t
      BY <1>1, <3>2 DEF Conversation
    <3>5. r = [saved EXCEPT !.text = t]
      BY <3>2
    <3> HIDE DEF t
    <3>6. [saved EXCEPT !.text = t] \in Conversation
      BY <1>1, <3>3 DEF Conversation
    <3> QED BY <3>3, <3>4, <3>5, <3>6
  <2>2. CASE ~(checkpoint.fresh /\ saved.state[checkpoint.q] = "working")
    <3>1. r = saved
      BY <2>2 DEF Restored
    <3> QED BY <1>1, <3>1 DEF Conversation, Grows
  <2> QED BY <2>1, <2>2
<1> HIDE DEF r
<1> DEFINE cut == {q \in Question : r.state[q] = "working"}
           s == [q \in Question |-> IF q \in cut THEN "interrupted" ELSE r.state[q]]
           p == IF cut # {} /\ Unanswered(r) # {} THEN CHOOSE q \in cut : TRUE ELSE r.paused
<1>3. c = [r EXCEPT !.state = s, !.paused = p]
  BY DEF LoadedConversation
<1>4. /\ s \in [Question -> ReplyState] /\ p \in Question \cup {"none"}
      /\ cut # {} /\ Unanswered(r) # {} => p \in Question
      /\ r.paused # "none" => p # "none"
  BY <1>2 DEF ChatGiven, Conversation, ReplyState
<1>5. c \in Conversation
  <2> HIDE DEF c, s, p, cut
  <2> QED BY <1>2, <1>3, <1>4 DEF Conversation
<1>6. c.log = r.log /\ c.stopped = r.stopped /\ c.state = s /\ c.paused = p /\ c.text = r.text
  <2> HIDE DEF c, s, p, cut
  <2> QED BY <1>2, <1>3 DEF Conversation
<1>7. /\ conv' = c /\ alive' = TRUE /\ Starts(c)
      /\ IF c # saved THEN Saves(c) ELSE UNCHANGED <<saved, checkpoint, faults>>
  BY DEF DashboardStarts, r
<1>8. \A q \in Question : s[q] = IF saved.state[q] = "working" THEN "interrupted" ELSE saved.state[q]
  BY <1>2
<1>9. /\ saved.paused # "none" => p # "none"
      /\ (\E q \in Question : saved.state[q] = "working") /\ Unanswered(saved) # {} => p # "none"
  <2>1. Unanswered(r) = Unanswered(saved) /\ cut = {q \in Question : saved.state[q] = "working"}
    BY <1>2 DEF Unanswered
  <2> HIDE DEF p
  <2> QED BY <1>2, <1>4, <2>1 DEF ChatGiven
<1> HIDE DEF c, s, p, cut
<1>10. TurnKept
  BY <1>7, StartsKept
<1>11. /\ saved' = conv' /\ UNCHANGED faults
       /\ UNCHANGED checkpoint \/ checkpoint' = [checkpoint EXCEPT !.fresh = FALSE]
       /\ UNCHANGED checkpoint => UNCHANGED saved \/ ~checkpoint.fresh
  <2>1. checkpoint \in [q : Question \cup {"none"}, text : 0..(MaxText + 1), fresh : BOOLEAN]
    BY DEF ChatInv, ChatTyped
  <2>2. CASE c # saved
    BY <1>7, <2>1, <2>2 DEF Saves
  <2>3. CASE c = saved
    BY <1>7, <2>3
  <2> QED BY <2>2, <2>3
<1> QED BY <1>1, <1>2, <1>5, <1>6, <1>7, <1>8, <1>9, <1>10, <1>11 DEF Restarted

\* One lemma per part of the invariant.
LEMMA ChatTypedKept ==
  ASSUME ChatGiven, ChatInv, [ChatNext]_chatVars
  PROVE  ChatTyped'
<1> DEFINE Checkpoint == [q : Question \cup {"none"}, text : 0..(MaxText + 1), fresh : BOOLEAN]
           Turn == [pc : {"idle", "loop", "wait", "generate"}, q : Question \cup {"none"}]
<1>0. /\ conv \in Conversation /\ saved \in Conversation /\ checkpoint \in Checkpoint /\ turn \in Turn
      /\ alive \in BOOLEAN /\ suspended \in BOOLEAN /\ uncertain \in BOOLEAN
      /\ faults \in Nat /\ accepted \subseteq Question /\ asked \in [Question -> Nat]
      /\ [checkpoint EXCEPT !.fresh = FALSE] \in Checkpoint
      /\ Idle \in Turn /\ [pc |-> "loop", q |-> "none"] \in Turn
      /\ \A q \in Question : [pc |-> "wait", q |-> q] \in Turn
      /\ [turn EXCEPT !.pc = "generate"] \in Turn
  BY DEF ChatInv, ChatTyped, Idle
<1> SUFFICES /\ conv' \in Conversation /\ saved' \in Conversation /\ checkpoint' \in Checkpoint /\ turn' \in Turn
             /\ alive' \in BOOLEAN /\ suspended' \in BOOLEAN /\ uncertain' \in BOOLEAN
             /\ faults' \in Nat /\ accepted' \subseteq Question /\ asked' \in [Question -> Nat]
  BY DEF ChatTyped
<1> DEFINE Types == /\ conv' \in Conversation /\ saved' \in Conversation
                    /\ checkpoint' \in Checkpoint /\ turn' \in Turn
                    /\ alive' \in BOOLEAN /\ suspended' \in BOOLEAN /\ uncertain' \in BOOLEAN
                    /\ faults' \in Nat /\ accepted' \subseteq Question /\ asked' \in [Question -> Nat]
<1>1. ASSUME NEW q \in Question, Edits(q) PROVE Types
  <2>1. turn' \in Turn
    BY <1>0, <1>1 DEF Edits, TurnKept
  <2> HIDE DEF Turn, Checkpoint
  <2>2. accepted' \subseteq Question /\ uncertain' \in BOOLEAN
    BY <1>0, <1>1 DEF Edits
  <2> QED BY <1>0, <1>1, <2>1, <2>2 DEF Edits
<1>2. ASSUME NEW q \in Question, JobTook(q) PROVE Types
  <2>1. conv' \in Conversation
    BY <1>0, <1>2 DEF JobTook, Conversation, ReplyState
  <2> HIDE DEF Turn, Checkpoint
  <2> QED BY <1>0, <1>2, <2>1 DEF JobTook
<1>3. ASSUME NEW q \in Question, ReplyEnds(q) PROVE Types
  <2>1. turn' \in Turn
    BY <1>3 DEF ReplyEnds
  <2> HIDE DEF Turn, Checkpoint
  <2> QED BY <1>0, <1>3, <2>1 DEF ReplyEnds, Over, Written
<1>4. CASE Rests
  <2>1. turn' \in Turn
    BY <1>0, <1>4 DEF Rests
  <2> HIDE DEF Turn, Checkpoint
  <2> QED BY <1>0, <1>4, <2>1 DEF Rests
<1>5. CASE Dispatches
  <2>1. turn.q \in Question
    BY <1>5, JobQuestion DEF Dispatches
  <2>2. asked' \in [Question -> Nat]
    BY <1>0, <1>5, <2>1 DEF Dispatches
  <2> HIDE DEF Turn, Checkpoint
  <2> QED BY <1>0, <1>5, <2>2 DEF Dispatches, Saves
<1>6. CASE Streams
  <2>1. turn.q \in Question
    BY <1>6 DEF Streams
  <2>2. conv.text[turn.q] \in 0..(MaxText + 1) /\ conv.text \in [Question -> 0..(MaxText + 1)]
    BY <1>0, <2>1 DEF Conversation
  <2>3. CASE conv' = [conv EXCEPT !.text[turn.q] = @ + 1] /\ conv.text[turn.q] < MaxText /\ UNCHANGED <<saved, checkpoint>>
    <3> DEFINE n == conv.text[turn.q] + 1
    <3>1. n \in 0..(MaxText + 1)
      BY <2>2, <2>3 DEF ChatGiven
    <3>2. conv' = [conv EXCEPT !.text = [conv.text EXCEPT ![turn.q] = n]]
      BY <2>3
    <3> HIDE DEF n
    <3>3. [conv.text EXCEPT ![turn.q] = n] \in [Question -> 0..(MaxText + 1)]
      BY <2>2, <3>1
    <3>4. conv' \in Conversation
      BY <1>0, <3>2, <3>3 DEF Conversation
    <3> HIDE DEF Turn, Checkpoint
    <3> QED BY <1>0, <1>6, <2>3, <3>4 DEF Streams
  <2>4. CASE checkpoint' = [q |-> turn.q, text |-> conv.text[turn.q], fresh |-> TRUE] /\ UNCHANGED <<conv, saved>>
    <3>1. checkpoint' \in Checkpoint
      BY <2>1, <2>2, <2>4
    <3> HIDE DEF Turn, Checkpoint
    <3> QED BY <1>0, <1>6, <2>4, <3>1 DEF Streams
  <2>5. CASE saved' = conv /\ checkpoint' = [checkpoint EXCEPT !.fresh = FALSE] /\ UNCHANGED conv
    <3> HIDE DEF Turn, Checkpoint
    <3> QED BY <1>0, <1>6, <2>5 DEF Streams
  <2> QED BY <1>6, <2>3, <2>4, <2>5 DEF Streams
<1>7. CASE DashboardCrashes
  <2>1. uncertain' \in BOOLEAN
    BY <1>0, <1>7 DEF DashboardCrashes
  <2>2. alive' \in BOOLEAN /\ suspended' \in BOOLEAN
    BY <1>0, <1>7 DEF DashboardCrashes
  <2>3. /\ turn' = Idle /\ faults' = faults + 1
        /\ UNCHANGED <<conv, saved, checkpoint, accepted, asked>>
    BY <1>7 DEF DashboardCrashes
  <2> HIDE DEF Turn, Checkpoint
  <2>4. /\ conv' \in Conversation /\ saved' \in Conversation /\ checkpoint' \in Checkpoint
        /\ turn' \in Turn /\ faults' \in Nat /\ accepted' \subseteq Question /\ asked' \in [Question -> Nat]
    BY <1>0, <2>3
  <2> QED BY <2>1, <2>2, <2>4
<1>8. CASE DashboardStarts
  <2>1. Restarted
    BY <1>8, RestartEffect
  <2>2. turn' \in Turn
    BY <1>0, <2>1 DEF Restarted, TurnKept
  <2> HIDE DEF Turn, Checkpoint
  <2> QED BY <1>0, <2>1, <2>2 DEF Restarted
<1> QED BY <1>1, <1>2, <1>3, <1>4, <1>5, <1>6, <1>7, <1>8, ChatEffect

LEMMA TruthfulKept ==
  ASSUME ChatGiven, ChatInv, [ChatNext]_chatVars
  PROVE  ConversationsTruthful'
<1> DEFINE Known(c) == \A p \in Question : c.state[p] # "none" => p \in accepted' /\ \E i \in DOMAIN c.log : c.log[i] = p
           Unasked(c) == \A p \in Question : c.state[p] \in {"none", "queued"} => asked'[p] = 0
           Stopped(c) == \A p \in c.stopped : c.state[p] \in {"interrupted", "failed"}
<1>0. /\ Truthful(conv) /\ Truthful(saved) /\ conv \in Conversation /\ saved \in Conversation
  BY DEF ChatInv, ChatTyped, ConversationsTruthful
<1> SUFFICES Known(conv') /\ Unasked(conv') /\ Stopped(conv') /\ Known(saved') /\ Unasked(saved') /\ Stopped(saved')
  BY DEF ConversationsTruthful, Truthful
<1> DEFINE Holds == Known(conv') /\ Unasked(conv') /\ Stopped(conv') /\ Known(saved') /\ Unasked(saved') /\ Stopped(saved')
<1>1. ASSUME NEW q \in Question, Edits(q) PROVE Holds
  <2>1. \A p \in Question \ {q} : conv'.state[p] = conv.state[p]
    BY <1>1 DEF Edits
  <2>2. \A p \in Question : conv.state[p] # "none" => p \in accepted' /\ \E i \in DOMAIN conv'.log : conv'.log[i] = p
    BY <1>0, <1>1 DEF Edits, Truthful
  <2>3. conv'.state[q] # "none" => q \in accepted' /\ \E i \in DOMAIN conv'.log : conv'.log[i] = q
    BY <1>1, <2>2 DEF Edits
  <2>4. Known(conv')
    BY <2>1, <2>2, <2>3
  <2>5. Unasked(conv')
    BY <1>0, <1>1, <2>1 DEF Edits, Truthful
  <2>6. Stopped(conv')
    <3>1. \A p \in conv.stopped : p \in Question /\ conv.state[p] \in {"interrupted", "failed"}
      BY <1>0 DEF Truthful, Conversation
    <3>2. \A p \in conv'.stopped : p \in Question
      BY <1>1 DEF Edits, Conversation
    <3>3. CASE conv'.stopped = conv.stopped /\ (conv.state[q] = "none" \/ conv'.state[q] = conv.state[q])
      BY <2>1, <3>1, <3>3
    <3>4. CASE conv'.stopped = conv.stopped \cup {q} /\ conv'.state[q] = "interrupted"
      BY <2>1, <3>1, <3>4
    <3> QED BY <1>1, <3>3, <3>4 DEF Edits
  <2>7. saved' = conv'
    BY <1>1 DEF Edits
  <2> QED BY <2>4, <2>5, <2>6, <2>7
<1>2. ASSUME NEW q \in Question, JobTook(q) PROVE Holds
  <2>1. /\ conv'.log = conv.log /\ conv'.stopped = conv.stopped /\ conv'.state[q] = "working"
        /\ \A p \in Question \ {q} : conv'.state[p] = conv.state[p]
    BY <1>0, <1>2 DEF JobTook, Conversation
  <2>2. saved' = conv' /\ UNCHANGED <<accepted, asked>> /\ conv.state[q] = "queued"
    BY <1>2 DEF JobTook
  <2>3. Known(conv') /\ Unasked(conv')
    BY <1>0, <2>1, <2>2 DEF Truthful
  <2>4. Stopped(conv')
    BY <1>0, <2>1, <2>2 DEF Truthful, Conversation
  <2> QED BY <2>2, <2>3, <2>4
<1>3. ASSUME NEW q \in Question, ReplyEnds(q) PROVE Holds
  <2>1. Over(conv, conv', q) /\ conv.state[q] # "none" /\ UNCHANGED <<accepted, asked>>
    BY <1>3 DEF ReplyEnds
  <2>2. Known(conv') /\ Unasked(conv')
    BY <1>0, <2>1 DEF Over, Truthful
  <2>3. Stopped(conv')
    BY <1>0, <2>1 DEF Over, Truthful, Conversation
  <2>4. saved' = conv' \/ saved' = saved
    BY <1>3 DEF ReplyEnds, Written
  <2> QED BY <1>0, <2>1, <2>2, <2>3, <2>4 DEF Truthful
<1>4. CASE Rests \/ DashboardCrashes
  BY <1>0, <1>4 DEF Rests, DashboardCrashes, Truthful
<1>5. CASE Dispatches
  <2>1. turn.q \in Question /\ conv.state[turn.q] \notin {"none", "queued"}
    BY <1>5, JobQuestion DEF Dispatches
  <2>2. conv' = conv /\ saved' = conv /\ UNCHANGED accepted /\ \A p \in Question \ {turn.q} : asked'[p] = asked[p]
    BY <1>5, <2>1 DEF Dispatches, Saves, ChatInv, ChatTyped
  <2> QED BY <1>0, <2>1, <2>2 DEF Truthful
<1>6. CASE Streams
  <2>1. conv'.log = conv.log /\ conv'.stopped = conv.stopped /\ conv'.state = conv.state
    BY <1>0, <1>6 DEF Streams, Conversation
  <2>2. UNCHANGED <<accepted, asked>> /\ saved' \in {saved, conv}
    BY <1>6 DEF Streams
  <2> QED BY <1>0, <2>1, <2>2 DEF Truthful
<1>7. CASE DashboardStarts
  <2>1. /\ saved' = conv' /\ conv'.log = saved.log /\ conv'.stopped = saved.stopped /\ UNCHANGED <<accepted, asked>>
        /\ \A q \in Question : conv'.state[q] = IF saved.state[q] = "working" THEN "interrupted" ELSE saved.state[q]
    BY <1>7, RestartEffect DEF Restarted
  <2>2. Known(conv') /\ Unasked(conv')
    BY <1>0, <2>1 DEF Truthful
  <2>3. Stopped(conv')
    BY <1>0, <2>1 DEF Truthful, Conversation
  <2> QED BY <2>1, <2>2, <2>3
<1> QED BY <1>1, <1>2, <1>3, <1>4, <1>5, <1>6, <1>7, ChatEffect

LEMMA TurnFollowsKept ==
  ASSUME ChatGiven, ChatInv, [ChatNext]_chatVars
  PROVE  TurnFollows'
<1> USE DEF TurnFollows, AtWork
<1>0. TurnFollows /\ conv \in Conversation /\ Truthful(conv) /\ Truthful(saved)
  BY DEF ChatInv, ChatTyped, ConversationsTruthful
<1>1. ASSUME NEW q \in Question, Edits(q) PROVE TurnFollows'
  <2>1. turn' = turn \/ turn'.pc = "loop"
    BY <1>1 DEF Edits, TurnKept
  <2>2. alive' /\ saved' = conv' /\ UNCHANGED asked
    BY <1>1 DEF Edits
  <2>3. CASE turn.pc \in {"wait", "generate"} /\ turn' = turn
    <3>1. turn.q \in Question /\ conv.state[turn.q] \notin {"none", "queued"}
      BY <2>3, JobQuestion
    <3>2. turn.q \in accepted'
      BY <1>0, <1>1, <2>3 DEF Edits
    <3>3. turn.q \in conv'.stopped \/ (turn.q \notin conv.stopped /\ conv'.state[turn.q] = conv.state[turn.q])
      BY <1>1, <3>1 DEF Edits
    <3> QED BY <1>0, <2>2, <2>3, <3>2, <3>3
  <2> QED BY <2>1, <2>2, <2>3
<1>2. ASSUME NEW q \in Question, JobTook(q) PROVE TurnFollows'
  <2>1. turn' = [pc |-> "wait", q |-> q] /\ q \in accepted' /\ asked'[q] = 0 /\ alive'
    BY <1>0, <1>2, JobCertain DEF JobTook, Truthful
  <2>2. conv'.state[q] = "working" /\ saved' = conv'
    BY <1>0, <1>2 DEF JobTook, Conversation
  <2> QED BY <2>1, <2>2
<1>3. ASSUME NEW q \in Question, ReplyEnds(q) PROVE TurnFollows'
  <2>1. turn'.pc = "loop" /\ alive'
    BY <1>3, JobCertain DEF ReplyEnds
  <2> QED BY <2>1
<1>4. CASE Rests
  BY <1>0, <1>4 DEF Rests
<1>5. CASE Dispatches
  <2>1. turn.q \in accepted /\ turn.q \notin conv.stopped /\ conv.state[turn.q] = "working" /\ alive
    BY <1>0, <1>5, JobCertain DEF Dispatches
  <2>2. turn'.pc = "generate" /\ turn'.q = turn.q
    BY <1>5 DEF Dispatches, ChatInv, ChatTyped
  <2> QED BY <1>5, <2>1, <2>2 DEF Dispatches, Saves
<1>6. CASE Streams
  <2>1. conv'.stopped = conv.stopped /\ conv'.state = conv.state
    BY <1>0, <1>6 DEF Streams, Conversation
  <2>2. UNCHANGED <<turn, alive, accepted, asked>> /\ saved' \in {saved, conv}
    BY <1>6 DEF Streams
  <2> QED BY <1>0, <2>1, <2>2
<1>7. CASE DashboardCrashes
  BY <1>7 DEF DashboardCrashes, Idle
<1>8. CASE DashboardStarts
  <2>1. alive' /\ turn'.pc \in {"idle", "loop"}
    BY <1>8, RestartEffect DEF Restarted, TurnKept, Idle
  <2> QED BY <2>1
<1> QED BY <1>1, <1>2, <1>3, <1>4, <1>5, <1>6, <1>7, <1>8, ChatEffect

LEMMA CrashSeenKept ==
  ASSUME ChatGiven, ChatInv, [ChatNext]_chatVars
  PROVE  CrashSeen'
<1> USE DEF CrashSeen
<1>0. CrashSeen /\ conv \in Conversation /\ TurnFollows
  BY DEF ChatInv, ChatTyped
<1>1. ASSUME NEW q \in Question, Edits(q) PROVE CrashSeen'
  <2> SUFFICES ASSUME uncertain' PROVE turn' = Idle /\ conv'.paused # "none" /\ saved'.paused # "none"
    BY <1>1 DEF Edits
  <2>1. uncertain /\ alive /\ conv'.paused = conv.paused /\ saved' = conv'
    BY <1>1 DEF Edits
  <2> QED BY <1>0, <1>1, <2>1 DEF Edits, TurnKept
<1>2. ASSUME NEW q \in Question, JobTook(q) \/ ReplyEnds(q) PROVE CrashSeen'
  BY <1>2, JobCertain DEF JobTook, ReplyEnds
<1>3. CASE Dispatches \/ Streams
  BY <1>3, JobCertain DEF Dispatches, Streams
<1>4. CASE Rests
  BY <1>0, <1>4 DEF Rests, Unanswered
<1>5. CASE DashboardCrashes
  <2> SUFFICES ASSUME uncertain'
               PROVE  saved.paused # "none" \/ (Unanswered(saved) # {} /\ \E q \in Question : saved.state[q] = "working")
    BY <1>5 DEF DashboardCrashes, Unanswered
  <2>1. CASE uncertain
    BY <1>0, <1>5, <2>1 DEF DashboardCrashes
  <2>2. CASE Accepting /\ Unanswered(saved) # {}
    <3>1. turn.q \in Question /\ turn.pc = "generate" /\ conv.state[turn.q] = "working"
      BY <2>2, JobQuestion DEF Accepting
    <3>2. turn.q \notin conv.stopped
      BY <3>1 DEF ChatInv, ConversationsTruthful, Truthful
    <3>3. saved.state[turn.q] = "working"
      BY <1>0, <3>1, <3>2 DEF TurnFollows, AtWork
    <3> QED BY <2>2, <3>1, <3>3
  <2> QED BY <1>5, <2>1, <2>2 DEF DashboardCrashes
<1>6. CASE DashboardStarts
  <2>1. Restarted /\ ~alive
    BY <1>6, RestartEffect DEF DashboardStarts
  <2> SUFFICES ASSUME uncertain' PROVE turn' = Idle /\ conv'.paused # "none" /\ saved'.paused # "none"
    BY <2>1 DEF Restarted
  <2>2. conv'.paused # "none"
    BY <1>0, <2>1 DEF Restarted
  <2> QED BY <2>1, <2>2 DEF Restarted, TurnKept
<1> QED BY <1>1, <1>2, <1>3, <1>4, <1>5, <1>6, ChatEffect

\* No save loses a part of a text.
LEMMA TextsGrowKept ==
  ASSUME ChatGiven, ChatInv, [ChatNext]_chatVars
  PROVE  TextsGrow' /\ \A q \in Question : saved'.text[q] >= saved.text[q]
<1> DEFINE Covers == checkpoint'.fresh =>
                       checkpoint'.q \in Question /\ checkpoint'.text >= saved'.text[checkpoint'.q]
           Ahead == alive' => Grows(saved'.text, conv'.text)
           Holds == Covers /\ Ahead /\ Grows(saved.text, saved'.text)
<1>0. /\ TextsGrow /\ conv.text \in [Question -> Nat] /\ saved.text \in [Question -> Nat]
      /\ checkpoint \in [q : Question \cup {"none"}, text : 0..(MaxText + 1), fresh : BOOLEAN]
  <2>1. TextsGrow /\ conv \in Conversation /\ saved \in Conversation
    BY DEF ChatInv, ChatTyped
  <2>2. \A c \in Conversation : c.text \in [Question -> Nat]
    BY DEF ChatGiven, Conversation
  <2>3. checkpoint \in [q : Question \cup {"none"}, text : 0..(MaxText + 1), fresh : BOOLEAN]
    BY DEF ChatInv, ChatTyped
  <2> QED BY <2>1, <2>2, <2>3
<1>1. alive => Grows(saved.text, conv.text)
  BY <1>0 DEF TextsGrow, Grows
<1>2. \A t \in [Question -> Nat] : Grows(t, t)
  BY DEF Grows
<1>3. \A t, u, v \in [Question -> Nat] : Grows(t, u) /\ Grows(u, v) => Grows(t, v)
  <2> SUFFICES ASSUME NEW t \in [Question -> Nat], NEW u \in [Question -> Nat], NEW v \in [Question -> Nat],
                      Grows(t, u), Grows(u, v), NEW q \in Question
               PROVE  v[q] >= t[q]
    BY DEF Grows
  <2>1. t[q] \in Nat /\ u[q] \in Nat /\ v[q] \in Nat /\ u[q] >= t[q] /\ v[q] >= u[q]
    BY DEF Grows
  <2> QED BY <2>1
<1>4. conv'.text \in [Question -> Nat] /\ saved'.text \in [Question -> Nat]
  <2>1. conv' \in Conversation /\ saved' \in Conversation
    BY ChatTypedKept DEF ChatTyped
  <2>2. \A c \in Conversation : c.text \in [Question -> Nat]
    BY DEF ChatGiven, Conversation
  <2> QED BY <2>1, <2>2
<1>5. [checkpoint EXCEPT !.fresh = FALSE].fresh = FALSE
  BY <1>0
<1> SUFFICES Holds
  BY DEF TextsGrow, Grows
<1> HIDE DEF Covers
<1>6. checkpoint' = [checkpoint EXCEPT !.fresh = FALSE] => Covers
  BY <1>5 DEF Covers
<1>7. UNCHANGED <<saved, checkpoint>> => Covers
  BY <1>0 DEF TextsGrow, Covers
<1>8. ASSUME NEW q \in Question, Edits(q) PROVE Holds
  BY <1>0, <1>1, <1>2, <1>6, <1>8 DEF Edits
<1>9. ASSUME NEW q \in Question, JobTook(q) PROVE Holds
  <2>1. conv'.text = conv.text
    BY <1>9 DEF JobTook, ChatInv, ChatTyped, Conversation
  <2>2. saved' = conv' /\ alive /\ checkpoint' = [checkpoint EXCEPT !.fresh = FALSE]
    BY <1>9, JobCertain DEF JobTook
  <2> QED BY <1>0, <1>1, <1>2, <1>6, <2>1, <2>2
<1>10. ASSUME NEW q \in Question, ReplyEnds(q) PROVE Holds
  <2>1. Grows(conv.text, conv'.text) /\ alive /\ Written
    BY <1>10, JobCertain DEF ReplyEnds, Over
  <2>2. Grows(saved.text, conv'.text)
    BY <1>0, <1>1, <1>3, <1>4, <2>1
  <2> QED BY <1>0, <1>2, <1>4, <1>6, <1>7, <2>1, <2>2 DEF Written
<1>11. CASE Rests
  BY <1>0, <1>1, <1>2, <1>7, <1>11 DEF Rests
<1>12. CASE Dispatches
  BY <1>0, <1>1, <1>2, <1>6, <1>12, JobCertain DEF Dispatches, Saves
<1>13. CASE Streams
  <2>1. alive /\ turn.q \in Question
    BY <1>13, JobCertain DEF Streams
  <2>2. CASE conv' = [conv EXCEPT !.text[turn.q] = @ + 1] /\ UNCHANGED <<saved, checkpoint>>
    <3>1. conv'.text = [conv.text EXCEPT ![turn.q] = conv.text[turn.q] + 1]
      BY <2>2 DEF ChatInv, ChatTyped, Conversation
    <3>2. Grows(conv.text, conv'.text)
      BY <1>0, <2>1, <3>1 DEF Grows
    <3> QED BY <1>0, <1>1, <1>2, <1>3, <1>4, <1>7, <2>1, <2>2, <3>2
  <2>3. CASE /\ checkpoint' = [q |-> turn.q, text |-> conv.text[turn.q], fresh |-> TRUE]
             /\ UNCHANGED <<conv, saved>>
    <3>1. Covers
      BY <1>1, <2>1, <2>3 DEF Covers, Grows
    <3> QED BY <1>0, <1>1, <1>2, <2>1, <2>3, <3>1
  <2>4. CASE saved' = conv /\ checkpoint' = [checkpoint EXCEPT !.fresh = FALSE] /\ UNCHANGED conv
    BY <1>0, <1>1, <1>2, <1>6, <2>1, <2>4
  <2> QED BY <1>13, <2>2, <2>3, <2>4 DEF Streams
<1>14. CASE DashboardCrashes
  BY <1>0, <1>2, <1>7, <1>14 DEF DashboardCrashes
<1>15. CASE DashboardStarts
  <2>1. /\ saved' = conv' /\ Grows(saved.text, conv'.text)
        /\ UNCHANGED checkpoint \/ checkpoint' = [checkpoint EXCEPT !.fresh = FALSE]
        /\ UNCHANGED checkpoint => UNCHANGED saved \/ ~checkpoint.fresh
    BY <1>15, RestartEffect DEF Restarted
  <2>2. UNCHANGED checkpoint /\ ~checkpoint.fresh => Covers
    BY DEF Covers
  <2> QED BY <1>2, <1>4, <1>6, <1>7, <2>1, <2>2
<1> QED BY <1>8, <1>9, <1>10, <1>11, <1>12, <1>13, <1>14, <1>15, ChatEffect

\* A question is asked once, and never while the owner has not seen a crash.
LEMMA AskedKept ==
  ASSUME ChatGiven, ChatInv, [ChatNext]_chatVars
  PROVE  /\ \A q \in Question : asked'[q] <= 1
         /\ asked' # asked => ~uncertain
<1>1. CASE Dispatches
  <2>1. turn.q \in Question /\ asked[turn.q] = 0 /\ ~uncertain
    BY <1>1, JobQuestion, JobCertain DEF Dispatches, ChatInv, TurnFollows
  <2>2. asked' = [asked EXCEPT ![turn.q] = asked[turn.q] + 1] /\ asked \in [Question -> Nat]
    BY <1>1 DEF Dispatches, ChatInv, ChatTyped
  <2> QED BY <2>1, <2>2 DEF ChatInv
<1>2. CASE UNCHANGED asked
  BY <1>2 DEF ChatInv
<1>3. Dispatches \/ UNCHANGED asked
  BY ChatEffect, RestartEffect DEF Edits, JobTook, ReplyEnds, Rests, Streams, DashboardCrashes, Restarted
<1> QED BY <1>1, <1>2, <1>3

LEMMA ChatInitial == ASSUME ChatGiven PROVE ChatInit => ChatInv
<1> SUFFICES ASSUME ChatInit PROVE ChatInv
  OBVIOUS
<1>1. /\ conv.log = <<>> /\ conv.state = [q \in Question |-> "none"] /\ conv.stopped = {}
      /\ conv.paused = "none" /\ conv.text = [q \in Question |-> 0] /\ saved = conv
      /\ checkpoint = [q |-> "none", text |-> 0, fresh |-> FALSE] /\ turn = Idle
      /\ asked = [q \in Question |-> 0] /\ uncertain = FALSE
  BY DEF ChatInit
<1>2. conv \in Conversation
  <2>1. /\ <<>> \in Seq(Question) /\ [q \in Question |-> "none"] \in [Question -> ReplyState]
        /\ [q \in Question |-> 0] \in [Question -> 0..(MaxText + 1)]
    BY DEF ChatGiven, ReplyState
  <2> QED BY <2>1 DEF ChatInit, Conversation
<1>3. ChatTyped
  <2>1. checkpoint \in [q : Question \cup {"none"}, text : 0..(MaxText + 1), fresh : BOOLEAN]
    BY <1>1 DEF ChatGiven
  <2>2. turn \in [pc : {"idle", "loop", "wait", "generate"}, q : Question \cup {"none"}]
    BY <1>1 DEF Idle
  <2>3. asked \in [Question -> Nat] /\ faults \in Nat /\ accepted \subseteq Question
    BY <1>1 DEF ChatInit
  <2>4. alive \in BOOLEAN /\ suspended \in BOOLEAN /\ uncertain \in BOOLEAN
    BY DEF ChatInit
  <2> QED BY <1>1, <1>2, <2>1, <2>2, <2>3, <2>4 DEF ChatTyped
<1>4. Truthful(conv)
  BY <1>1 DEF Truthful
<1> QED BY <1>1, <1>3, <1>4 DEF ChatInv, ConversationsTruthful, TurnFollows, CrashSeen, TextsGrow, Idle

LEMMA ChatStep == ASSUME ChatGiven PROVE ChatInv /\ [ChatNext]_chatVars => ChatInv'
  BY ChatTypedKept, TruthfulKept, TurnFollowsKept, CrashSeenKept, TextsGrowKept, AskedKept DEF ChatInv

\* The inductive invariant of Genie's conversation holds in every reachable state.
THEOREM ChatInvariant == ASSUME ChatGiven PROVE ChatSpec => []ChatInv
  BY ChatInitial, ChatStep, PTL DEF ChatSpec

\* No question is put to the model twice or unaccepted, and a stopped reply never turns
\* into an answer, whatever saves fail and wherever the dashboard crashes
\* (genie-chat.mjs), for any questions and any number of faults.
THEOREM QuestionsCorrect == ASSUME ChatGiven PROVE ChatSpec => []AskedByOwner
<1>1. ChatInv => AskedByOwner
  <2> SUFFICES ASSUME ChatInv PROVE AskedByOwner
    OBVIOUS
  <2>1. AskedOnce
    BY DEF AskedOnce, ChatInv
  <2>2. RefusedNotSent
    BY DEF RefusedNotSent, ChatInv, ChatTyped, ConversationsTruthful, Truthful
  <2>3. StopWins
    BY DEF StopWins, ChatInv, ConversationsTruthful, Truthful
  <2> QED BY <2>1, <2>2, <2>3 DEF AskedByOwner
<1> QED BY <1>1, ChatInvariant, PTL

\* After a crash that cut a reply short nothing is asked before the owner decides, and
\* what was saved of an answer is never lost again (genie-chat.mjs).
THEOREM CrashCorrect == ASSUME ChatGiven PROVE ChatSpec => CrashRespected
<1>1. ChatInv /\ [ChatNext]_chatVars => [OwnerDecides /\ PartialKept]_chatVars
  BY AskedKept, TextsGrowKept DEF OwnerDecides, PartialKept
<1> QED BY <1>1, ChatInvariant, PTL DEF ChatSpec, CrashRespected

-----------------------------------------------------------------------------
(* The admission of an endpoint.                                           *)

AdmissionSpec == AdmissionInit /\ [][AdmissionNext]_admissionVars

StageName == {"remove-dead", "add-worker", "route", "restart", "verify"}

\* A stage has a record's fields, is one of the five, and acts after the stages before it,
\* on what its proposal names, unless an inspection ended meanwhile.
Formed(r) == r = [name |-> r.name, draft |-> r.draft, before |-> r.before, at |-> r.at, read |-> r.read,
                  left |-> r.left, worker |-> r.worker, overlapped |-> r.overlapped]
Ordered(run) == ~run.draft.torn => \A s \in StagesBefore(run) : <<run.draft.number, s>> \in Range(run.before)
RunSound ==
  stageRun # NoStage =>
    /\ stageRun.name \in StageName /\ Ordered(stageRun)
    /\ stageRun.name = "add-worker" /\ stageRun.at = "acting" => ~Registered(stageRun.read, stageRun.worker)
    /\ ~stageRun.overlapped =>
         /\ stageRun.name \in {"add-worker", "verify"} /\ stageRun.at = "acting"
              => stageRun.worker = stageRun.draft.id
         /\ stageRun.left \subseteq stageRun.draft.removal

\* It is the next stage of the present draft, or that draft is torn.
RunNext ==
  stageRun # NoStage =>
    /\ stageRun.overlapped => draft.torn
    /\ ~stageRun.overlapped => stageRun.draft = draft
    /\ ~draft.torn => Len(completed) < Len(Expected(draft)) /\ stageRun.name = Expected(draft)[Len(completed) + 1]

\* The stages of a draft that is not torn are completed in their order, each for that draft.
StagesInOrder ==
  ~draft.torn =>
    /\ Len(completed) <= Len(Expected(draft))
    /\ \A i \in 1..Len(completed) : completed[i] = <<draft.number, Expected(draft)[i]>>

\* Proposals are numbered, and the completed stages carry the number of theirs.
ProposalsNumbered ==
  /\ look.begun \in Nat /\ \A l \in look.open : l.number \in Nat
  /\ draft.number \in Nat /\ stageRun.draft.number \in Nat
  /\ completed \in Seq(Nat \X StageName)

AdmissionInv == Formed(stageRun) /\ ProposalsNumbered /\ RunSound /\ RunNext /\ StagesInOrder /\ AdmissionSound

\* The stages of a draft are those of StageOrder, without the first if nothing is dead.
Skipped(d) == IF d.removal = {} THEN 1 ELSE 0
LEMMA StageOrders ==
  /\ Len(StageOrder) = 5 /\ StageOrder \in Seq(StageName)
  /\ StageOrder[1] = "remove-dead" /\ StageOrder[2] = "add-worker" /\ StageOrder[3] = "route"
  /\ StageOrder[4] = "restart" /\ StageOrder[5] = "verify"
BY DEF StageOrder, StageName

LEMMA StagesApart ==
  \A i, j \in 1..5 : StageOrder[i] = StageOrder[j] => i = j
<1> SUFFICES ASSUME NEW i \in 1..5, NEW j \in 1..5, StageOrder[i] = StageOrder[j] PROVE i = j
  OBVIOUS
<1>1. i \in {1, 2, 3, 4, 5} /\ j \in {1, 2, 3, 4, 5}
  OBVIOUS
<1> QED BY <1>1, StageOrders

LEMMA ExpectedStages ==
  ASSUME NEW d
  PROVE  /\ Expected(d) \in Seq(StageName) /\ Len(Expected(d)) = 5 - Skipped(d) /\ Skipped(d) \in {0, 1}
         /\ \A i \in 1..Len(Expected(d)) : Expected(d)[i] = StageOrder[i + Skipped(d)] /\ Expected(d)[i] \in StageName
<1>1. CASE d.removal = {}
  <2>1. Expected(d) = Tail(StageOrder) /\ Skipped(d) = 1
    BY <1>1 DEF Expected, Skipped
  <2>2. StageOrder # << >>
    BY StageOrders
  <2>3. /\ Tail(StageOrder) \in Seq(StageName) /\ Len(Tail(StageOrder)) = 4
        /\ \A i \in 1..4 : Tail(StageOrder)[i] = StageOrder[i + 1]
    <3>1. ASSUME NEW q \in Seq(StageName), Len(q) = 5, q # << >>
          PROVE  /\ Tail(q) \in Seq(StageName) /\ Len(Tail(q)) = 4
                 /\ \A i \in 1..4 : Tail(q)[i] = q[i + 1]
      <4> DEFINE rest == Tail(q)
      <4>1. /\ rest \in Seq(StageName) /\ Len(rest) = Len(q) - 1
            /\ \A i \in 1..Len(rest) : rest[i] = q[i + 1]
        BY <3>1, HeadTailProperties, Zenon
      <4> HIDE DEF rest
      <4>2. Len(rest) = 4
        BY <3>1, <4>1
      <4>3. rest \in Seq(StageName) /\ Len(rest) = 4 /\ \A i \in 1..4 : rest[i] = q[i + 1]
        BY <4>1, <4>2
      <4> QED BY <4>3 DEF rest
    <3> QED BY <2>2, <3>1, StageOrders, Zenon
  <2>4. \A i \in 1..4 : Tail(StageOrder)[i] \in StageName
    BY <2>3, ElementOfSeq
  <2> QED BY <2>1, <2>3, <2>4
<1>2. CASE d.removal # {}
  <2>1. Expected(d) = StageOrder /\ Skipped(d) = 0
    BY <1>2 DEF Expected, Skipped
  <2>2. \A i \in 1..5 : StageOrder[i] \in StageName
    BY StageOrders, ElementOfSeq
  <2> QED BY <2>1, <2>2, StageOrders
<1> QED BY <1>1, <1>2

\* What comes before the stage that is next was completed.
LEMMA BeforeNext ==
  ASSUME NEW run, NEW n \in Nat, n < Len(Expected(run.draft)), run.name = Expected(run.draft)[n + 1],
         NEW s \in StagesBefore(run)
  PROVE  \E i \in 1..n : s = Expected(run.draft)[i]
<1> DEFINE q == Expected(run.draft)
           k == Skipped(run.draft)
<1>1. PICK a, b \in 1..Len(StageOrder) : StageOrder[a] = s /\ StageOrder[b] = run.name /\ a < b
  BY DEF StagesBefore
<1>2. s \in Range(q)
  BY DEF StagesBefore
<1>3. /\ q \in Seq(StageName) /\ Len(q) = 5 - k /\ k \in {0, 1}
      /\ \A i \in 1..Len(q) : q[i] = StageOrder[i + k]
  BY ExpectedStages
<1>4. n < Len(q) /\ run.name = q[n + 1]
  OBVIOUS
<1> HIDE DEF q, k
<1>5. PICK i \in 1..Len(q) : s = q[i]
  BY <1>2, <1>3 DEF Range
<1>6. a = i + k
  <2>1. i + k \in 1..5 /\ StageOrder[a] = StageOrder[i + k] /\ a \in 1..5
    <3>1. StageOrder[i + k] = q[i]
      BY <1>3, <1>5, Zenon
    <3>2. i + k \in 1..5 /\ a \in 1..5
      BY <1>1, <1>3, StageOrders
    <3> QED BY <1>1, <1>5, <3>1, <3>2
  <2> QED BY <2>1, StagesApart, Zenon
<1>7. b = n + 1 + k
  <2>1. n + 1 \in 1..Len(q)
    BY <1>3, <1>4
  <2>2. n + 1 + k \in 1..5 /\ StageOrder[b] = StageOrder[n + 1 + k] /\ b \in 1..5
    BY <1>1, <1>3, <1>4, <2>1, StageOrders
  <2> QED BY <2>2, StagesApart, Zenon
<1>8. i \in 1..n
  BY <1>1, <1>3, <1>5, <1>6, <1>7
<1> QED BY <1>5, <1>8 DEF q

\* What the run of a stage may do to a worker.
EffectSound(run, w) ==
  /\ run.name = "remove-dead" => <<w, "dead">> \in run.read
  /\ run.name = "add-worker" => ~Registered(run.read, w)
  /\ Ordered(run)
  /\ ~run.overlapped => w \in Named(run)

LEMMA NotesSound ==
  ASSUME NEW run, NEW w, Notes(run, w), EffectSound(run, w) PROVE AdmissionSound'
<1>1. effect'.run = run /\ effect'.worker = w
  BY DEF Notes
<1> QED BY <1>1 DEF EffectSound, Ordered, AdmissionSound, StagesBefore, Named, Registered

LEMMA NoStageRecord ==
  /\ Formed(NoStage) /\ NoStage.name = "none" /\ NoStage.left = {} /\ NoStage.at = "none"
  /\ NoStage.overlapped = FALSE /\ NoStage.read = {} /\ NoStage.worker = NoWorker
BY DEF NoStage, Formed

\* The stage that is admitted, in the order of its proposal.
LEMMA AdmitSound ==
  ASSUME AdmissionInv, NEW name, RequireStage(name)
  PROVE  /\ Formed(Admitted(name)) /\ Admitted(name).name = name /\ Admitted(name).draft = draft
         /\ Admitted(name).at = "asked" /\ Admitted(name).left = {} /\ Admitted(name).overlapped = FALSE
         /\ name \in StageName /\ Ordered(Admitted(name)) /\ Len(completed) < Len(Expected(draft))
         /\ name = Expected(draft)[Len(completed) + 1] /\ Len(completed) \in Nat
<1> DEFINE run == Admitted(name)
<1>1. /\ run.name = name /\ run.draft = draft /\ run.before = completed /\ Formed(run)
      /\ run.at = "asked" /\ run.left = {} /\ run.overlapped = FALSE
  BY DEF Admitted, Formed
<1>2. Len(completed) < Len(Expected(draft)) /\ name = Expected(draft)[Len(completed) + 1]
  BY DEF RequireStage
<1>3. Len(completed) \in Nat
  BY LenProperties DEF AdmissionInv, ProposalsNumbered
<1>4. name \in StageName
  <2>1. Len(completed) + 1 \in 1..Len(Expected(draft))
    BY <1>2, <1>3, ExpectedStages
  <2> QED BY <1>2, <2>1, ExpectedStages
<1> HIDE DEF run
<1>5. ASSUME ~run.draft.torn, NEW s \in StagesBefore(run) PROVE <<run.draft.number, s>> \in Range(run.before)
  <2>1. PICK i \in 1..Len(completed) : s = Expected(draft)[i]
    BY <1>1, <1>2, <1>3, <1>5, BeforeNext
  <2>2. completed[i] = <<draft.number, s>> /\ completed \in Seq(Nat \X StageName)
    BY <1>1, <1>5, <2>1 DEF AdmissionInv, StagesInOrder, ProposalsNumbered
  <2>3. i \in DOMAIN completed
    BY <2>1, <2>2
  <2> QED BY <1>1, <2>2, <2>3 DEF Range
<1>6. Ordered(run)
  BY <1>5 DEF Ordered
<1> QED BY <1>1, <1>2, <1>3, <1>4, <1>6 DEF run

\* A stage that ends leaves a draft whose stages are in order: it is completed, or not.
LEMMA StageEnds ==
  ASSUME AdmissionInv, stageRun # NoStage, stageRun' = NoStage, UNCHANGED <<draft, look>>,
         completed' = completed \/ completed' = Append(completed, <<stageRun.draft.number, stageRun.name>>),
         AdmissionSound'
  PROVE  AdmissionInv'
<1> DEFINE entry == <<stageRun.draft.number, stageRun.name>>
<1>1. entry \in Nat \X StageName /\ completed \in Seq(Nat \X StageName)
  BY DEF AdmissionInv, ProposalsNumbered, RunSound
<1>2. completed' \in Seq(Nat \X StageName)
  <2> HIDE DEF entry
  <2>1. Append(completed, entry) \in Seq(Nat \X StageName)
    BY <1>1, AppendProperties
  <2>2. completed' = completed \/ completed' = Append(completed, entry)
    BY DEF entry
  <2> QED BY <1>1, <2>1, <2>2
<1>3. ProposalsNumbered'
  BY <1>2, NoStageRecord DEF AdmissionInv, ProposalsNumbered, NoStage, NoDraft
<1>4. StagesInOrder'
  <2> SUFFICES ASSUME ~draft.torn
               PROVE  /\ Len(completed') <= Len(Expected(draft))
                      /\ \A i \in 1..Len(completed') : completed'[i] = <<draft.number, Expected(draft)[i]>>
    BY DEF StagesInOrder, Expected
  <2>1. /\ stageRun.draft = draft /\ Len(completed) < Len(Expected(draft))
        /\ stageRun.name = Expected(draft)[Len(completed) + 1]
        /\ \A i \in 1..Len(completed) : completed[i] = <<draft.number, Expected(draft)[i]>>
    BY DEF AdmissionInv, RunNext, StagesInOrder
  <2>2. Len(completed) \in Nat /\ Len(Expected(draft)) \in Nat
    BY <1>1, ExpectedStages, LenProperties
  <2>3. CASE completed' = completed
    BY <2>1, <2>2, <2>3
  <2>4. CASE completed' = Append(completed, entry)
    <3>1. /\ Len(completed') = Len(completed) + 1 /\ completed'[Len(completed) + 1] = entry
          /\ \A i \in 1..Len(completed) : completed'[i] = completed[i]
      BY <1>1, <2>4, AppendProperties
    <3>2. ASSUME NEW i \in 1..Len(completed') PROVE completed'[i] = <<draft.number, Expected(draft)[i]>>
      <4>1. i \in 1..Len(completed) \/ i = Len(completed) + 1
        BY <2>2, <3>1
      <4>2. CASE i \in 1..Len(completed)
        BY <2>1, <3>1, <4>2
      <4>3. CASE i = Len(completed) + 1
        BY <2>1, <3>1, <4>3
      <4> QED BY <4>1, <4>2, <4>3
    <3> QED BY <2>1, <2>2, <3>1, <3>2
  <2> QED BY <2>3, <2>4
<1>5. RunSound' /\ RunNext' /\ Formed(stageRun')
  BY NoStageRecord DEF RunSound, RunNext
<1> QED BY <1>3, <1>4, <1>5 DEF AdmissionInv, Formed

\* A stage that goes on keeps its proposal.
LEMMA StageGoesOn ==
  ASSUME AdmissionInv, UNCHANGED <<draft, look, completed>>, Formed(stageRun'), stageRun # NoStage,
         stageRun'.name = stageRun.name, stageRun'.draft = stageRun.draft, stageRun'.before = stageRun.before,
         stageRun'.overlapped = stageRun.overlapped, RunSound', AdmissionSound'
  PROVE  AdmissionInv'
<1>1. ProposalsNumbered'
  BY DEF AdmissionInv, ProposalsNumbered
<1>2. RunNext' /\ StagesInOrder'
  BY DEF AdmissionInv, RunNext, StagesInOrder, Expected
<1> QED BY <1>1, <1>2 DEF AdmissionInv, Formed

LEMMA EffectKept == ASSUME AdmissionInv, UNCHANGED effect PROVE AdmissionSound'
BY DEF AdmissionInv, AdmissionSound, StagesBefore, Named, Registered

LEMMA AdmissionStep == AdmissionInv /\ AdmissionNext => AdmissionInv'
<1> SUFFICES ASSUME AdmissionInv, AdmissionNext PROVE AdmissionInv'
  OBVIOUS
<1>f. stageRun = [name |-> stageRun.name, draft |-> stageRun.draft, before |-> stageRun.before,
                  at |-> stageRun.at, read |-> stageRun.read, left |-> stageRun.left,
                  worker |-> stageRun.worker, overlapped |-> stageRun.overlapped]
  BY DEF AdmissionInv, Formed
<1>1. ASSUME NEW e \in Endpoint, InspectReads(e) PROVE AdmissionInv'
  <2>1. UNCHANGED <<stageRun, draft, completed, effect>>
    BY <1>1 DEF InspectReads
  <2>2. ProposalsNumbered'
    BY <1>1, <2>1 DEF InspectReads, ProposalsNumbered, AdmissionInv
  <2>3. RunSound' /\ RunNext' /\ StagesInOrder'
    BY <2>1 DEF AdmissionInv, RunSound, RunNext, StagesInOrder, Ordered, StagesBefore, Registered, Expected
  <2> QED BY <2>1, <2>2, <2>3, EffectKept DEF AdmissionInv, Formed
<1>2. ASSUME NEW l \in look.open, InspectSets(l) PROVE AdmissionInv'
  <2>1. /\ completed' = <<>> /\ draft'.number = l.number /\ draft'.torn = (stageRun # NoStage) /\ UNCHANGED effect
        /\ look' = [look EXCEPT !.open = @ \ {l}]
        /\ stageRun' = IF stageRun = NoStage THEN NoStage ELSE [stageRun EXCEPT !.overlapped = TRUE]
    BY <1>2 DEF InspectSets
  <2>2. /\ Formed(stageRun') /\ stageRun'.draft = stageRun.draft
        /\ stageRun # NoStage => /\ stageRun'.name = stageRun.name /\ stageRun'.at = stageRun.at
                                 /\ stageRun'.before = stageRun.before /\ stageRun'.read = stageRun.read
                                 /\ stageRun'.worker = stageRun.worker /\ stageRun'.overlapped = TRUE
        /\ stageRun = NoStage => stageRun' = NoStage
    <3>1. CASE stageRun = NoStage
      BY <2>1, <3>1, NoStageRecord
    <3>2. CASE stageRun # NoStage
      <4>1. stageRun' = [name |-> stageRun.name, draft |-> stageRun.draft, before |-> stageRun.before,
                         at |-> stageRun.at, read |-> stageRun.read, left |-> stageRun.left,
                         worker |-> stageRun.worker, overlapped |-> TRUE]
        BY <1>f, <2>1, <3>2
      <4> QED BY <3>2, <4>1 DEF Formed
    <3> QED BY <3>1, <3>2
  <2>3. ProposalsNumbered'
    <3>1. look'.begun = look.begun /\ look'.open \subseteq look.open /\ l.number \in Nat
      BY <2>1 DEF AdmissionInv, ProposalsNumbered
    <3>2. completed' \in Seq(Nat \X StageName)
      BY <2>1
    <3> QED BY <2>1, <2>2, <3>1, <3>2 DEF AdmissionInv, ProposalsNumbered
  <2>4. RunSound'
    BY <2>2 DEF AdmissionInv, RunSound, Ordered, StagesBefore, Registered
  <2>5. RunNext'
    BY <2>1, <2>2 DEF RunNext
  <2>6. StagesInOrder'
    <3>1. Len(completed') = 0 /\ Len(Expected(draft')) \in Nat
      BY <2>1, ExpectedStages, LenProperties
    <3> QED BY <3>1 DEF StagesInOrder
  <2> QED BY <2>1, <2>2, <2>3, <2>4, <2>5, <2>6, EffectKept DEF AdmissionInv
<1>3. ASSUME NEW w \in Candidate, HealthChanges(w) PROVE AdmissionInv'
  <2>1. UNCHANGED <<draft, completed, stageRun, look, effect>>
    BY <1>3 DEF HealthChanges
  <2>2. ProposalsNumbered' /\ RunSound' /\ RunNext' /\ StagesInOrder'
    BY <2>1 DEF AdmissionInv, ProposalsNumbered, RunSound, RunNext, StagesInOrder, Ordered, StagesBefore, Registered, Expected
  <2> QED BY <2>1, <2>2, EffectKept DEF AdmissionInv, Formed
<1>4. ASSUME NEW i \in {1, 2, 4, 5}, Admit(StageOrder[i]) PROVE AdmissionInv'
  <2> DEFINE run == Admitted(StageOrder[i])
  <2>1. RequireStage(StageOrder[i]) /\ stageRun' = run /\ UNCHANGED <<draft, completed, look, effect>>
    BY <1>4 DEF Admit
  <2>2. /\ Formed(run) /\ run.name \in StageName /\ run.draft = draft /\ run.at = "asked" /\ run.left = {}
        /\ run.overlapped = FALSE /\ Ordered(run) /\ Len(completed) < Len(Expected(draft))
        /\ run.name = Expected(draft)[Len(completed) + 1]
    BY <2>1, AdmitSound
  <2> HIDE DEF run
  <2>3. RunSound'
    BY <2>1, <2>2 DEF RunSound, Ordered, StagesBefore
  <2>4. RunNext' /\ StagesInOrder' /\ ProposalsNumbered'
    BY <2>1, <2>2 DEF RunNext, AdmissionInv, StagesInOrder, ProposalsNumbered, Expected
  <2> QED BY <2>1, <2>2, <2>3, <2>4, EffectKept DEF AdmissionInv, Formed
<1>5. CASE WritesRoute
  <2> DEFINE run == Admitted("route")
  <2>1. /\ RequireStage("route") /\ Notes(run, draft.id) /\ stageRun' = NoStage
        /\ completed' = Append(completed, <<run.draft.number, run.name>>) /\ UNCHANGED <<draft, look>>
    BY <1>5 DEF WritesRoute, Concludes
  <2>2. /\ run.name = "route" /\ run.draft = draft /\ Ordered(run) /\ run.overlapped = FALSE
        /\ Len(completed) < Len(Expected(draft)) /\ "route" = Expected(draft)[Len(completed) + 1]
        /\ Len(completed) \in Nat
    BY <2>1, AdmitSound
  <2> HIDE DEF run
  <2>3. AdmissionSound'
    <3>1. EffectSound(run, draft.id)
      BY <2>2 DEF EffectSound, Named
    <3> QED BY <2>1, <3>1, NotesSound
  <2>4. /\ completed' \in Seq(Nat \X StageName) /\ Len(completed') = Len(completed) + 1
        /\ completed'[Len(completed) + 1] = <<draft.number, "route">>
        /\ \A i \in 1..Len(completed) : completed'[i] = completed[i]
    <3>1. <<draft.number, "route">> \in Nat \X StageName /\ completed \in Seq(Nat \X StageName)
      BY DEF AdmissionInv, ProposalsNumbered, StageName
    <3>2. completed' = Append(completed, <<draft.number, "route">>)
      BY <2>1, <2>2
    <3> QED BY <3>1, <3>2, AppendProperties
  <2>5. StagesInOrder'
    <3> SUFFICES ASSUME ~draft.torn
                 PROVE  /\ Len(completed') <= Len(Expected(draft))
                        /\ \A i \in 1..Len(completed') : completed'[i] = <<draft.number, Expected(draft)[i]>>
      BY <2>1 DEF StagesInOrder, Expected
    <3>1. \A i \in 1..Len(completed) : completed[i] = <<draft.number, Expected(draft)[i]>>
      BY DEF AdmissionInv, StagesInOrder
    <3>2. Len(Expected(draft)) \in Nat
      BY ExpectedStages, LenProperties
    <3>3. ASSUME NEW i \in 1..Len(completed') PROVE completed'[i] = <<draft.number, Expected(draft)[i]>>
      <4>1. i \in 1..Len(completed) \/ i = Len(completed) + 1
        BY <2>2, <2>4
      <4> QED BY <2>2, <2>4, <3>1, <4>1
    <3> QED BY <2>2, <2>4, <3>2, <3>3
  <2>6. ProposalsNumbered' /\ RunSound' /\ RunNext' /\ Formed(stageRun')
    BY <2>1, <2>4, NoStageRecord DEF AdmissionInv, ProposalsNumbered, RunSound, RunNext, NoStage, NoDraft
  <2> QED BY <2>3, <2>5, <2>6 DEF AdmissionInv, Formed
<1>6. CASE StageReads
  <2> DEFINE read == ReadFleet
  <2>1. /\ stageRun.at = "asked" /\ stageRun' = [stageRun EXCEPT !.at = "read", !.read = read]
        /\ UNCHANGED <<draft, completed, look, effect>>
    BY <1>6 DEF StageReads
  <2> HIDE DEF read
  <2>2. stageRun' = [name |-> stageRun.name, draft |-> stageRun.draft, before |-> stageRun.before,
                     at |-> "read", read |-> read, left |-> stageRun.left,
                     worker |-> stageRun.worker, overlapped |-> stageRun.overlapped]
    BY <1>f, <2>1
  <2>3. /\ Formed(stageRun') /\ stageRun'.name = stageRun.name /\ stageRun'.draft = stageRun.draft
        /\ stageRun'.before = stageRun.before /\ stageRun'.overlapped = stageRun.overlapped
        /\ stageRun'.at = "read" /\ stageRun'.left = stageRun.left
    BY <2>2 DEF Formed
  <2>4. stageRun # NoStage
    BY <2>1, NoStageRecord
  <2>5. RunSound'
    BY <2>3, <2>4 DEF AdmissionInv, RunSound, Ordered, StagesBefore
  <2> QED BY <2>1, <2>3, <2>4, <2>5, EffectKept, StageGoesOn
<1>7. CASE ChecksRemoval
  <2> DEFINE present == {w \in draft.removal : Registered(stageRun.read, w)}
  <2>1. /\ stageRun.at = "read" /\ stageRun.name = "remove-dead" /\ UNCHANGED <<draft, look, effect>>
        /\ \/ stageRun' = NoStage /\ completed' = Append(completed, <<stageRun.draft.number, stageRun.name>>)
           \/ stageRun' = [stageRun EXCEPT !.at = "acting", !.left = present] /\ UNCHANGED completed
    BY <1>7 DEF ChecksRemoval, Concludes
  <2>2. stageRun # NoStage /\ present \subseteq draft.removal
    BY <2>1, NoStageRecord
  <2> HIDE DEF present
  <2>3. CASE stageRun' = NoStage /\ completed' = Append(completed, <<stageRun.draft.number, stageRun.name>>)
    BY <2>1, <2>2, <2>3, StageEnds, EffectKept
  <2>4. CASE stageRun' = [stageRun EXCEPT !.at = "acting", !.left = present] /\ UNCHANGED completed
    <3>2. stageRun' = [name |-> stageRun.name, draft |-> stageRun.draft, before |-> stageRun.before,
                       at |-> "acting", read |-> stageRun.read, left |-> present,
                       worker |-> stageRun.worker, overlapped |-> stageRun.overlapped]
      BY <1>f, <2>4
    <3>3. /\ Formed(stageRun') /\ stageRun'.name = "remove-dead" /\ stageRun'.name = stageRun.name
          /\ stageRun'.draft = stageRun.draft
          /\ stageRun'.before = stageRun.before /\ stageRun'.overlapped = stageRun.overlapped
          /\ stageRun'.left = present
      BY <2>1, <3>2 DEF Formed
    <3>4. ~stageRun.overlapped => stageRun.draft = draft
      BY <2>2 DEF AdmissionInv, RunNext
    <3>5. RunSound'
      BY <2>2, <3>3, <3>4 DEF AdmissionInv, RunSound, Ordered, StagesBefore
    <3> QED BY <2>1, <2>2, <2>4, <3>3, <3>5, EffectKept, StageGoesOn
  <2> QED BY <2>1, <2>3, <2>4
<1>8. CASE ChecksWorker
  <2>1. /\ stageRun.at = "read" /\ stageRun.name \in {"add-worker", "verify"}
        /\ UNCHANGED <<draft, completed, look, effect>>
        /\ \/ stageRun' = NoStage
           \/ /\ stageRun' = [stageRun EXCEPT !.at = "acting", !.worker = draft.id]
              /\ stageRun.name = "add-worker" => ~Registered(stageRun.read, draft.id)
    BY <1>8 DEF ChecksWorker
  <2>2. stageRun # NoStage
    BY <2>1, NoStageRecord
  <2>3. CASE stageRun' = NoStage
    BY <2>1, <2>2, <2>3, StageEnds, EffectKept
  <2>4. CASE /\ stageRun' = [stageRun EXCEPT !.at = "acting", !.worker = draft.id]
             /\ stageRun.name = "add-worker" => ~Registered(stageRun.read, draft.id)
    <3>2. stageRun' = [name |-> stageRun.name, draft |-> stageRun.draft, before |-> stageRun.before,
                       at |-> "acting", read |-> stageRun.read, left |-> stageRun.left,
                       worker |-> draft.id, overlapped |-> stageRun.overlapped]
      BY <1>f, <2>4
    <3>3. /\ Formed(stageRun') /\ stageRun'.name = stageRun.name
          /\ stageRun'.draft = stageRun.draft /\ stageRun'.read = stageRun.read
          /\ stageRun'.before = stageRun.before /\ stageRun'.overlapped = stageRun.overlapped
          /\ stageRun'.left = stageRun.left /\ stageRun'.worker = draft.id
      BY <3>2 DEF Formed
    <3>4. ~stageRun.overlapped => stageRun.draft = draft
      BY <2>2 DEF AdmissionInv, RunNext
    <3>5. RunSound'
      BY <2>2, <2>4, <3>3, <3>4 DEF AdmissionInv, RunSound, Ordered, StagesBefore, Registered
    <3> QED BY <2>1, <2>2, <3>3, <3>5, EffectKept, StageGoesOn
  <2> QED BY <2>1, <2>3, <2>4
<1>9. ASSUME NEW w \in Candidate, StageRefuses(w) PROVE AdmissionInv'
  <2>1. stageRun # NoStage /\ stageRun' = NoStage /\ UNCHANGED <<draft, completed, look, effect>>
    BY <1>9, NoStageRecord DEF StageRefuses
  <2> QED BY <2>1, StageEnds, EffectKept
<1>10. ASSUME NEW w \in Candidate, RemovesDead(w) PROVE AdmissionInv'
  <2> DEFINE at == IF stageRun.left = {w} THEN "done" ELSE stageRun.at
  <2>1. /\ stageRun.name = "remove-dead" /\ w \in stageRun.left /\ <<w, "dead">> \in stageRun.read
        /\ Notes(stageRun, w) /\ UNCHANGED <<draft, look, completed>>
        /\ stageRun' = [stageRun EXCEPT !.left = @ \ {w}, !.at = at]
    BY <1>10 DEF RemovesDead
  <2>2. stageRun # NoStage
    BY <2>1, NoStageRecord
  <2> HIDE DEF at
  <2>3. EffectSound(stageRun, w)
    BY <2>1, <2>2 DEF EffectSound, AdmissionInv, RunSound, Named
  <2>4. stageRun' = [name |-> stageRun.name, draft |-> stageRun.draft, before |-> stageRun.before,
                     at |-> at, read |-> stageRun.read, left |-> stageRun.left \ {w},
                     worker |-> stageRun.worker, overlapped |-> stageRun.overlapped]
    BY <1>f, <2>1
  <2>5. /\ Formed(stageRun') /\ stageRun'.name = "remove-dead" /\ stageRun'.name = stageRun.name
        /\ stageRun'.draft = stageRun.draft
        /\ stageRun'.before = stageRun.before /\ stageRun'.overlapped = stageRun.overlapped
        /\ stageRun'.left \subseteq stageRun.left
    BY <2>1, <2>4 DEF Formed
  <2>6. RunSound'
    BY <2>2, <2>5 DEF AdmissionInv, RunSound, Ordered, StagesBefore
  <2>7. AdmissionSound'
    BY <2>1, <2>3, NotesSound
  <2> QED BY <2>1, <2>2, <2>5, <2>6, <2>7, StageGoesOn
<1>11. CASE AddsWorker \/ RestartsCore
  <2> DEFINE w == IF stageRun.name = "restart" THEN NoWorker ELSE stageRun.worker
  <2>1. /\ \/ stageRun.name = "add-worker" /\ stageRun.at = "acting"
           \/ stageRun.name = "restart"
        /\ Notes(stageRun, w) /\ UNCHANGED <<draft, look, completed>>
        /\ stageRun' = [stageRun EXCEPT !.at = "done"]
    BY <1>11 DEF AddsWorker, RestartsCore
  <2>2. stageRun # NoStage
    BY <2>1, NoStageRecord
  <2>3. EffectSound(stageRun, w)
    BY <2>1, <2>2 DEF EffectSound, AdmissionInv, RunSound, Named
  <2> HIDE DEF w
  <2>4. stageRun' = [name |-> stageRun.name, draft |-> stageRun.draft, before |-> stageRun.before,
                     at |-> "done", read |-> stageRun.read, left |-> stageRun.left,
                     worker |-> stageRun.worker, overlapped |-> stageRun.overlapped]
    BY <1>f, <2>1
  <2>5. /\ Formed(stageRun') /\ stageRun'.name = stageRun.name /\ stageRun'.draft = stageRun.draft
        /\ stageRun'.before = stageRun.before /\ stageRun'.overlapped = stageRun.overlapped
        /\ stageRun'.left = stageRun.left /\ stageRun'.at = "done"
    BY <2>4 DEF Formed
  <2>6. RunSound'
    BY <2>2, <2>5 DEF AdmissionInv, RunSound, Ordered, StagesBefore
  <2>7. AdmissionSound'
    BY <2>1, <2>3, NotesSound
  <2> QED BY <2>1, <2>2, <2>5, <2>6, <2>7, StageGoesOn
<1>12. CASE StageDone \/ StageFails
  <2>1. /\ stageRun # NoStage /\ stageRun' = NoStage /\ UNCHANGED <<draft, look, effect>>
        /\ completed' = completed \/ completed' = Append(completed, <<stageRun.draft.number, stageRun.name>>)
    BY <1>12, NoStageRecord DEF StageDone, StageFails, Concludes
  <2> QED BY <2>1, StageEnds, EffectKept
<1>13. CASE Verifies
  <2>1. /\ stageRun.name = "verify" /\ stageRun.at = "acting" /\ Notes(stageRun, stageRun.worker)
        /\ stageRun' = NoStage /\ UNCHANGED <<draft, look>>
        /\ completed' = completed \/ completed' = Append(completed, <<stageRun.draft.number, stageRun.name>>)
    BY <1>13 DEF Verifies, Concludes
  <2>2. stageRun # NoStage
    BY <2>1, NoStageRecord
  <2>3. EffectSound(stageRun, stageRun.worker)
    BY <2>1, <2>2 DEF EffectSound, AdmissionInv, RunSound, Named
  <2> QED BY <2>1, <2>2, <2>3, NotesSound, StageEnds
<1> QED BY <1>1, <1>2, <1>3, <1>4, <1>5, <1>6, <1>7, <1>8, <1>9, <1>10, <1>11, <1>12, <1>13 DEF AdmissionNext

LEMMA AdmissionInitial == AdmissionInit => AdmissionInv
<1> SUFFICES ASSUME AdmissionInit PROVE AdmissionInv
  OBVIOUS
<1>1. /\ completed = <<>> /\ stageRun = NoStage /\ draft = NoDraft /\ effect = NoEffect
      /\ look = [begun |-> 0, open |-> {}]
  BY DEF AdmissionInit
<1>2. completed \in Seq(Nat \X StageName) /\ Len(completed) = 0
  BY <1>1
<1>3. ProposalsNumbered
  BY <1>1, <1>2 DEF ProposalsNumbered, NoStage, NoDraft
<1>4. Len(Expected(draft)) \in Nat
  BY ExpectedStages, LenProperties
<1>5. RunSound /\ RunNext /\ StagesInOrder
  BY <1>1, <1>2, <1>4 DEF RunSound, RunNext, StagesInOrder
<1>6. AdmissionSound
  <2>1. effect.run = NoStage /\ effect.worker = NoWorker
    BY <1>1 DEF NoEffect
  <2>2. NoWorker \in Named(NoStage)
    BY NoStageRecord DEF Named, NoStage, NoDraft
  <2>3. StagesBefore(NoStage) = {}
    <3>1. \A j \in 1..5 : StageOrder[j] # "none"
      <4>1. \A j \in 1..5 : StageOrder[j] \in StageName
        BY StageOrders, ElementOfSeq
      <4> QED BY <4>1 DEF StageName
    <3> QED BY <3>1, StageOrders, NoStageRecord DEF StagesBefore
  <2> QED BY <2>1, <2>2, <2>3, NoStageRecord DEF AdmissionSound
<1> QED BY <1>1, <1>3, <1>5, <1>6, NoStageRecord DEF AdmissionInv

\* Whatever inspections overlap a stage, it removes only what it saw dead and adds only a new worker;
\* the stages of a proposal keep their order, and act on what it names, as far as no inspection
\* ended while one of them was in progress (genie-admission.mjs: requireStage and the stages).
THEOREM AdmissionCorrect == AdmissionSpec => []AdmissionSound
<1>1. AdmissionInv /\ UNCHANGED admissionVars => AdmissionInv'
  <2> SUFFICES ASSUME AdmissionInv, UNCHANGED admissionVars PROVE AdmissionInv'
    OBVIOUS
  <2>1. UNCHANGED <<draft, completed, effect, stageRun, look>>
    BY DEF admissionVars
  <2>2. ProposalsNumbered' /\ RunSound' /\ RunNext' /\ StagesInOrder'
    BY <2>1 DEF AdmissionInv, ProposalsNumbered, RunSound, RunNext, StagesInOrder, Ordered, StagesBefore, Registered, Expected
  <2> QED BY <2>1, <2>2, EffectKept DEF AdmissionInv, Formed
<1>2. AdmissionInv => AdmissionSound
  BY DEF AdmissionInv
<1> QED BY <1>1, <1>2, AdmissionInitial, AdmissionStep, PTL DEF AdmissionSpec

-----------------------------------------------------------------------------
(* Genie's journals.                                                       *)

NotebookSpec == NotebookInit /\ [][NotebookNext]_notebookVars

Row == [id : NoteId \cup ReceiptId, revision : Nat]
Memo == [up : BOOLEAN, error : BOOLEAN, known : Seq(Row),
         step : {"idle", "lock", "check", "write", "sync"}, row : Seq(Row)]
Journal == [rows : Seq(Row), torn : BOOLEAN, synced : Nat, lock : BOOLEAN]
NotebookTyped == file \in Journal /\ memo \in [Keeper -> Memo]

\* Only a process that runs has an append under way.
Alive == \A p \in Keeper : memo[p].step # "idle" => memo[p].up

\* A process between its lock and its acknowledgement has the lock to itself.
Appending(p) == memo[p].step \in {"check", "write", "sync"}
LockHeld == \A p \in Keeper : Appending(p) => file.lock /\ \A q \in Keeper : Appending(q) => q = p

\* What a process knows is the beginning of the file, though it may be behind.
KnownBefore ==
  \A p \in Keeper : /\ Len(memo[p].known) <= Len(file.rows)
                    /\ \A i \in 1..Len(memo[p].known) : memo[p].known[i] = file.rows[i]

\* The row of an append follows what its process knows, and that is the file once it is
\* checked.
Fits(r, known) == r.revision = Revision(known, r.id) + 1 /\ (r.id \in ReceiptId => r.revision = 1)
RowAfter(p) ==
  /\ memo[p].step # "idle" => \E r \in Row : memo[p].row = <<r>> /\ Fits(r, memo[p].known)
  /\ memo[p].step = "write" => ~file.torn /\ file.rows = memo[p].known
  /\ memo[p].step = "sync" => ~file.torn /\ file.rows = memo[p].known \o memo[p].row
RowFollows == \A p \in Keeper : RowAfter(p)

\* What was acknowledged is in the part of the file that a loss of power leaves.
Acknowledged ==
  /\ file.synced <= Len(file.rows)
  /\ \A r \in promised : \E i \in 1..file.synced : file.rows[i] = r

\* The file numbers the revisions of a note, and has a receipt once.
Numbered(rows) ==
  /\ \A i \in 1..Len(rows) : rows[i].revision = Revision(SubSeq(rows, 1, i), rows[i].id)
  /\ \A id \in ReceiptId : Revision(rows, id) <= 1

NotebookInv ==
  /\ NotebookTyped /\ Alive /\ LockHeld /\ KnownBefore /\ RowFollows /\ Acknowledged
  /\ Numbered(file.rows)

\* How often an identity occurs.
LEMMA CountIsNat ==
  ASSUME NEW rows \in Seq(Row), NEW id PROVE Revision(rows, id) \in Nat
<1> DEFINE At == {i \in 1..Len(rows) : rows[i].id = id}
<1>1. IsFiniteSet(1..Len(rows)) /\ At \in SUBSET (1..Len(rows))
  BY FS_Interval
<1> QED BY <1>1, FS_Subset, FS_CardinalityType DEF Revision

\* How often an identity occurs, and how often with one more row.
LEMMA RevisionGrows ==
  ASSUME NEW rows \in Seq(Row), NEW r \in Row, NEW id
  PROVE  /\ Revision(rows, id) \in Nat
         /\ Revision(rows \o <<r>>, id) = Revision(rows, id) + (IF r.id = id THEN 1 ELSE 0)
<1> DEFINE At(s) == {i \in 1..Len(s) : s[i].id = id}
           longer == rows \o <<r>>
<1>1. /\ Len(longer) = Len(rows) + 1 /\ longer[Len(rows) + 1] = r
      /\ \A i \in 1..Len(rows) : longer[i] = rows[i]
  OBVIOUS
<1>2. IsFiniteSet(1..Len(rows)) /\ At(rows) \in SUBSET (1..Len(rows))
  BY FS_Interval
<1>3. IsFiniteSet(At(rows)) /\ Cardinality(At(rows)) \in Nat
  BY <1>2, FS_Subset, FS_CardinalityType
<1>6. Revision(rows, id) = Cardinality(At(rows)) /\ Revision(longer, id) = Cardinality(At(longer))
  BY DEF Revision
<1>4. CASE r.id = id
  <2>1. At(longer) = At(rows) \cup {Len(rows) + 1}
    BY <1>1, <1>4
  <2>2. Cardinality(At(rows) \cup {Len(rows) + 1}) = Cardinality(At(rows)) + 1
    <3>1. Len(rows) + 1 \notin At(rows)
      OBVIOUS
    <3> QED BY <1>3, <3>1, FS_AddElement
  <2> QED BY <1>3, <1>4, <1>6, <2>1, <2>2
<1>5. CASE r.id # id
  <2>1. At(longer) = At(rows)
    BY <1>1, <1>5
  <2> HIDE DEF At
  <2> QED BY <1>3, <1>5, <1>6, <2>1
<1> QED BY <1>3, <1>4, <1>5, <1>6

\* A row that follows the whole file keeps the numbers right.
LEMMA NumberedGrows ==
  ASSUME NEW rows \in Seq(Row), NEW r \in Row, Numbered(rows),
         r.revision = Revision(rows, r.id) + 1, r.id \in ReceiptId => r.revision = 1
  PROVE  Numbered(rows \o <<r>>)
<1> DEFINE longer == rows \o <<r>>
<1>1. /\ longer \in Seq(Row) /\ Len(longer) = Len(rows) + 1 /\ longer[Len(rows) + 1] = r
      /\ \A i \in 1..Len(rows) : longer[i] = rows[i]
  OBVIOUS
<1>2. ASSUME NEW i \in 1..Len(longer) PROVE longer[i].revision = Revision(SubSeq(longer, 1, i), longer[i].id)
  <2>1. CASE i = Len(rows) + 1
    <3>1. SubSeq(longer, 1, i) = longer
      BY <1>1, <2>1, SubSeqFull
    <3>2. Revision(longer, r.id) = Revision(rows, r.id) + 1
      BY RevisionGrows
    <3> QED BY <1>1, <2>1, <3>1, <3>2
  <2>2. CASE i # Len(rows) + 1
    <3>1. i \in 1..Len(rows) /\ Len(rows) \in Nat
      BY <1>1, <1>2, <2>2
    <3>2. SubSeq(longer, 1, i) = SubSeq(rows, 1, i)
      BY <3>1, <1>1
    <3> QED BY <1>1, <3>1, <3>2 DEF Numbered
  <2> QED BY <2>1, <2>2
<1>3. ASSUME NEW id \in ReceiptId PROVE Revision(longer, id) <= 1
  <2>1. Revision(rows, id) \in Nat /\ Revision(longer, id) = Revision(rows, id) + (IF r.id = id THEN 1 ELSE 0)
    BY RevisionGrows
  <2> HIDE DEF longer
  <2> QED BY <2>1 DEF Numbered
<1> QED BY <1>2, <1>3 DEF Numbered

\* What a loss of power leaves of the file is still numbered.
LEMMA NumberedShrinks ==
  ASSUME NEW rows \in Seq(Row), NEW n \in 0..Len(rows), Numbered(rows)
  PROVE  Numbered(SubSeq(rows, 1, n))
<1> DEFINE less == SubSeq(rows, 1, n)
<1>1. /\ less \in Seq(Row) /\ Len(less) = n /\ \A i \in 1..n : less[i] = rows[i]
  OBVIOUS
<1>2. ASSUME NEW i \in 1..n PROVE less[i].revision = Revision(SubSeq(less, 1, i), less[i].id)
  <2>1. SubSeq(less, 1, i) = SubSeq(rows, 1, i)
    BY <1>1
  <2>2. rows[i].revision = Revision(SubSeq(rows, 1, i), rows[i].id)
    BY DEF Numbered
  <2> QED BY <1>1, <2>1, <2>2
<1>3. ASSUME NEW id \in ReceiptId PROVE Revision(less, id) <= 1
  <2> DEFINE At(s) == {i \in 1..Len(s) : s[i].id = id}
  <2>1. IsFiniteSet(1..Len(rows)) /\ At(rows) \in SUBSET (1..Len(rows)) /\ At(less) \in SUBSET At(rows)
    <3>1. Len(rows) \in Nat /\ n \in Nat /\ n <= Len(rows)
      BY LenProperties
    <3>2. IsFiniteSet(1..Len(rows))
      BY <3>1, FS_Interval
    <3>3. ASSUME NEW i \in 1..n PROVE i \in 1..Len(rows) /\ less[i] = rows[i]
      BY <1>1, <3>1
    <3>4. At(less) \in SUBSET At(rows)
      BY <1>1, <3>3
    <3> QED BY <3>2, <3>4
  <2>2. IsFiniteSet(At(rows))
    BY <2>1, FS_Subset
  <2>3. /\ Cardinality(At(less)) <= Cardinality(At(rows))
        /\ Cardinality(At(less)) \in Nat /\ Cardinality(At(rows)) \in Nat
    BY <2>1, <2>2, FS_Subset, FS_CardinalityType
  <2>4. Cardinality(At(rows)) <= 1
    BY DEF Numbered, Revision
  <2> HIDE DEF At
  <2>5. Cardinality(At(less)) <= 1
    BY <2>3, <2>4
  <2> QED BY <2>5 DEF Revision, At
<1> QED BY <1>1, <1>2, <1>3 DEF Numbered

\* What a process holds that does not run, or has just loaded the file.
LEMMA OffMemo ==
  ASSUME NEW known \in Seq(Row), NEW error \in BOOLEAN
  PROVE  LET m == [Off EXCEPT !.up = TRUE, !.error = error, !.known = known]
         IN  /\ Off \in Memo /\ Off.step = "idle" /\ Off.known = <<>>
             /\ m \in Memo /\ m.step = "idle" /\ m.known = known
<1> DEFINE e == <<>>
<1>1. Off = [up |-> FALSE, error |-> FALSE, known |-> e, step |-> "idle", row |-> e] /\ e \in Seq(Row)
  BY DEF Off
<1> HIDE DEF e
<1>2. Off.step = "idle" /\ Off.known = e /\ Off \in Memo
  BY <1>1 DEF Memo
<1>3. LET m == [Off EXCEPT !.up = TRUE, !.error = error, !.known = known]
      IN  m \in Memo /\ m.step = "idle" /\ m.known = known
  BY <1>2 DEF Memo
<1> QED BY <1>2, <1>3 DEF e

\* A step of one process leaves the others alone.
LEMMA MemoSet ==
  ASSUME NotebookTyped, NEW p \in Keeper, NEW m \in Memo, memo' = [memo EXCEPT ![p] = m]
  PROVE  memo' \in [Keeper -> Memo] /\ memo'[p] = m /\ \A q \in Keeper \ {p} : memo'[q] = memo[q]
BY DEF NotebookTyped

LEMMA JournalMeaning ==
  ASSUME file \in Journal
  PROVE  /\ file.rows \in Seq(Row) /\ file.torn \in BOOLEAN /\ file.synced \in Nat /\ file.lock \in BOOLEAN
         /\ Len(file.rows) \in Nat
BY DEF Journal

LEMMA MemoMeaning ==
  ASSUME NotebookTyped, NEW p \in Keeper
  PROVE  /\ memo[p] \in Memo /\ memo[p].known \in Seq(Row) /\ Len(memo[p].known) \in Nat
         /\ memo[p].error \in BOOLEAN /\ memo[p].row \in Seq(Row)
BY DEF NotebookTyped, Memo

\* A failed append leaves what the process knows.
LEMMA FailedMemo ==
  ASSUME NotebookTyped, NEW p \in Keeper, Fails(p)
  PROVE  /\ memo' \in [Keeper -> Memo] /\ \A q \in Keeper \ {p} : memo'[q] = memo[q]
         /\ memo'[p].step = "idle" /\ memo'[p].known = memo[p].known
<1> DEFINE e == <<>>
           m == [memo[p] EXCEPT !.error = TRUE, !.step = "idle", !.row = e]
<1>1. e \in Seq(Row) /\ memo' = [memo EXCEPT ![p] = m]
  BY DEF Fails
<1> HIDE DEF e
<1>2. m \in Memo /\ m.step = "idle" /\ m.known = memo[p].known
  BY <1>1, MemoMeaning DEF Memo
<1> HIDE DEF m
<1> QED BY <1>1, <1>2, MemoSet

\* One process moves, the rows stay, and only the lock it holds is freed: what remains is
\* what its own step has to show.
LEMMA OneMoves ==
  ASSUME NotebookInv, NEW p \in Keeper, file' \in Journal, memo' \in [Keeper -> Memo],
         \A q \in Keeper \ {p} : memo'[q] = memo[q],
         file'.rows = file.rows, file'.synced = file.synced, UNCHANGED promised,
         memo'[p].known = memo[p].known \/ memo'[p].known = file.rows \/ memo'[p].known = <<>>,
         file'.torn = file.torn \/ memo[p].step = "write",
         file.lock => file'.lock \/ (Appending(p) /\ ~Appending(p)'),
         Appending(p)' => file'.lock /\ (Appending(p) \/ ~file.lock),
         memo'[p].step # "idle" => memo'[p].up,
         RowAfter(p)'
  PROVE  NotebookInv'
<1> USE DEF NotebookInv
<1>1. \A q \in Keeper : memo[q].step = "write" /\ q # p => ~(memo[p].step = "write")
  BY DEF LockHeld, Appending
<1>2. LockHeld'
  BY DEF LockHeld, Appending
<1>3. KnownBefore'
  BY JournalMeaning, MemoMeaning DEF KnownBefore, NotebookTyped
<1>4. ASSUME NEW q \in Keeper \ {p} PROVE RowAfter(q)'
  <2>1. RowAfter(q) /\ memo'[q] = memo[q]
    BY DEF RowFollows
  <2>2. memo[q].step \in {"write", "sync"} => file'.torn = file.torn
    BY DEF LockHeld, Appending
  <2> QED BY <2>1, <2>2 DEF RowAfter
<1>5. RowFollows'
  BY <1>4 DEF RowFollows
<1>6. Acknowledged' /\ NotebookTyped' /\ Alive'
  BY DEF Acknowledged, NotebookTyped, Alive
<1> QED BY <1>2, <1>3, <1>5, <1>6

LEMMA NotebookInitial == NotebookInit => NotebookInv
<1> SUFFICES ASSUME NotebookInit PROVE NotebookInv
  OBVIOUS
<1> DEFINE e == <<>>
<1>1. file = [rows |-> e, torn |-> FALSE, synced |-> 0, lock |-> FALSE] /\ e \in Seq(Row) /\ Len(e) = 0
  BY DEF NotebookInit
<1>2. Off \in Memo /\ Off.step = "idle" /\ Off.known = e
  BY OffMemo, <1>1
<1>3. memo = [p \in Keeper |-> Off] /\ promised = {}
  BY DEF NotebookInit
<1> HIDE DEF e
<1>4. NotebookTyped
  BY <1>1, <1>2, <1>3 DEF NotebookTyped, Journal
<1>5. ASSUME NEW id PROVE Revision(e, id) = 0
  <2>1. {i \in 1..Len(e) : e[i].id = id} = {}
    BY <1>1
  <2> QED BY <2>1, FS_EmptySet DEF Revision
<1>6. Numbered(file.rows)
  BY <1>1, <1>5 DEF Numbered
<1>7. \A p \in Keeper : memo[p].step = "idle" /\ memo[p].known = e
  BY <1>2, <1>3
<1>8. Alive /\ LockHeld /\ RowFollows
  BY <1>7 DEF Alive, LockHeld, Appending, RowFollows, RowAfter
<1>9. KnownBefore /\ Acknowledged
  BY <1>1, <1>3, <1>7 DEF KnownBefore, Acknowledged
<1> QED BY <1>4, <1>6, <1>8, <1>9 DEF NotebookInv

\* A process loads the file.
LEMMA LoadKeeps == ASSUME NotebookInv, NEW p \in Keeper, Loads(p) PROVE NotebookInv'
<1> DEFINE m == [Off EXCEPT !.up = TRUE, !.error = file.torn, !.known = KnownRows]
<1>1. NotebookTyped /\ file \in Journal
  BY DEF NotebookInv, NotebookTyped
<1>2. KnownRows \in Seq(Row) /\ (KnownRows = <<>> \/ KnownRows = file.rows)
  BY <1>1, JournalMeaning DEF KnownRows
<1>3. m \in Memo /\ m.step = "idle" /\ m.known = KnownRows
  BY <1>1, <1>2, OffMemo, JournalMeaning
<1>4. memo' = [memo EXCEPT ![p] = m] /\ UNCHANGED <<file, promised>>
  BY DEF Loads
<1> HIDE DEF m
<1>5. /\ memo' \in [Keeper -> Memo] /\ memo'[p] = m
      /\ \A q \in Keeper \ {p} : memo'[q] = memo[q]
  BY <1>1, <1>3, <1>4, MemoSet
<1>6. RowAfter(p)' /\ ~Appending(p)'
  BY <1>3, <1>5 DEF RowAfter, Appending
<1>7. ~Appending(p)
  BY DEF Loads, NotebookInv, Alive, Appending
<1> QED BY <1>1, <1>2, <1>3, <1>4, <1>5, <1>6, <1>7, OneMoves

\* A process begins an append.
LEMMA BeginKeeps ==
  ASSUME NotebookInv, NEW p \in Keeper, NEW id \in NoteId \cup ReceiptId,
         Begins(p, id, Revision(memo[p].known, id) + 1),
         id \in ReceiptId => Revision(memo[p].known, id) = 0
  PROVE  NotebookInv'
<1> DEFINE r == [id |-> id, revision |-> Revision(memo[p].known, id) + 1]
           row == <<r>>
           m == [memo[p] EXCEPT !.step = "lock", !.row = row]
<1>1. NotebookTyped /\ file \in Journal /\ memo[p] \in Memo
  BY DEF NotebookInv, NotebookTyped
<1>2. Revision(memo[p].known, id) \in Nat
  BY <1>1, MemoMeaning, CountIsNat
<1>3. r \in Row /\ Fits(r, memo[p].known) /\ r.id = id
  BY <1>2 DEF Row, Fits
<1> HIDE DEF r
<1>4. row \in Seq(Row) /\ row = <<r>>
  BY <1>3
<1> HIDE DEF row
<1>5. m \in Memo /\ m.step = "lock" /\ m.known = memo[p].known /\ m.row = row /\ m.up = memo[p].up
  BY <1>1, <1>4 DEF Memo
<1>6. /\ memo[p].up /\ memo[p].step = "idle" /\ UNCHANGED <<file, promised>>
      /\ memo' = [memo EXCEPT ![p] = m]
  BY <1>4 DEF Begins, r, row
<1> HIDE DEF m
<1>7. /\ memo' \in [Keeper -> Memo] /\ memo'[p] = m
      /\ \A q \in Keeper \ {p} : memo'[q] = memo[q]
  BY <1>1, <1>5, <1>6, MemoSet
<1>8. RowAfter(p)' /\ ~Appending(p)'
  BY <1>3, <1>4, <1>5, <1>7 DEF RowAfter, Appending
<1> QED BY <1>1, <1>5, <1>6, <1>7, <1>8, OneMoves

\* A process gives its append up.
LEMMA FailKeeps ==
  ASSUME NotebookInv, NEW p \in Keeper, Fails(p), UNCHANGED promised, file' \in Journal,
         file'.rows = file.rows, file'.synced = file.synced,
         file'.torn = file.torn \/ memo[p].step = "write",
         file.lock => file'.lock \/ Appending(p)
  PROVE  NotebookInv'
<1>1. NotebookTyped
  BY DEF NotebookInv
<1>2. /\ memo' \in [Keeper -> Memo] /\ \A q \in Keeper \ {p} : memo'[q] = memo[q]
      /\ memo'[p].step = "idle" /\ memo'[p].known = memo[p].known
  BY <1>1, FailedMemo
<1>3. RowAfter(p)' /\ ~Appending(p)'
  BY <1>2 DEF RowAfter, Appending
<1> QED BY <1>2, <1>3, OneMoves

\* A process takes the lock, or compares the file with what it knows.
LEMMA LockKeeps == ASSUME NotebookInv, NEW p \in Keeper, Locks(p) \/ Checks(p) PROVE NotebookInv'
<1>1. /\ NotebookTyped /\ file \in Journal /\ memo[p] \in Memo
      /\ file.lock \in BOOLEAN /\ file.torn \in BOOLEAN /\ file.rows \in Seq(Row) /\ Len(file.rows) \in Nat
  BY JournalMeaning DEF NotebookInv, NotebookTyped
<1>2. ASSUME NEW step \in {"check", "write"}, memo' = [memo EXCEPT ![p].step = step],
             memo[p].step # "idle"
      PROVE  /\ memo' \in [Keeper -> Memo] /\ \A q \in Keeper \ {p} : memo'[q] = memo[q]
             /\ memo'[p].step = step /\ memo'[p].up /\ memo'[p].known = memo[p].known
             /\ memo'[p].row = memo[p].row
  <2> DEFINE m == [memo[p] EXCEPT !.step = step]
  <2>1. /\ m \in Memo /\ m.step = step /\ m.known = memo[p].known /\ m.row = memo[p].row
        /\ m.up = memo[p].up
    BY <1>1 DEF Memo
  <2>2. memo' = [memo EXCEPT ![p] = m]
    BY <1>2
  <2>3. memo[p].up
    BY <1>2 DEF NotebookInv, Alive
  <2> HIDE DEF m
  <2> QED BY <1>1, <2>1, <2>2, <2>3, MemoSet
<1>3. CASE Locks(p) /\ file.lock
  BY <1>1, <1>3, FailKeeps DEF Locks
<1>4. CASE Locks(p) /\ ~file.lock
  <2>1. /\ memo[p].step = "lock" /\ memo' = [memo EXCEPT ![p].step = "check"]
        /\ file' = [file EXCEPT !.lock = TRUE] /\ UNCHANGED promised
    BY <1>4 DEF Locks
  <2>2. /\ file' \in Journal /\ file'.lock /\ file'.rows = file.rows /\ file'.torn = file.torn
        /\ file'.synced = file.synced
    BY <1>1, <2>1 DEF Journal
  <2>3. /\ memo' \in [Keeper -> Memo] /\ \A q \in Keeper \ {p} : memo'[q] = memo[q]
        /\ memo'[p].step = "check" /\ memo'[p].up /\ memo'[p].known = memo[p].known
        /\ memo'[p].row = memo[p].row
    BY <1>2, <2>1
  <2>4. RowAfter(p)'
    BY <2>1, <2>3 DEF NotebookInv, RowFollows, RowAfter
  <2> QED BY <1>4, <2>1, <2>2, <2>3, <2>4, OneMoves
<1>5. CASE Checks(p) /\ SameFile(p)
  <2>1. memo[p].step = "check" /\ memo' = [memo EXCEPT ![p].step = "write"] /\ UNCHANGED <<file, promised>>
    BY <1>5 DEF Checks
  <2>2. file.rows = memo[p].known /\ ~file.torn
    <3>1. memo[p].known \in Seq(Row) /\ Len(memo[p].known) = Len(file.rows) /\ ~file.torn
      BY <1>1, <1>5, MemoMeaning DEF SameFile
    <3>2. \A i \in 1..Len(memo[p].known) : memo[p].known[i] = file.rows[i]
      BY DEF NotebookInv, KnownBefore
    <3> QED BY <1>1, <3>1, <3>2
  <2>3. /\ memo' \in [Keeper -> Memo] /\ \A q \in Keeper \ {p} : memo'[q] = memo[q]
        /\ memo'[p].step = "write" /\ memo'[p].up /\ memo'[p].known = memo[p].known
        /\ memo'[p].row = memo[p].row
    BY <1>2, <2>1
  <2>4. RowAfter(p)'
    BY <2>1, <2>2, <2>3 DEF NotebookInv, RowFollows, RowAfter
  <2>5. Appending(p) /\ file.lock
    BY <2>1 DEF NotebookInv, LockHeld, Appending
  <2> QED BY <1>1, <2>1, <2>3, <2>4, <2>5, OneMoves
<1>6. CASE Checks(p) /\ ~SameFile(p)
  <2>1. memo[p].step = "check" /\ Fails(p) /\ file' = [file EXCEPT !.lock = FALSE] /\ UNCHANGED promised
    BY <1>6 DEF Checks
  <2>2. file' \in Journal /\ file'.rows = file.rows /\ file'.torn = file.torn /\ file'.synced = file.synced
    BY <1>1, <2>1 DEF Journal
  <2>3. Appending(p)
    BY <2>1 DEF Appending
  <2> QED BY <2>1, <2>2, <2>3, FailKeeps
<1> QED BY <1>3, <1>4, <1>5, <1>6

\* The row is in the file, after all that its process knows.
LEMMA RowWritten ==
  ASSUME NotebookInv, NEW p \in Keeper, memo[p].step = "write",
         file' = [file EXCEPT !.rows = @ \o memo[p].row],
         memo' = [memo EXCEPT ![p].step = "sync"], UNCHANGED promised
  PROVE  NotebookInv'
<1> DEFINE m == [memo[p] EXCEPT !.step = "sync"]
<1>1. /\ NotebookTyped /\ file \in Journal /\ memo[p] \in Memo /\ memo[p].up
      /\ file.rows \in Seq(Row) /\ Len(file.rows) \in Nat /\ file.synced \in Nat
  BY JournalMeaning DEF NotebookInv, NotebookTyped, Alive
<1>2. /\ m \in Memo /\ m.step = "sync" /\ m.known = memo[p].known /\ m.row = memo[p].row
      /\ m.up = memo[p].up
  BY <1>1 DEF Memo
<1>3. memo' = [memo EXCEPT ![p] = m]
  OBVIOUS
<1> HIDE DEF m
<1>4. memo' \in [Keeper -> Memo] /\ memo'[p] = m /\ \A q \in Keeper \ {p} : memo'[q] = memo[q]
  BY <1>1, <1>2, <1>3, MemoSet
<1>5. /\ ~file.torn /\ file.rows = memo[p].known
      /\ \E r \in Row : memo[p].row = <<r>> /\ Fits(r, memo[p].known)
  BY DEF NotebookInv, RowFollows, RowAfter
<1>6. PICK r \in Row : memo[p].row = <<r>> /\ Fits(r, file.rows)
  BY <1>5
<1>7. /\ file.rows \o <<r>> \in Seq(Row) /\ Len(file.rows \o <<r>>) = Len(file.rows) + 1
      /\ \A i \in 1..Len(file.rows) : (file.rows \o <<r>>)[i] = file.rows[i]
  BY <1>1
<1>8. /\ file' \in Journal /\ file'.rows = file.rows \o <<r>> /\ file'.torn = file.torn
      /\ file'.synced = file.synced /\ file'.lock = file.lock
  <2> DEFINE rows == file.rows \o <<r>>
  <2>1. file' = [file EXCEPT !.rows = rows] /\ rows \in Seq(Row)
    BY <1>6, <1>7
  <2> HIDE DEF rows
  <2>2. /\ file' \in Journal /\ file'.rows = rows /\ file'.torn = file.torn
        /\ file'.synced = file.synced /\ file'.lock = file.lock
    BY <1>1, <2>1 DEF Journal
  <2> QED BY <2>2 DEF rows
<1>9. LockHeld'
  BY <1>2, <1>4, <1>8 DEF NotebookInv, LockHeld, Appending
<1>10. \A q \in Keeper : memo'[q].known = memo[q].known /\ Len(memo[q].known) \in Nat
  BY <1>1, <1>2, <1>4, MemoMeaning
<1>11. KnownBefore'
  <2> SUFFICES ASSUME NEW q \in Keeper
               PROVE  /\ Len(memo'[q].known) <= Len(file'.rows)
                      /\ \A i \in 1..Len(memo'[q].known) : memo'[q].known[i] = file'.rows[i]
    BY DEF KnownBefore
  <2> DEFINE known == memo[q].known
             rows == file'.rows
  <2>1. /\ Len(known) <= Len(file.rows) /\ Len(known) \in Nat /\ memo'[q].known = known
        /\ \A i \in 1..Len(known) : known[i] = file.rows[i]
    BY <1>10 DEF NotebookInv, KnownBefore
  <2>2. Len(rows) = Len(file.rows) + 1 /\ \A i \in 1..Len(file.rows) : rows[i] = file.rows[i]
    BY <1>7, <1>8
  <2> HIDE DEF known, rows
  <2>3. Len(known) <= Len(rows) /\ \A i \in 1..Len(known) : known[i] = rows[i]
    BY <1>1, <2>1, <2>2
  <2> QED BY <2>1, <2>3 DEF rows
<1>12. ASSUME NEW q \in Keeper PROVE RowAfter(q)'
  <2>1. CASE q = p
    BY <1>2, <1>4, <1>5, <1>6, <1>8, <2>1 DEF RowAfter
  <2>2. CASE q # p
    <3>1. memo[q].step \notin {"write", "sync"} /\ memo'[q] = memo[q] /\ RowAfter(q)
      BY <1>4, <2>2 DEF NotebookInv, LockHeld, Appending, RowFollows
    <3> QED BY <3>1 DEF RowAfter
  <2> QED BY <2>1, <2>2
<1>13. Acknowledged'
  <2> DEFINE rows == file'.rows
  <2>1. Len(rows) = Len(file.rows) + 1 /\ \A i \in 1..Len(file.rows) : rows[i] = file.rows[i]
    BY <1>7, <1>8
  <2> HIDE DEF rows
  <2>2. file.synced <= Len(rows) /\ \A i \in 1..file.synced : rows[i] = file.rows[i]
    BY <1>1, <2>1 DEF NotebookInv, Acknowledged
  <2>3. Acknowledged /\ UNCHANGED promised /\ file'.synced = file.synced
    BY <1>8 DEF NotebookInv
  <2>4. file.synced <= Len(file'.rows) /\ \A i \in 1..file.synced : file'.rows[i] = file.rows[i]
    BY <2>2 DEF rows
  <2> QED BY <2>3, <2>4 DEF Acknowledged
<1>14. Numbered(file'.rows)
  BY <1>1, <1>6, <1>8, NumberedGrows DEF NotebookInv, Fits
<1>15. NotebookTyped' /\ Alive'
  BY <1>1, <1>2, <1>4, <1>8 DEF NotebookInv, NotebookTyped, Alive
<1> QED BY <1>9, <1>11, <1>12, <1>13, <1>14, <1>15 DEF NotebookInv, RowFollows

\* The row is acknowledged, and the file synced to its end.
LEMMA RowSynced ==
  ASSUME NotebookInv, NEW p \in Keeper, memo[p].step = "sync",
         file' = [file EXCEPT !.synced = Len(file.rows), !.lock = FALSE],
         memo' = [memo EXCEPT ![p] = [@ EXCEPT !.step = "idle", !.row = <<>>, !.known = memo[p].known \o memo[p].row]],
         promised' = promised \cup Range(memo[p].row)
  PROVE  NotebookInv'
<1>1. /\ NotebookTyped /\ file \in Journal /\ memo[p] \in Memo
      /\ file.rows \in Seq(Row) /\ Len(file.rows) \in Nat /\ file.synced \in Nat
      /\ memo[p].known \in Seq(Row) /\ memo[p].error \in BOOLEAN
  BY JournalMeaning, MemoMeaning DEF NotebookInv, NotebookTyped
<1>2. /\ file.rows = memo[p].known \o memo[p].row /\ ~file.torn
      /\ \E r \in Row : memo[p].row = <<r>>
  BY DEF NotebookInv, RowFollows, RowAfter
<1>3. PICK r \in Row : memo[p].row = <<r>>
  BY <1>2
<1>4. Len(file.rows) >= 1 /\ file.rows[Len(file.rows)] = r
  BY <1>1, <1>2, <1>3
<1>5. Range(memo[p].row) = {r}
  BY <1>3 DEF Range
<1> DEFINE e == <<>>
           m == [memo[p] EXCEPT !.step = "idle", !.row = e, !.known = memo[p].known \o memo[p].row]
<1>6. e \in Seq(Row) /\ memo' = [memo EXCEPT ![p] = m]
  OBVIOUS
<1> HIDE DEF e
<1>7. m \in Memo /\ m.step = "idle" /\ m.known = file.rows
  <2> DEFINE rows == memo[p].known \o memo[p].row
  <2>1. rows = file.rows /\ rows \in Seq(Row)
    BY <1>1, <1>2
  <2> HIDE DEF rows
  <2>2. LET n == [memo[p] EXCEPT !.step = "idle", !.row = e, !.known = rows]
        IN  n \in Memo /\ n.step = "idle" /\ n.known = rows
    BY <1>1, <1>6, <2>1 DEF Memo
  <2> QED BY <2>1, <2>2 DEF rows
<1> HIDE DEF m
<1>8. memo' \in [Keeper -> Memo] /\ memo'[p] = m /\ \A q \in Keeper \ {p} : memo'[q] = memo[q]
  BY <1>1, <1>6, <1>7, MemoSet
<1>9. /\ file' \in Journal /\ file'.rows = file.rows /\ file'.torn = file.torn
      /\ file'.synced = Len(file.rows) /\ ~file'.lock
  BY <1>1 DEF Journal
<1>10. \A q \in Keeper \ {p} : ~Appending(q)
  BY DEF NotebookInv, LockHeld, Appending
<1>11. LockHeld' /\ Alive'
  BY <1>7, <1>8, <1>10 DEF NotebookInv, LockHeld, Alive, Appending
<1>12. KnownBefore'
  <2>1. /\ Len(m.known) <= Len(file.rows) /\ \A i \in 1..Len(m.known) : m.known[i] = file.rows[i]
    BY <1>1, <1>7
  <2>2. \A q \in Keeper \ {p} :
          /\ Len(memo'[q].known) <= Len(file.rows)
          /\ \A i \in 1..Len(memo'[q].known) : memo'[q].known[i] = file.rows[i]
    BY <1>8 DEF NotebookInv, KnownBefore
  <2>3. ASSUME NEW q \in Keeper
        PROVE  /\ Len(memo'[q].known) <= Len(file.rows)
               /\ \A i \in 1..Len(memo'[q].known) : memo'[q].known[i] = file.rows[i]
    <3>1. CASE q = p
      BY <1>8, <2>1, <3>1
    <3>2. CASE q # p
      BY <2>2, <3>2
    <3> QED BY <3>1, <3>2
  <2>4. file'.rows = file.rows
    BY <1>9
  <2> QED BY <2>3, <2>4 DEF KnownBefore
<1>13. ASSUME NEW q \in Keeper PROVE RowAfter(q)'
  <2>1. CASE q = p
    BY <1>7, <1>8, <2>1 DEF RowAfter
  <2>2. CASE q # p
    <3>1. memo'[q] = memo[q] /\ RowAfter(q)
      BY <1>8, <2>2 DEF NotebookInv, RowFollows
    <3> QED BY <1>9, <3>1 DEF RowAfter
  <2> QED BY <2>1, <2>2
<1>14. Acknowledged'
  BY <1>1, <1>4, <1>5, <1>9 DEF NotebookInv, Acknowledged
<1> QED BY <1>8, <1>9, <1>11, <1>12, <1>13, <1>14 DEF NotebookInv, RowFollows, NotebookTyped

LEMMA WriteKeeps == ASSUME NotebookInv, NEW p \in Keeper, Writes(p) \/ Syncs(p) PROVE NotebookInv'
<1>1. file \in Journal
  BY DEF NotebookInv, NotebookTyped
<1>2. CASE Writes(p) /\ ~Fails(p)
  BY <1>2, RowWritten DEF Writes
<1>3. CASE Writes(p) /\ Fails(p)
  <2>1. CASE file' = [file EXCEPT !.torn = TRUE, !.lock = FALSE]
    <3>1. file' \in Journal /\ file'.rows = file.rows /\ file'.synced = file.synced
      BY <1>1, <2>1 DEF Journal
    <3> QED BY <1>3, <3>1, FailKeeps DEF Writes, Appending
  <2>2. CASE memo' = [memo EXCEPT ![p].step = "sync"] /\ file' = [file EXCEPT !.rows = @ \o memo[p].row]
    BY <1>3, <2>2, RowWritten DEF Writes
  <2> QED BY <1>3, <2>1, <2>2 DEF Writes
<1>4. CASE Syncs(p) /\ file' = [file EXCEPT !.lock = FALSE] /\ Fails(p) /\ UNCHANGED promised
  <2>1. file' \in Journal /\ file'.rows = file.rows /\ file'.synced = file.synced /\ file'.torn = file.torn
    BY <1>1, <1>4 DEF Journal
  <2> QED BY <1>4, <2>1, FailKeeps DEF Syncs, Appending
<1> QED BY <1>2, <1>3, <1>4, RowSynced DEF Syncs

\* A process is killed: its lock stays.
LEMMA KillKeeps == ASSUME NotebookInv, NEW p \in Keeper, Killed(p) PROVE NotebookInv'
<1>1. NotebookTyped /\ file \in Journal
  BY DEF NotebookInv, NotebookTyped
<1>2. memo' = [memo EXCEPT ![p] = Off] /\ UNCHANGED promised
  BY DEF Killed
<1>3. Off \in Memo /\ Off.step = "idle" /\ Off.known = <<>>
  BY OffMemo, <1>1, JournalMeaning
<1>4. memo' \in [Keeper -> Memo] /\ memo'[p] = Off /\ \A q \in Keeper \ {p} : memo'[q] = memo[q]
  BY <1>1, <1>2, <1>3, MemoSet
<1>5. PICK cut \in {FALSE, memo[p].step = "write"} : file' = [file EXCEPT !.torn = @ \/ cut]
  BY DEF Killed
<1>6. /\ file' \in Journal /\ file'.rows = file.rows /\ file'.synced = file.synced
      /\ file'.lock = file.lock /\ (file'.torn = file.torn \/ memo[p].step = "write")
  BY <1>1, <1>5 DEF Journal
<1>7. RowAfter(p)' /\ ~Appending(p)'
  BY <1>3, <1>4 DEF RowAfter, Appending
<1> QED BY <1>2, <1>3, <1>4, <1>6, <1>7, OneMoves

\* The machine loses power, or the owner repairs the file.
LEMMA MachineKeeps == ASSUME NotebookInv, PowerLost \/ Repairs PROVE NotebookInv'
<1>1. /\ NotebookTyped /\ file \in Journal
      /\ file.rows \in Seq(Row) /\ Len(file.rows) \in Nat /\ file.synced \in Nat /\ file.torn \in BOOLEAN
  BY JournalMeaning DEF NotebookInv, NotebookTyped
<1>2. CASE PowerLost
  <2>1. PICK n \in file.synced..Len(file.rows), cut \in {FALSE, TRUE} :
          file' = [file EXCEPT !.rows = SubSeq(@, 1, n), !.torn = @ \/ cut]
    BY <1>2 DEF PowerLost
  <2>2. n \in 0..Len(file.rows) /\ file.synced <= n
    BY <1>1, <2>1
  <2> DEFINE rows == SubSeq(file.rows, 1, n)
  <2>3. rows \in Seq(Row) /\ Len(rows) = n /\ \A i \in 1..n : rows[i] = file.rows[i]
    BY <1>1, <2>2
  <2>4. Numbered(rows)
    BY <1>1, <2>2, NumberedShrinks DEF NotebookInv
  <2>5. file' = [file EXCEPT !.rows = rows, !.torn = @ \/ cut]
    BY <2>1
  <2> HIDE DEF rows
  <2>6. file' \in Journal /\ file'.rows = rows /\ file'.synced = file.synced
    BY <1>1, <2>3, <2>5 DEF Journal
  <2>7. Off \in Memo /\ Off.step = "idle" /\ Off.known = <<>> /\ memo' = [p \in Keeper |-> Off]
    BY <1>1, <1>2, OffMemo DEF PowerLost
  <2>8. Acknowledged'
    <3>1. file.synced <= Len(rows) /\ \A i \in 1..file.synced : rows[i] = file.rows[i]
      BY <1>1, <2>2, <2>3
    <3> QED BY <1>2, <2>6, <3>1 DEF NotebookInv, Acknowledged, PowerLost
  <2>9. \A q \in Keeper : memo'[q].step = "idle" /\ Len(memo'[q].known) = 0
    BY <2>7
  <2>10. LockHeld' /\ KnownBefore' /\ RowFollows' /\ Alive'
    <3>1. LockHeld' /\ RowFollows' /\ Alive'
      BY <2>9 DEF LockHeld, RowFollows, RowAfter, Appending, Alive
    <3>2. \A q \in Keeper : Len(memo'[q].known) <= Len(rows) /\ 1..Len(memo'[q].known) = {}
      BY <1>1, <2>2, <2>3, <2>9
    <3> QED BY <2>6, <3>1, <3>2 DEF KnownBefore
  <2> QED BY <2>4, <2>6, <2>7, <2>8, <2>10 DEF NotebookInv, NotebookTyped
<1>3. CASE Repairs
  <2>1. /\ file' = [file EXCEPT !.torn = FALSE, !.lock = FALSE, !.synced = Len(file.rows)]
        /\ UNCHANGED <<memo, promised>> /\ \A p \in Keeper : ~memo[p].up
    BY <1>3 DEF Repairs
  <2>2. file' \in Journal /\ file'.rows = file.rows /\ file'.synced = Len(file.rows)
    BY <1>1, <2>1 DEF Journal
  <2>3. \A p \in Keeper : memo[p].step = "idle"
    BY <2>1 DEF NotebookInv, Alive
  <2>4. LockHeld' /\ KnownBefore' /\ RowFollows' /\ Alive'
    <3>1. \A q \in Keeper : memo'[q].step = "idle" /\ ~Appending(q)'
      BY <2>1, <2>3 DEF Appending
    <3>2. LockHeld' /\ Alive'
      BY <3>1 DEF LockHeld, Alive
    <3>3. RowFollows'
      BY <3>1 DEF RowFollows, RowAfter
    <3>4. KnownBefore'
      BY <2>1, <2>2 DEF NotebookInv, KnownBefore
    <3> QED BY <3>2, <3>3, <3>4
  <2>5. Acknowledged'
    BY <1>1, <2>1, <2>2 DEF NotebookInv, Acknowledged
  <2> QED BY <2>1, <2>2, <2>4, <2>5 DEF NotebookInv, NotebookTyped
<1> QED BY <1>2, <1>3

LEMMA NotebookStep ==
  ASSUME NotebookInv, NoteId \cap ReceiptId = {}, [NotebookNext]_notebookVars PROVE NotebookInv'
<1>1. ASSUME NEW p \in Keeper, NEW id \in NoteId,
             Observes(p, id) \/ \E r \in 0..MaxRows : EditsNote(p, id, r)
      PROVE  NotebookInv'
  <2>1. Begins(p, id, Revision(memo[p].known, id) + 1)
    BY <1>1 DEF Observes, EditsNote
  <2> QED BY <2>1, BeginKeeps
<1>2. ASSUME NEW p \in Keeper, NEW id \in ReceiptId, SavesReceipt(p, id) PROVE NotebookInv'
  <2>1. Revision(memo[p].known, id) = 0 /\ Begins(p, id, Revision(memo[p].known, id) + 1)
    BY <1>2 DEF SavesReceipt
  <2> QED BY <2>1, BeginKeeps
<1>3. CASE UNCHANGED notebookVars
  BY <1>3 DEF notebookVars, NotebookInv, NotebookTyped, Alive, LockHeld, Appending, KnownBefore, RowFollows,
              RowAfter, Acknowledged
<1>4. CASE NotebookNext
  BY <1>1, <1>2, <1>4, LoadKeeps, LockKeeps, WriteKeeps, KillKeeps, MachineKeeps DEF NotebookNext
<1> QED BY <1>3, <1>4

\* Whatever is killed, torn or lost: an acknowledged row stays, and the rows of the file follow
\* one another in the revisions of each note, for any processes, notes and receipts.
THEOREM NotebookCorrect == ASSUME NoteId \cap ReceiptId = {} PROVE NotebookSpec => []NotebookSound
<1>1. NotebookInv => NotebookSound
  <2> SUFFICES ASSUME NotebookInv PROVE NotebookSound
    OBVIOUS
  <2>1. file.rows \in Seq(Row) /\ file.synced \in Nat /\ Len(file.rows) \in Nat
    BY JournalMeaning DEF NotebookInv, NotebookTyped
  <2>2. promised \subseteq Range(file.rows)
    BY <2>1 DEF NotebookInv, Acknowledged, Range
  <2> QED BY <2>2 DEF NotebookInv, NotebookSound, Numbered, RowFollows, RowAfter
<1>2. NotebookInv /\ [NotebookNext]_notebookVars => NotebookInv'
  BY NotebookStep
<1> QED BY <1>1, <1>2, NotebookInitial, PTL DEF NotebookSpec

-----------------------------------------------------------------------------
(* Setting up a new host.                                                  *)

SparkSpec == SparkInit /\ [][SparkNext]_sparkVars

AnyStage == Stages \cup {"none"}
HostStatus ==
  [state : {"not_started", "running", "prepared_stopped", "needs_attention", "unavailable"},
   media : {"none", "not required", "running", "qualified_stopped", "needs_attention"},
   llm : {"none", "running", "qualified_serving", "needs_attention"}]
CallStep == {"none", "begun", "add", "added", "resume", "resumed"}
SparkTyped ==
  /\ host \in HostStatus /\ host.state # "unavailable"
  /\ request \in [state : {"none", "requested", "working", "observing", "waiting_for_genie",
                           "needs_attention", "complete"},
                  dispatched : AnyStage, pending : AnyStage, id : Nat]
  /\ tickStep = [phase |-> tickStep.phase, seen |-> tickStep.seen, enlisted |-> tickStep.enlisted,
                 stage |-> tickStep.stage]
  /\ tickStep.phase \in {"idle", "read", "submit", "note"}
  /\ prompt \in [stage : AnyStage, ids : SUBSET (Stages \X Nat), last : Nat]
  /\ call \in [action : AnyStage, step : CallStep]
  /\ worker \in {"absent", "paused", "serving"} /\ adds \in Nat

\* A stage is reached that the host has all for, and past when the host never asks for it
\* again.
Reached(h, s) ==
  /\ s \in {"qualify_spark_media", "qualify_spark_llm", "register_spark_llm"} => h.state = "prepared_stopped"
  /\ s = "qualify_spark_media" => h.media # "not required"
  /\ s \in {"qualify_spark_llm", "register_spark_llm"} => h.media \in {"not required", "qualified_stopped"}
  /\ s = "register_spark_llm" => h.llm = "qualified_serving"
Past(h, s) ==
  CASE s = "prepare_spark" -> h.state # "not_started"
    [] s = "qualify_spark_media" -> h.media # "none"
    [] s = "qualify_spark_llm" -> h.llm # "none"
    [] OTHER -> FALSE

\* A qualification of the LLM begins when all before it is done.
LlmLast == /\ host.llm # "none" => Reached(host, "qualify_spark_llm")
           /\ host.media \notin {"none", "not required"} => host.state = "prepared_stopped"

\* Every stage anybody names was reached.
StagesReached ==
  /\ \A s \in {request.dispatched, request.pending, prompt.stage, call.action} : s # "none" => Reached(host, s)
  /\ \A p \in prompt.ids : Reached(host, p[1])

\* While a tick holds a snapshot nobody moves the host but the host itself, so what the
\* snapshot says of beginnings and ends is still so.
SnapshotTrue ==
  tickStep.phase = "read" =>
    LET h == tickStep.seen[1]
    IN  /\ h.state # "unavailable" =>
             /\ h.state = "not_started" <=> host.state = "not_started"
             /\ h.state = "prepared_stopped" => host.state = "prepared_stopped"
        /\ h.media = "none" <=> host.media = "none"
        /\ h.media = "not required" <=> host.media = "not required"
        /\ h.media = "qualified_stopped" => host.media = "qualified_stopped"
        /\ h.llm = "none" <=> host.llm = "none"
        /\ h.llm = "qualified_serving" => host.llm = "qualified_serving"

\* The stage that is pending was prompted for under its own identity or not at all, and what
\* was dispatched before it is past.
PendingFresh ==
  request.pending # "none" =>
    /\ \A p \in prompt.ids : p[1] = request.pending => p[2] = request.id
    /\ request.dispatched # "none" => request.dispatched # request.pending /\ Past(host, request.dispatched)
TickHolds ==
  /\ tickStep.phase \in {"submit", "note"} =>
       tickStep.stage \in Stages /\ request.pending = tickStep.stage
  /\ tickStep.phase # "idle" => request.state \notin {"none", "complete", "needs_attention"}
  /\ tickStep.phase \in {"read", "submit"} => prompt.stage = "none"
  /\ tickStep.phase = "note" => <<tickStep.stage, request.id>> \in prompt.ids

\* A prompt that was given is of a stage that is past, dispatched or pending.
PromptsKept ==
  /\ request.state # "complete" =>
       \A p \in prompt.ids : Past(host, p[1]) \/ p[1] \in {request.dispatched, request.pending}
  /\ \A p, q \in prompt.ids : p[1] = q[1] => p = q

\* Who no longer asks is not called.
CallAsked == call # NoCall => prompt.stage # "none" /\ call.action = prompt.stage

\* The registration goes from its file to the worker.
WorkerAdded ==
  /\ worker = "absent" <=> adds = 0
  /\ adds <= 1
  /\ worker # "absent" \/ call.step = "add" => host.llm = "qualified_serving" /\ enlisted # "none"
  /\ call.step \in {"added", "resume"} => worker # "absent"
  /\ call.step = "resumed" => worker = "serving"
  /\ enlisted = "registered_serving" => worker = "serving"
  /\ tickStep.phase = "read" /\ tickStep.enlisted = "registered_serving" => worker = "serving"
  /\ request.state = "complete" => worker = "serving"

SparkInv ==
  /\ SparkTyped /\ LlmLast /\ StagesReached /\ SnapshotTrue /\ PendingFresh /\ TickHolds
  /\ PromptsKept /\ CallAsked /\ WorkerAdded

LEMMA StageNames ==
  /\ \A s \in Stages : s # "none"
  /\ Stages = {"prepare_spark", "qualify_spark_media", "qualify_spark_llm", "register_spark_llm"}
BY DEF Stages

LEMMA RecordExcept ==
  ASSUME NEW e, NEW s
  PROVE  [[phase |-> "idle", seen |-> e, enlisted |-> "none", stage |-> "none"] EXCEPT !.phase = "submit", !.stage = s]
           = [phase |-> "submit", seen |-> e, enlisted |-> "none", stage |-> s]
<1> DEFINE old == [phase |-> "idle", seen |-> e, enlisted |-> "none", stage |-> "none"]
           new == [old EXCEPT !.phase = "submit", !.stage = s]
           kept == [phase : {"idle", "submit"}, seen : {e}, enlisted : {"none"}, stage : {"none", s}]
<1>1. old \in kept /\ [phase |-> "submit", seen |-> e, enlisted |-> "none", stage |-> s] \in kept
  OBVIOUS
<1>2. new \in kept
  <2> HIDE DEF old
  <2> QED BY <1>1
<1>3. new.phase = "submit" /\ new.stage = s /\ new.seen = e /\ new.enlisted = "none"
  BY <1>2
<1> HIDE DEF new
<1>4. new = [phase |-> "submit", seen |-> e, enlisted |-> "none", stage |-> s]
  BY <1>2, <1>3
<1> USE DEF new
<1> QED BY <1>4

LEMMA NoTickMeaning ==
  /\ NoTick.phase = "idle" /\ NoTick.stage = "none"
  /\ NoTick = [phase |-> NoTick.phase, seen |-> NoTick.seen, enlisted |-> NoTick.enlisted, stage |-> NoTick.stage]
  /\ \A s : LET t == [NoTick EXCEPT !.phase = "submit", !.stage = s]
            IN  /\ t.phase = "submit" /\ t.stage = s
                /\ t = [phase |-> t.phase, seen |-> t.seen, enlisted |-> t.enlisted, stage |-> t.stage]
<1> DEFINE e == <<>>
<1>1. NoTick = [phase |-> "idle", seen |-> e, enlisted |-> "none", stage |-> "none"]
  BY DEF NoTick
<1> HIDE DEF e
<1>2. ASSUME NEW s
      PROVE  LET t == [NoTick EXCEPT !.phase = "submit", !.stage = s]
             IN  /\ t.phase = "submit" /\ t.stage = s
                 /\ t = [phase |-> t.phase, seen |-> t.seen, enlisted |-> t.enlisted, stage |-> t.stage]
  <2> DEFINE t == [NoTick EXCEPT !.phase = "submit", !.stage = s]
  <2>1. t = [phase |-> "submit", seen |-> e, enlisted |-> "none", stage |-> s]
    BY <1>1, RecordExcept
  <2> HIDE DEF t
  <2>2. t.phase = "submit" /\ t.stage = s /\ t.seen = e /\ t.enlisted = "none"
    BY <2>1
  <2>3. t = [phase |-> t.phase, seen |-> t.seen, enlisted |-> t.enlisted, stage |-> t.stage]
    BY <2>1, <2>2
  <2> USE DEF t
  <2> QED BY <2>2, <2>3
<1>3. /\ NoTick.phase = "idle" /\ NoTick.stage = "none"
      /\ NoTick = [phase |-> NoTick.phase, seen |-> NoTick.seen, enlisted |-> NoTick.enlisted, stage |-> NoTick.stage]
  BY <1>1
<1> QED BY <1>2, <1>3

\* The stage a snapshot asks for was reached and is not past; all others that were
\* reached are.
LEMMA StageAsked ==
  ASSUME SparkTyped, LlmLast, SnapshotTrue, tickStep.phase = "read", NEW t,
         tickStep.seen[1].state # "unavailable", t = NextStage(tickStep.seen[1]), t # "none"
  PROVE  /\ t \in Stages /\ Reached(host, t) /\ ~Past(host, t)
         /\ \A s \in Stages \ {t} : Reached(host, s) => Past(host, s)
<1> DEFINE h == tickStep.seen[1]
<1>1. /\ h.state = "not_started" <=> host.state = "not_started"
      /\ h.state = "prepared_stopped" => host.state = "prepared_stopped"
      /\ h.media = "none" <=> host.media = "none"
      /\ h.media = "not required" <=> host.media = "not required"
      /\ h.media = "qualified_stopped" => host.media = "qualified_stopped"
      /\ h.llm = "none" <=> host.llm = "none"
      /\ h.llm = "qualified_serving" => host.llm = "qualified_serving"
  BY DEF SnapshotTrue
<1>2. t = NextStage(h)
  OBVIOUS
<1> HIDE DEF h
<1>3. \/ t = "prepare_spark" /\ h.state = "not_started"
      \/ t = "qualify_spark_media" /\ h.state = "prepared_stopped" /\ h.media = "none" /\ h.llm = "none"
      \/ /\ t = "qualify_spark_llm" /\ h.state = "prepared_stopped" /\ h.llm = "none"
         /\ h.media \in {"not required", "qualified_stopped"}
      \/ t = "register_spark_llm" /\ h.llm = "qualified_serving"
  BY <1>2 DEF NextStage
<1>4. t \in Stages
  BY <1>3, StageNames
<1> QED BY <1>1, <1>3, <1>4, StageNames DEF Reached, Past, LlmLast

\* The host only goes forward.
Forward ==
  /\ host' \in HostStatus /\ host'.state # "unavailable"
  /\ \A s \in Stages : (Reached(host, s) => Reached(host', s)) /\ (Past(host, s) => Past(host', s))
  /\ host'.llm = "none" \/ Reached(host', "qualify_spark_llm")
  /\ host'.media \notin {"none", "not required"} => host'.state = "prepared_stopped"
  /\ host.llm = "qualified_serving" => host'.llm = "qualified_serving"

LEMMA HostForward ==
  ASSUME SparkInv, HostEnds \/ HostFails \/ HostResumes \/ CallStarts
  PROVE  /\ Forward
         /\ tickStep.phase = "read" =>
              /\ host'.state = "not_started" <=> host.state = "not_started"
              /\ host.state = "prepared_stopped" => host'.state = "prepared_stopped"
              /\ host'.media = "none" <=> host.media = "none"
              /\ host'.media = "not required" <=> host.media = "not required"
              /\ host.media = "qualified_stopped" => host'.media = "qualified_stopped"
              /\ host'.llm = "none" <=> host.llm = "none"
<1>1. /\ host \in HostStatus /\ host.state # "unavailable"
      /\ host.llm # "none" => Reached(host, "qualify_spark_llm")
      /\ host.media \notin {"none", "not required"} => host.state = "prepared_stopped"
  BY DEF SparkInv, SparkTyped, LlmLast
<1>2. CASE HostEnds \/ HostFails
  <2>1. \/ host.state = "running" /\ \E v \in {"prepared_stopped", "needs_attention"} : host' = [host EXCEPT !.state = v]
        \/ host.media = "running" /\ \E v \in {"qualified_stopped", "needs_attention"} : host' = [host EXCEPT !.media = v]
        \/ host.llm = "running" /\ \E v \in {"qualified_serving", "needs_attention"} : host' = [host EXCEPT !.llm = v]
    BY <1>2 DEF HostEnds, HostFails
  <2> QED BY <1>1, <2>1, StageNames DEF Forward, HostStatus, Reached, Past
<1>3. CASE HostResumes
  <2>1. \/ host.state = "needs_attention" /\ host' = [host EXCEPT !.state = "running"]
        \/ host.media = "needs_attention" /\ host' = [host EXCEPT !.media = "running"]
        \/ host.llm = "needs_attention" /\ host' = [host EXCEPT !.llm = "running"]
    BY <1>3 DEF HostResumes
  <2> QED BY <1>1, <2>1, StageNames DEF Forward, HostStatus, Reached, Past
<1>4. CASE CallStarts
  <2>1. /\ call.action \in Stages /\ call.action # "register_spark_llm"
        /\ \/ call.action = "prepare_spark" /\ host.state = "not_started" /\ host' = [host EXCEPT !.state = "running"]
           \/ call.action = "qualify_spark_media" /\ host.media = "none" /\ host' = [host EXCEPT !.media = "running"]
           \/ call.action = "qualify_spark_llm" /\ host.llm = "none" /\ host' = [host EXCEPT !.llm = "running"]
           \/ host' = host
    BY <1>4 DEF CallStarts
  <2>2. call # NoCall /\ call.action # "none"
    BY <2>1, StageNames DEF NoCall
  <2>3. tickStep.phase # "read" /\ Reached(host, call.action)
    BY <2>2 DEF SparkInv, CallAsked, TickHolds, StagesReached
  <2> QED BY <1>1, <2>1, <2>3, StageNames DEF Forward, HostStatus, Reached, Past
<1> QED BY <1>2, <1>3, <1>4

\* What the host does alone changes nothing of what is said of the rest.
LEMMA ForwardKeeps ==
  ASSUME SparkInv, Forward, UNCHANGED <<request, tickStep, prompt, enlisted, worker, adds>>,
         call' = call \/ call' = NoCall, SnapshotTrue'
  PROVE  SparkInv'
<1> USE DEF SparkInv
<1>1. NoCall \in [action : AnyStage, step : CallStep]
      /\ NoCall.action = "none" /\ NoCall.step = "none"
  BY DEF NoCall, AnyStage, CallStep
<1>2. SparkTyped' /\ LlmLast'
  BY <1>1 DEF SparkTyped, LlmLast, Forward
<1>3. request.dispatched \in AnyStage /\ request.pending \in AnyStage /\ prompt.ids \in SUBSET (Stages \X Nat)
      /\ prompt.stage \in AnyStage /\ call.action \in AnyStage
  BY DEF SparkTyped
<1>4. StagesReached'
  BY <1>1, <1>3 DEF StagesReached, Forward, AnyStage
<1>5. PendingFresh' /\ PromptsKept'
  BY <1>3 DEF PendingFresh, PromptsKept, Forward, AnyStage
<1>6. TickHolds' /\ CallAsked' /\ WorkerAdded'
  BY <1>1 DEF TickHolds, CallAsked, WorkerAdded, Forward
<1> QED BY <1>2, <1>4, <1>5, <1>6

LEMMA HostKeeps ==
  ASSUME SparkInv, HostEnds \/ HostFails \/ HostResumes \/ CallStarts
  PROVE  SparkInv'
<1> USE DEF SparkInv
<1>1. Forward
  BY HostForward
<1>2. UNCHANGED tickStep => SnapshotTrue'
  BY HostForward DEF SnapshotTrue, Forward
<1>3. CASE HostEnds \/ HostFails
  BY <1>1, <1>2, <1>3, ForwardKeeps DEF HostEnds, HostFails
<1>4. CASE CallStarts
  BY <1>1, <1>2, <1>4, ForwardKeeps DEF CallStarts
<1>5. CASE HostResumes /\ UNCHANGED request
  BY <1>1, <1>2, <1>5, ForwardKeeps DEF HostResumes
<1>6. CASE HostResumes /\ request' # request
  <2>1. /\ host.state = "needs_attention" /\ host' = [host EXCEPT !.state = "running"]
        /\ request.state = "needs_attention" /\ request' = PreparationResumed(request)
        /\ UNCHANGED <<tickStep, prompt, call, enlisted, worker, adds>>
    BY <1>6 DEF HostResumes
  <2>2. tickStep.phase = "idle"
    BY <2>1 DEF TickHolds, SparkTyped
  <2>3. /\ request \in [state : {"none", "requested", "working", "observing", "waiting_for_genie",
                                 "needs_attention", "complete"},
                        dispatched : AnyStage, pending : AnyStage, id : Nat]
        /\ prompt.ids \in SUBSET (Stages \X Nat) /\ prompt.stage \in AnyStage /\ call.action \in AnyStage
    BY DEF SparkTyped
  <2>4. /\ request' \in [state : {"none", "requested", "working", "observing", "waiting_for_genie",
                                 "needs_attention", "complete"},
                        dispatched : AnyStage, pending : AnyStage, id : Nat]
        /\ request'.state = "working" /\ request'.pending = "none"
        /\ request'.dispatched = IF request.dispatched = "prepare_spark" THEN "none" ELSE request.dispatched
    BY <2>1, <2>3 DEF PreparationResumed, AnyStage
  <2>5. SparkTyped' /\ LlmLast' /\ SnapshotTrue'
    BY <1>1, <2>1, <2>2, <2>4 DEF SparkTyped, LlmLast, Forward, SnapshotTrue
  <2>6. StagesReached'
    BY <1>1, <2>1, <2>3, <2>4 DEF StagesReached, Forward, AnyStage
  <2>7. PendingFresh' /\ TickHolds' /\ CallAsked' /\ WorkerAdded'
    BY <1>1, <2>1, <2>2, <2>4 DEF PendingFresh, TickHolds, CallAsked, WorkerAdded, Forward
  <2>8. ASSUME NEW p \in prompt.ids PROVE Past(host, p[1]) \/ p[1] = request'.dispatched
    <3>1. p[1] \in Stages /\ Reached(host, p[1])
      BY <2>3 DEF StagesReached
    <3>2. p[1] = "prepare_spark"
      BY <2>1, <3>1, StageNames DEF Reached
    <3> QED BY <2>1, <3>2 DEF Past
  <2>9. PromptsKept'
    BY <1>1, <2>1, <2>3, <2>8 DEF PromptsKept, Forward
  <2> QED BY <2>5, <2>6, <2>7, <2>9
<1> QED BY <1>3, <1>4, <1>5, <1>6

\* The owner asks, or asks again.
LEMMA RequestKeeps == ASSUME SparkInv, SetupRequested PROVE SparkInv'
<1> USE DEF SparkInv
<1>1. /\ request' = [NoRequest EXCEPT !.state = "requested"]
      /\ prompt' = [prompt EXCEPT !.ids = {}, !.last = 0]
      /\ UNCHANGED <<host, tickStep, call, enlisted, worker, adds>>
      /\ request.state \in {"none", "needs_attention"}
  BY DEF SetupRequested
<1>2. tickStep.phase = "idle"
  BY <1>1 DEF TickHolds, SparkTyped
<1>3. prompt \in [stage : AnyStage, ids : SUBSET (Stages \X Nat), last : Nat]
  BY DEF SparkTyped
<1>4. /\ request' = [state |-> "requested", dispatched |-> "none", pending |-> "none", id |-> 0]
      /\ prompt'.ids = {} /\ prompt'.stage = prompt.stage
      /\ prompt' \in [stage : AnyStage, ids : SUBSET (Stages \X Nat), last : Nat]
  BY <1>1, <1>3 DEF NoRequest
<1>5. SparkTyped' /\ LlmLast' /\ SnapshotTrue'
  <2>1. request' \in [state : {"none", "requested", "working", "observing", "waiting_for_genie",
                               "needs_attention", "complete"},
                      dispatched : AnyStage, pending : AnyStage, id : Nat]
    BY <1>4 DEF AnyStage
  <2>2. SparkTyped'
    BY <1>1, <1>4, <2>1 DEF SparkTyped
  <2>3. LlmLast' /\ SnapshotTrue'
    BY <1>1, <1>2 DEF LlmLast, SnapshotTrue
  <2> QED BY <2>2, <2>3
<1>6. StagesReached' /\ PendingFresh' /\ TickHolds' /\ PromptsKept' /\ CallAsked' /\ WorkerAdded'
  BY <1>1, <1>2, <1>4 DEF StagesReached, PendingFresh, TickHolds, PromptsKept, CallAsked, WorkerAdded
<1> QED BY <1>5, <1>6

LEMMA ReadKeeps == ASSUME SparkInv, TickReads PROVE SparkInv'
<1> USE DEF SparkInv
<1>1. PICK seen \in StatusRead :
        tickStep' = [phase |-> "read", seen |-> <<seen>>, enlisted |-> enlisted, stage |-> "none"]
  BY DEF TickReads
<1>2. /\ prompt.stage = "none" /\ request.state \notin {"none", "complete", "needs_attention"}
      /\ UNCHANGED <<host, request, prompt, call, enlisted, worker, adds>>
  BY DEF TickReads
<1>3. host \in HostStatus
  BY DEF SparkTyped
<1>4. seen.state \in {host.state, "unavailable"} /\ seen.media = host.media /\ seen.llm = host.llm
  BY <1>3 DEF StatusRead, HostStatus
<1>5. /\ tickStep'.phase = "read" /\ tickStep'.seen[1] = seen /\ tickStep'.enlisted = enlisted
      /\ tickStep' = [phase |-> tickStep'.phase, seen |-> tickStep'.seen, enlisted |-> tickStep'.enlisted,
                      stage |-> tickStep'.stage]
  BY <1>1
<1>6. SparkTyped' /\ LlmLast' /\ SnapshotTrue'
  <2>1. SparkTyped'
    BY <1>2, <1>5 DEF SparkTyped
  <2>2. LlmLast' /\ SnapshotTrue'
    BY <1>2, <1>4, <1>5 DEF LlmLast, SnapshotTrue
  <2> QED BY <2>1, <2>2
<1>7. StagesReached' /\ PendingFresh' /\ TickHolds' /\ PromptsKept' /\ CallAsked' /\ WorkerAdded'
  BY <1>2, <1>5 DEF StagesReached, PendingFresh, TickHolds, PromptsKept, CallAsked, WorkerAdded
<1> QED BY <1>6, <1>7

\* A pass ends with a word on the request, and only what is served is complete.
LEMMA PassEnds ==
  ASSUME SparkInv, tickStep.phase = "read",
         NEW state \in {"needs_attention", "observing", "complete", "working"},
         state = "complete" => tickStep.enlisted = "registered_serving",
         request' = [request EXCEPT !.state = state, !.pending = IF state = "complete" THEN "none" ELSE @],
         tickStep' = NoTick, UNCHANGED <<prompt, host, call, enlisted, worker, adds>>
  PROVE  SparkInv'
<1> USE DEF SparkInv
<1>1. request \in [state : {"none", "requested", "working", "observing", "waiting_for_genie",
                            "needs_attention", "complete"},
                   dispatched : AnyStage, pending : AnyStage, id : Nat]
  BY DEF SparkTyped
<1>2. /\ request' \in [state : {"none", "requested", "working", "observing", "waiting_for_genie",
                            "needs_attention", "complete"},
                   dispatched : AnyStage, pending : AnyStage, id : Nat]
      /\ request'.state = state /\ request'.dispatched = request.dispatched /\ request'.id = request.id
      /\ request'.pending = IF state = "complete" THEN "none" ELSE request.pending
  BY <1>1 DEF AnyStage
<1>3. SparkTyped' /\ LlmLast' /\ SnapshotTrue'
  BY <1>2, NoTickMeaning DEF SparkTyped, LlmLast, SnapshotTrue
<1>4. StagesReached' /\ TickHolds' /\ CallAsked'
  BY <1>2, NoTickMeaning DEF StagesReached, TickHolds, CallAsked
<1>5. PendingFresh'
  BY <1>2 DEF PendingFresh
<1>6. PromptsKept'
  BY <1>2 DEF PromptsKept, TickHolds
<1>7. WorkerAdded'
  BY <1>2, NoTickMeaning DEF WorkerAdded
<1> QED BY <1>3, <1>4, <1>5, <1>6, <1>7

\* A pass asks for the next stage.
LEMMA PassAsks ==
  ASSUME SparkInv, tickStep.phase = "read", NEW s, s = NextStage(tickStep.seen[1]), s # "none",
         tickStep.seen[1].state # "unavailable", ~StaleStage(s),
         request' = IF request.pending = s THEN request
                    ELSE [request EXCEPT !.pending = s, !.id = prompt.last + 1],
         prompt' = IF request.pending = s THEN prompt ELSE [prompt EXCEPT !.last = @ + 1],
         tickStep' = [NoTick EXCEPT !.phase = "submit", !.stage = s],
         UNCHANGED <<host, call, enlisted, worker, adds>>
  PROVE  SparkInv'
<1> USE DEF SparkInv
<1>1. /\ s \in Stages /\ Reached(host, s) /\ ~Past(host, s)
      /\ \A t \in Stages \ {s} : Reached(host, t) => Past(host, t)
  BY StageAsked
<1>2. /\ request \in [state : {"none", "requested", "working", "observing", "waiting_for_genie",
                            "needs_attention", "complete"},
                   dispatched : AnyStage, pending : AnyStage, id : Nat]
      /\ prompt \in [stage : AnyStage, ids : SUBSET (Stages \X Nat), last : Nat]
  BY DEF SparkTyped
<1>3. /\ request' \in [state : {"none", "requested", "working", "observing", "waiting_for_genie",
                            "needs_attention", "complete"},
                   dispatched : AnyStage, pending : AnyStage, id : Nat]
      /\ prompt' \in [stage : AnyStage, ids : SUBSET (Stages \X Nat), last : Nat]
      /\ request'.state = request.state /\ request'.dispatched = request.dispatched
      /\ request'.pending = s /\ (request.pending = s => request' = request)
      /\ prompt'.ids = prompt.ids /\ prompt'.stage = prompt.stage
  <2>1. CASE request.pending = s
    BY <1>2, <2>1
  <2>2. CASE request.pending # s
    <3>1. request' = [request EXCEPT !.pending = s, !.id = prompt.last + 1]
          /\ prompt' = [prompt EXCEPT !.last = prompt.last + 1]
      BY <2>2
    <3>2. s \in AnyStage /\ prompt.last + 1 \in Nat
      BY <1>1, <1>2 DEF AnyStage
    <3>3. /\ request'.state = request.state /\ request'.dispatched = request.dispatched /\ request'.pending = s
          /\ request' \in [state : {"none", "requested", "working", "observing", "waiting_for_genie",
                                    "needs_attention", "complete"},
                           dispatched : AnyStage, pending : AnyStage, id : Nat]
      BY <1>2, <3>1, <3>2
    <3>4. /\ prompt' \in [stage : AnyStage, ids : SUBSET (Stages \X Nat), last : Nat]
          /\ prompt'.ids = prompt.ids /\ prompt'.stage = prompt.stage
      BY <1>2, <3>1, <3>2
    <3> QED BY <2>2, <3>3, <3>4
  <2> QED BY <2>1, <2>2
<1>4. /\ tickStep'.phase = "submit" /\ tickStep'.stage = s
      /\ tickStep' = [phase |-> tickStep'.phase, seen |-> tickStep'.seen, enlisted |-> tickStep'.enlisted,
                      stage |-> tickStep'.stage]
  BY NoTickMeaning
<1>5. SparkTyped' /\ LlmLast' /\ SnapshotTrue'
  BY <1>3, <1>4 DEF SparkTyped, LlmLast, SnapshotTrue
<1>6. StagesReached'
  BY <1>1, <1>3 DEF StagesReached
<1>7. request.dispatched # "none" => request.dispatched # s /\ Past(host, request.dispatched)
  <2>1. request.dispatched = s => request.pending # "none"
    BY DEF StaleStage
  <2>2. request.dispatched # s
    BY <1>1, <2>1, StageNames DEF PendingFresh
  <2>3. request.dispatched # "none" => request.dispatched \in Stages \ {s} /\ Reached(host, request.dispatched)
    BY <1>2, <2>2 DEF AnyStage, StagesReached
  <2> QED BY <1>1, <2>2, <2>3
<1>8. ASSUME request.pending # s, NEW p \in prompt.ids PROVE p[1] # s
  <2>1. p[1] \in Stages /\ request.state # "complete"
    BY <1>2 DEF TickHolds
  <2> QED BY <1>1, <1>7, <1>8, <2>1, StageNames DEF PromptsKept
<1>9. PendingFresh'
  BY <1>3, <1>7, <1>8 DEF PendingFresh
<1>10. PromptsKept'
  <2>1. ASSUME NEW p \in prompt.ids PROVE Past(host, p[1]) \/ p[1] \in {request.dispatched, s}
    <3>1. p[1] \in Stages /\ Reached(host, p[1])
      BY <1>2 DEF StagesReached
    <3> QED BY <1>1, <3>1
  <2> QED BY <1>3, <2>1 DEF PromptsKept
<1>11. TickHolds' /\ CallAsked' /\ WorkerAdded'
  BY <1>1, <1>3, <1>4 DEF TickHolds, CallAsked, WorkerAdded
<1> QED BY <1>5, <1>6, <1>9, <1>10, <1>11

LEMMA JudgeKeeps == ASSUME SparkInv, TickJudges PROVE SparkInv'
<1> DEFINE h == tickStep.seen[1]
           e == tickStep.enlisted
           s == NextStage(h)
           Ends(state) == /\ request' = [request EXCEPT !.state = state,
                                 !.pending = IF state = "complete" THEN "none" ELSE @]
                          /\ tickStep' = NoTick /\ prompt' = prompt
<1>1. tickStep.phase = "read" /\ UNCHANGED <<host, call, enlisted, worker, adds>>
  BY DEF TickJudges
<1>2. request.state \notin {"complete", "needs_attention"}
  BY <1>1 DEF SparkInv, TickHolds
<1>3. \/ Ends("needs_attention") \/ Ends("observing") \/ Ends("working")
      \/ e = "registered_serving" /\ Ends("complete")
      \/ /\ h.state # "unavailable" /\ s # "none" /\ ~StaleStage(s)
         /\ request' = IF request.pending = s THEN request
                       ELSE [request EXCEPT !.pending = s, !.id = prompt.last + 1]
         /\ prompt' = IF request.pending = s THEN prompt ELSE [prompt EXCEPT !.last = @ + 1]
         /\ tickStep' = [NoTick EXCEPT !.phase = "submit", !.stage = s]
  BY <1>2 DEF TickJudges
<1>4. CASE Ends("needs_attention") \/ Ends("observing") \/ Ends("working") \/ (e = "registered_serving" /\ Ends("complete"))
  BY <1>1, <1>4, PassEnds
<1> QED BY <1>1, <1>3, <1>4, PassAsks

LEMMA SubmitKeeps == ASSUME SparkInv, TickSubmits PROVE SparkInv'
<1> USE DEF SparkInv
<1>1. /\ tickStep.phase = "submit" /\ tickStep' = [tickStep EXCEPT !.phase = "note"]
      /\ UNCHANGED <<host, request, call, enlisted, worker, adds>>
  BY DEF TickSubmits
<1> DEFINE new == <<tickStep.stage, request.id>>
<1>2. /\ tickStep.stage \in Stages /\ request.pending = tickStep.stage /\ prompt.stage = "none"
      /\ Reached(host, tickStep.stage) /\ request.id \in Nat
  BY <1>1, StageNames DEF TickHolds, StagesReached, SparkTyped
<1>3. /\ prompt \in [stage : AnyStage, ids : SUBSET (Stages \X Nat), last : Nat]
      /\ new \in Stages \X Nat /\ new[1] = tickStep.stage /\ new[2] = request.id
  BY <1>2 DEF SparkTyped
<1>4. /\ prompt' \in [stage : AnyStage, ids : SUBSET (Stages \X Nat), last : Nat]
      /\ prompt'.ids = prompt.ids \cup {new}
      /\ prompt'.stage \in {"none", tickStep.stage}
  BY <1>2, <1>3 DEF TickSubmits, AnyStage
<1>5. /\ tickStep'.phase = "note" /\ tickStep'.stage = tickStep.stage
      /\ tickStep' = [phase |-> tickStep'.phase, seen |-> tickStep'.seen, enlisted |-> tickStep'.enlisted,
                      stage |-> tickStep'.stage]
  BY <1>1 DEF SparkTyped
<1>6. SparkTyped' /\ LlmLast' /\ SnapshotTrue' /\ TickHolds' /\ WorkerAdded'
  <2>1. request.state \notin {"none", "complete", "needs_attention"}
    BY <1>1 DEF TickHolds
  <2> HIDE DEF new
  <2> QED BY <1>1, <1>2, <1>3, <1>4, <1>5, <2>1 DEF SparkTyped, LlmLast, SnapshotTrue, TickHolds, WorkerAdded, new
<1> HIDE DEF new
<1>7. call = NoCall
  BY <1>2 DEF CallAsked
<1>8. StagesReached' /\ CallAsked'
  BY <1>1, <1>2, <1>3, <1>4, <1>7 DEF StagesReached, CallAsked
<1>9. PendingFresh'
  BY <1>1, <1>2, <1>3, <1>4 DEF PendingFresh
<1>10. ASSUME NEW p \in prompt.ids, p[1] = new[1] PROVE p = new
  <2>1. p[2] = new[2]
    BY <1>2, <1>3, <1>10, StageNames DEF PendingFresh
  <2> QED BY <1>3, <1>10, <2>1
<1>11. PromptsKept'
  <2>1. \A p, q \in prompt'.ids : p[1] = q[1] => p = q
    BY <1>4, <1>10 DEF PromptsKept
  <2> QED BY <1>1, <1>2, <1>3, <1>4, <2>1 DEF PromptsKept
<1> QED BY <1>6, <1>8, <1>9, <1>11

LEMMA NoteKeeps == ASSUME SparkInv, TickNotes PROVE SparkInv'
<1> USE DEF SparkInv
<1>1. /\ tickStep.phase = "note" /\ tickStep' = NoTick
      /\ request' = [request EXCEPT !.state = "waiting_for_genie", !.dispatched = tickStep.stage, !.pending = "none"]
      /\ UNCHANGED <<host, prompt, call, enlisted, worker, adds>>
  BY DEF TickNotes
<1>2. /\ tickStep.stage \in Stages /\ request.pending = tickStep.stage
      /\ request \in [state : {"none", "requested", "working", "observing", "waiting_for_genie",
                            "needs_attention", "complete"},
                   dispatched : AnyStage, pending : AnyStage, id : Nat]
      /\ request.state # "complete"
  BY <1>1 DEF SparkTyped, TickHolds
<1>3. /\ request' \in [state : {"none", "requested", "working", "observing", "waiting_for_genie",
                            "needs_attention", "complete"},
                   dispatched : AnyStage, pending : AnyStage, id : Nat]
      /\ request'.state = "waiting_for_genie" /\ request'.dispatched = request.pending /\ request'.pending = "none"
  BY <1>1, <1>2 DEF AnyStage
<1>4. SparkTyped' /\ LlmLast' /\ SnapshotTrue'
  BY <1>1, <1>3, NoTickMeaning DEF SparkTyped, LlmLast, SnapshotTrue
<1>5. StagesReached' /\ PendingFresh' /\ TickHolds' /\ CallAsked' /\ WorkerAdded'
  <2>1. request.pending # "none" => Reached(host, request.pending)
    BY DEF StagesReached
  <2>2. StagesReached'
    BY <1>1, <1>3, <2>1 DEF StagesReached
  <2>3. PendingFresh' /\ CallAsked'
    BY <1>1, <1>3 DEF PendingFresh, CallAsked
  <2>4. TickHolds'
    BY <1>1, <1>3, NoTickMeaning DEF TickHolds
  <2>5. WorkerAdded'
    BY <1>1, <1>3, NoTickMeaning DEF WorkerAdded
  <2> QED BY <2>2, <2>3, <2>4, <2>5
<1>6. request.dispatched # "none" => Past(host, request.dispatched)
  BY <1>2, StageNames DEF PendingFresh
<1>7. \A p \in prompt.ids : p[1] # "none"
  BY StageNames DEF SparkTyped
<1>8. PromptsKept'
  BY <1>1, <1>2, <1>3, <1>6, <1>7 DEF PromptsKept
<1> QED BY <1>4, <1>5, <1>8

\* Genie calls and ends, the registration goes its steps, the dashboard dies.
LEMMA RestKeeps ==
  ASSUME SparkInv, GenieCalls \/ GenieEnds \/ EnlistBegins \/ EnlistAsks \/ EnlistSaves \/ EnlistFails \/ DashboardDies
  PROVE  SparkInv'
<1> USE DEF SparkInv
<1>1. /\ NoCall \in [action : AnyStage, step : CallStep]
      /\ NoCall.action = "none" /\ NoCall.step = "none"
  BY DEF NoCall, AnyStage, CallStep
<1>2. /\ call \in [action : AnyStage, step : CallStep]
      /\ prompt \in [stage : AnyStage, ids : SUBSET (Stages \X Nat), last : Nat]
      /\ worker \in {"absent", "paused", "serving"} /\ adds \in Nat
  BY DEF SparkTyped
<1>3. CASE GenieCalls
  <2>1. /\ call' = [action |-> prompt.stage, step |-> "begun"] /\ prompt.stage # "none"
        /\ UNCHANGED <<host, request, tickStep, prompt, enlisted, worker, adds>>
    BY <1>3 DEF GenieCalls
  <2>2. /\ call' \in [action : AnyStage, step : CallStep]
        /\ call'.action = prompt.stage /\ call'.step = "begun"
    BY <1>2, <2>1 DEF CallStep
  <2>3. SparkTyped' /\ LlmLast' /\ SnapshotTrue'
    <3>1. SparkTyped'
      BY <2>1, <2>2 DEF SparkTyped
    <3>2. LlmLast' /\ SnapshotTrue'
      BY <2>1 DEF LlmLast, SnapshotTrue
    <3> QED BY <3>1, <3>2
  <2>4. StagesReached' /\ CallAsked'
    BY <2>1, <2>2 DEF StagesReached, CallAsked
  <2>5. PendingFresh' /\ TickHolds' /\ PromptsKept'
    BY <2>1 DEF PendingFresh, TickHolds, PromptsKept
  <2>6. WorkerAdded'
    BY <2>1, <2>2 DEF WorkerAdded
  <2> QED BY <2>3, <2>4, <2>5, <2>6
<1>4. CASE GenieEnds \/ DashboardDies
  <2>1. /\ prompt' = [prompt EXCEPT !.stage = "none"] \/ (prompt' = prompt /\ tickStep' = NoTick)
        /\ call' = NoCall
        /\ tickStep' \in {tickStep, NoTick}
        /\ UNCHANGED <<host, request, enlisted, worker, adds>>
    BY <1>4 DEF GenieEnds, DashboardDies
  <2>2. /\ prompt' \in [stage : AnyStage, ids : SUBSET (Stages \X Nat), last : Nat]
        /\ prompt'.stage = "none" \/ (prompt'.stage = prompt.stage /\ tickStep' = NoTick)
        /\ prompt'.ids = prompt.ids
    BY <1>2, <2>1 DEF AnyStage
  <2>3. SparkTyped' /\ LlmLast' /\ SnapshotTrue' /\ TickHolds'
    <3>1. tickStep' = [phase |-> tickStep'.phase, seen |-> tickStep'.seen, enlisted |-> tickStep'.enlisted,
                       stage |-> tickStep'.stage]
          /\ tickStep'.phase \in {"idle", "read", "submit", "note"}
      BY <2>1, NoTickMeaning DEF SparkTyped
    <3>2. SparkTyped'
      BY <1>1, <2>1, <2>2, <3>1 DEF SparkTyped
    <3>3. LlmLast'
      BY <2>1 DEF LlmLast
    <3>4. SnapshotTrue'
      <4>1. CASE tickStep' = tickStep
        BY <2>1, <4>1 DEF SnapshotTrue
      <4>2. CASE tickStep' = NoTick
        BY <4>2, NoTickMeaning DEF SnapshotTrue
      <4> QED BY <2>1, <4>1, <4>2
    <3>5. TickHolds'
      <4>1. CASE tickStep' = tickStep
        BY <2>1, <2>2, <4>1 DEF TickHolds
      <4>2. CASE tickStep' = NoTick
        BY <4>2, NoTickMeaning DEF TickHolds
      <4> QED BY <2>1, <4>1, <4>2
    <3> QED BY <3>2, <3>3, <3>4, <3>5
  <2>4. StagesReached' /\ PendingFresh' /\ PromptsKept' /\ CallAsked'
    BY <1>1, <2>1, <2>2 DEF StagesReached, PendingFresh, PromptsKept, CallAsked
  <2>5. WorkerAdded'
    BY <1>1, <2>1, NoTickMeaning DEF WorkerAdded
  <2> QED BY <2>3, <2>4, <2>5
<1>5. CASE EnlistBegins \/ EnlistAsks \/ EnlistSaves \/ EnlistFails
  <2>1. /\ UNCHANGED <<host, request, tickStep, prompt>> /\ call # NoCall
        /\ call' = NoCall \/ \E step \in CallStep : call' = [call EXCEPT !.step = step]
    BY <1>1, <1>5 DEF EnlistBegins, EnlistAsks, EnlistSaves, EnlistFails, CoreEnlists, NoCall, CallStep
  <2>2. /\ call' \in [action : AnyStage, step : CallStep]
        /\ call' = NoCall \/ call'.action = call.action
    BY <1>1, <1>2, <2>1
  <2>3. \/ call'.step = "none" /\ UNCHANGED <<enlisted, worker, adds>>
        \/ /\ call'.step = "add" /\ enlisted' = "registering" /\ enlisted = "none" /\ worker = "absent"
           /\ host.llm = "qualified_serving" /\ UNCHANGED <<worker, adds>>
        \/ /\ call.step = "add" /\ worker = "absent" /\ worker' = "paused" /\ adds' = adds + 1
           /\ \/ call'.step = "added" /\ enlisted' = enlisted
              \/ call'.step = "none" /\ enlisted' = "needs_attention"
        \/ /\ call.step = "added" /\ call'.step = "resume" /\ enlisted' = "registered_paused"
           /\ UNCHANGED <<worker, adds>>
        \/ /\ call.step = "resume" /\ worker' = "serving" /\ adds' = adds
           /\ \/ call'.step = "resumed" /\ enlisted' = enlisted
              \/ call'.step = "none" /\ enlisted' = "needs_attention"
        \/ /\ call.step = "resumed" /\ call'.step = "none" /\ enlisted' = "registered_serving"
           /\ UNCHANGED <<worker, adds>>
        \/ /\ call'.step = "none" /\ call.step # "none" /\ enlisted' = "needs_attention"
           /\ UNCHANGED <<worker, adds>>
    <3>1. CASE EnlistBegins
      BY <1>1, <1>2, <3>1 DEF EnlistBegins
    <3>2. CASE EnlistAsks
      BY <1>1, <1>2, <3>2 DEF EnlistAsks, CoreEnlists
    <3>3. CASE EnlistSaves
      BY <1>1, <1>2, <3>3 DEF EnlistSaves
    <3>4. CASE EnlistFails
      BY <1>1, <1>2, <3>4 DEF EnlistFails, CoreEnlists
    <3> QED BY <1>5, <3>1, <3>2, <3>3, <3>4
  <2>4. WorkerAdded'
    BY <1>2, <2>1, <2>3 DEF WorkerAdded
  <2>5. SparkTyped' /\ LlmLast' /\ SnapshotTrue' /\ TickHolds'
    <3>1. worker' \in {"absent", "paused", "serving"} /\ adds' \in Nat
      BY <1>2, <2>3
    <3>2. SparkTyped'
      BY <2>1, <2>2, <3>1 DEF SparkTyped
    <3> QED BY <2>1, <3>2 DEF LlmLast, SnapshotTrue, TickHolds
  <2>6. StagesReached' /\ PendingFresh' /\ PromptsKept' /\ CallAsked'
    BY <1>1, <2>1, <2>2 DEF StagesReached, PendingFresh, PromptsKept, CallAsked
  <2> QED BY <2>4, <2>5, <2>6
<1> QED BY <1>3, <1>4, <1>5

LEMMA NoneIsOnce == 0 <= 1
OBVIOUS

LEMMA SparkInitial == SparkInit => SparkInv
<1> SUFFICES ASSUME SparkInit PROVE SparkInv
  OBVIOUS
<1>1. PICK media \in {"none", "not required"} : host = [state |-> "not_started", media |-> media, llm |-> "none"]
  BY DEF SparkInit
<1>2. /\ request = [state |-> "none", dispatched |-> "none", pending |-> "none", id |-> 0]
      /\ prompt = [stage |-> "none", ids |-> {}, last |-> 0]
      /\ call = [action |-> "none", step |-> "none"]
      /\ tickStep = NoTick /\ enlisted = "none" /\ worker = "absent" /\ adds = 0
  BY DEF SparkInit, NoRequest, NoCall
<1>3. SparkTyped
  BY <1>1, <1>2, NoTickMeaning DEF SparkTyped, HostStatus, AnyStage, CallStep
<1>4. LlmLast /\ StagesReached /\ SnapshotTrue /\ PendingFresh /\ TickHolds /\ PromptsKept /\ CallAsked /\ WorkerAdded
  <2>1. tickStep.phase = "idle"
    BY <1>2, NoTickMeaning
  <2>2. LlmLast /\ SnapshotTrue
    BY <1>1, <2>1 DEF LlmLast, SnapshotTrue
  <2>3. StagesReached
    BY <1>2 DEF StagesReached
  <2>4. PendingFresh /\ TickHolds /\ PromptsKept
    BY <1>2, <2>1 DEF PendingFresh, TickHolds, PromptsKept
  <2>5. CallAsked
    BY <1>2 DEF CallAsked, NoCall
  <2>6. WorkerAdded
    <3>1. call.step = "none" /\ request.state = "none"
      BY <1>2
    <3>2. worker = "absent" /\ adds = 0 /\ enlisted = "none"
      BY <1>2
    <3> QED BY <2>1, <3>1, <3>2, NoneIsOnce, Zenon DEF WorkerAdded
  <2> QED BY <2>2, <2>3, <2>4, <2>5, <2>6
<1> QED BY <1>3, <1>4 DEF SparkInv

\* Genie is asked for a stage at most once between two words of the owner, and the worker is
\* added at most once and from a finished qualification, after any number of setbacks.
THEOREM SparkCorrect == SparkSpec => []SparkSound
<1>1. SparkInv /\ [SparkNext]_sparkVars => SparkInv'
  <2>1. SparkInv /\ UNCHANGED sparkVars => SparkInv'
    <3> SUFFICES ASSUME SparkInv, UNCHANGED sparkVars PROVE SparkInv'
      OBVIOUS
    <3>1. SparkTyped' /\ LlmLast' /\ SnapshotTrue'
      <4>1. SparkTyped'
        BY DEF sparkVars, SparkInv, SparkTyped
      <4>2. LlmLast' /\ SnapshotTrue'
        BY DEF sparkVars, SparkInv, LlmLast, SnapshotTrue
      <4> QED BY <4>1, <4>2
    <3>2. StagesReached' /\ PendingFresh' /\ TickHolds'
      BY DEF sparkVars, SparkInv, StagesReached, PendingFresh, TickHolds
    <3>3. PromptsKept' /\ CallAsked' /\ WorkerAdded'
      BY DEF sparkVars, SparkInv, PromptsKept, CallAsked, WorkerAdded
    <3> QED BY <3>1, <3>2, <3>3 DEF SparkInv
  <2> QED BY <2>1, HostKeeps, RequestKeeps, ReadKeeps, JudgeKeeps, SubmitKeeps, NoteKeeps, RestKeeps DEF SparkNext
<1>2. SparkInv => SparkSound
  <2> SUFFICES ASSUME SparkInv PROVE SparkSound
    OBVIOUS
  <2>1. ASSUME NEW s \in Stages PROVE Cardinality({p \in prompt.ids : p[1] = s}) <= 1
    <3> DEFINE Of == {p \in prompt.ids : p[1] = s}
    <3>1. CASE Of = {}
      BY <3>1, FS_EmptySet
    <3>2. CASE Of # {}
      <4>1. PICK p \in Of : TRUE
        BY <3>2
      <4>2. Of = {p}
        BY <4>1 DEF SparkInv, PromptsKept
      <4>3. Cardinality({p}) = 1
        BY FS_Singleton
      <4> QED BY <4>2, <4>3
    <3> QED BY <3>1, <3>2
  <2> QED BY <2>1 DEF SparkInv, SparkSound, WorkerAdded
<1> QED BY <1>1, <1>2, SparkInitial, PTL DEF SparkSpec

=============================================================================
