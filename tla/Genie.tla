------------------------------- MODULE Genie --------------------------------
(***************************************************************************)
(* Genie (genie.mjs): the reviews of the fleet, one at a time, which the   *)
(* owner asks for, a timer repeats and an action offer demands; with the   *)
(* switch that turns Genie off, testing mode, and the questions of the     *)
(* chat, which wait for a review that runs.  The provider call is the      *)
(* loopback transport's (genie-transport.mjs).                             *)
(***************************************************************************)
EXTENDS Integers, FiniteSets

CONSTANT Asker   \* chat jobs that may ask at the same time

VARIABLES switch,    \* enabled, closed, the chosen source
          underTest, \* testing mode, which the door keeps
          assessing, \* the review that runs: kind, place, provider, abort signal, actions left
          receipt,   \* the state of the owner's last question
          held,      \* queuedQuestion is set
          micro,     \* a runSubmitted microtask is due before the next event
          chatting,  \* per chat job: waits for the review, or is answered
          received,  \* history: providers that have seen the current review's request
          revoked,   \* history: the current review was called off during its provider call
          spoke      \* history: the current review has acted or reported

genieVars == <<switch, underTest, assessing, receipt, held, micro, chatting, received, revoked, spoke>>

NoReview == [kind |-> "none", pc |-> "idle", provider |-> "none", aborted |-> FALSE, left |-> 0]
Reviewing == assessing.kind # "none"
Calling == assessing.pc \in {"connecting", "connected"}
On == ~underTest /\ switch.enabled /\ ~switch.closed
Pending == held \/ receipt \in {"accepted", "answering"}

GenieInit ==
  /\ switch = [enabled |-> TRUE, closed |-> FALSE, source |-> "primary"]
  /\ underTest = FALSE /\ assessing = NoReview /\ receipt = "none" /\ held = FALSE /\ micro = FALSE
  /\ chatting = [c \in Asker |-> "no"]
  /\ received = 0 /\ revoked = FALSE /\ spoke = FALSE

\* abort.abort(): the provider call fails with an AbortError; later awaits do not listen.
Abort == /\ assessing' = [assessing EXCEPT !.aborted = Reviewing]
         /\ revoked' = (revoked \/ Calling)

SetTestingOf ==
  /\ ~micro /\ underTest' = ~underTest
  /\ UNCHANGED <<switch, assessing, receipt, held, micro, chatting, received, revoked, spoke>>

SetSource(s) ==
  /\ ~micro /\ ~Reviewing
  /\ switch' = [switch EXCEPT !.source = s]
  /\ UNCHANGED <<underTest, assessing, receipt, held, micro, chatting, received, revoked, spoke>>

\* Mutation: the question is dropped and its receipt goes on waiting.
CancelQueuedSilently == held' = FALSE /\ UNCHANGED receipt

\* A question that waits is cancelled when Genie is turned off or closed.
CancelQueued ==
  /\ held' = FALSE
  /\ receipt' = IF held THEN "cancelled" ELSE receipt

TurnOff ==
  /\ ~micro /\ ~underTest /\ switch.enabled
  /\ switch' = [switch EXCEPT !.enabled = FALSE]
  /\ Abort /\ CancelQueued
  /\ UNCHANGED <<underTest, micro, chatting, received, spoke>>

TurnOn ==
  /\ ~micro /\ ~underTest /\ ~switch.enabled
  /\ switch' = [switch EXCEPT !.enabled = TRUE]
  /\ UNCHANGED <<underTest, assessing, receipt, held, micro, chatting, received, revoked, spoke>>

\* close(): also in testing mode.
CloseGenie ==
  /\ ~micro /\ ~switch.closed
  /\ switch' = [switch EXCEPT !.enabled = FALSE, !.closed = TRUE]
  /\ Abort /\ CancelQueued
  /\ UNCHANGED <<underTest, micro, chatting, received, spoke>>

\* A person's question calls off a routine review, never an action review.
Preempt == IF assessing.kind = "scheduled" THEN Abort ELSE UNCHANGED <<assessing, revoked>>

SubmitReview ==
  /\ ~micro /\ On /\ ~Pending
  /\ receipt' = IF Reviewing THEN "queued" ELSE "accepted"
  /\ held' = TRUE /\ micro' = TRUE
  /\ Preempt
  /\ UNCHANGED <<switch, underTest, chatting, received, spoke>>

\* answerChat: behind the review that runs, or at once.
AnswerChat(c) ==
  /\ ~micro /\ chatting[c] = "no"
  /\ \/ Reviewing /\ Preempt /\ chatting' = [chatting EXCEPT ![c] = "waiting"]
     \/ ~Reviewing /\ ~switch.closed /\ chatting' = [chatting EXCEPT ![c] = "answering"]
        /\ UNCHANGED <<assessing, revoked>>
  /\ UNCHANGED <<switch, underTest, receipt, held, micro, received, spoke>>

ChatAnswered(c) ==
  /\ ~micro /\ chatting[c] = "answering"
  /\ chatting' = [chatting EXCEPT ![c] = "no"]
  /\ UNCHANGED <<switch, underTest, assessing, receipt, held, micro, received, revoked, spoke>>

\* fastGenieAssignment: the pool if it is chosen, else the dedicated provider, or the
\* pool after recent trouble with that.
Assignment == IF switch.source = "pool" THEN {"pool"} ELSE {"dedicated", "pool"}

\* ask(), whose checks are the caller's.
BeginReview(kind) ==
  /\ \E p \in Assignment :
       assessing' = [kind |-> kind, pc |-> "connecting", provider |-> p, aborted |-> FALSE, left |-> 0]
  /\ received' = 0 /\ revoked' = FALSE /\ spoke' = FALSE

RunSubmitted ==
  /\ micro /\ micro' = FALSE
  /\ \/ On /\ ~Reviewing /\ held
        /\ held' = FALSE /\ receipt' = "answering" /\ BeginReview("manual")
     \/ ~(On /\ ~Reviewing /\ held)
        /\ UNCHANGED <<receipt, held, assessing, received, revoked, spoke>>
  /\ UNCHANGED <<switch, underTest, chatting>>

\* Mutation: the timer does not look at the chat.
GenieTickOverChat ==
  /\ ~micro /\ On /\ ~Reviewing
  /\ \/ held /\ micro' = TRUE /\ UNCHANGED <<assessing, received, revoked, spoke>>
     \/ ~held /\ UNCHANGED micro /\ (BeginReview("action") \/ BeginReview("scheduled"))
  /\ UNCHANGED <<switch, underTest, receipt, held, chatting>>

\* tick(): a question first; then an action review for new offers; then, when nobody
\* chats, a routine one.
GenieTick ==
  /\ ~micro /\ On /\ ~Reviewing
  /\ \/ held /\ micro' = TRUE /\ UNCHANGED <<assessing, received, revoked, spoke>>
     \/ ~held /\ UNCHANGED micro
        /\ \/ BeginReview("action")
           \/ (\A c \in Asker : chatting[c] = "no") /\ BeginReview("scheduled")
  /\ UNCHANGED <<switch, underTest, receipt, held, chatting>>

\* The end of ask(): the chat's questions continue, the receipt of the owner's question
\* is settled by whether a report appeared, and a question that waits comes next.
ReviewEnds(reported) ==
  /\ assessing' = NoReview
  /\ spoke' = (spoke \/ reported)
  /\ chatting' = [c \in Asker |-> IF chatting[c] # "waiting" THEN chatting[c]
                                  ELSE IF switch.closed THEN "no" ELSE "answering"]
  /\ receipt' = IF assessing.kind # "manual" THEN receipt
                ELSE IF reported THEN "answered" ELSE "failed"
  /\ micro' = held

ProviderConnects ==
  /\ ~micro /\ assessing.pc = "connecting" /\ ~assessing.aborted
  /\ assessing' = [assessing EXCEPT !.pc = "connected"]
  /\ received' = received + 1
  /\ UNCHANGED <<switch, underTest, receipt, held, micro, chatting, revoked, spoke>>

\* Mutation: any failure of the dedicated provider counts.
NotDispatchedEver == ~assessing.aborted

\* genieNotDispatched: a new socket that never connected was refused.
NotDispatched == assessing.pc = "connecting" /\ ~assessing.aborted

\* A refused connection: the pool instead of the dedicated provider, if Genie is still
\* on and nobody has called the review off.
ProviderRefuses ==
  /\ ~micro /\ Calling /\ NotDispatched
  /\ \/ assessing.provider = "dedicated" /\ On
        /\ assessing' = [assessing EXCEPT !.provider = "pool", !.pc = "connecting"]
        /\ UNCHANGED <<receipt, micro, chatting, spoke>>
     \/ ~(assessing.provider = "dedicated" /\ On) /\ ReviewEnds(FALSE)
  /\ UNCHANGED <<switch, underTest, held, received, revoked>>

\* An abort, a timeout, an HTTP error, a broken or overlong answer.
ProviderFails ==
  /\ ~micro /\ Calling /\ ReviewEnds(FALSE)
  /\ UNCHANGED <<switch, underTest, held, received, revoked>>

\* parseGenieReview: at most one recovery and one relocation.
RequestedActions == 0..2

\* The loops over the requested actions: each looks at the switch, and a loop that
\* breaks off still reports what was done.
Acts(left) ==
  IF left > 0 /\ On
  THEN /\ assessing' = [assessing EXCEPT !.pc = "acting", !.left = left - 1]
       /\ spoke' = TRUE
       /\ UNCHANGED <<receipt, micro, chatting>>
  ELSE ReviewEnds(TRUE)

\* Mutation: an answer that arrives counts although the review was called off.
ProviderAnswersAborted ==
  /\ ~micro /\ assessing.pc = "connected"
  /\ IF On THEN \E left \in RequestedActions : Acts(left) ELSE ReviewEnds(FALSE)
  /\ UNCHANGED <<switch, underTest, held, received, revoked>>

\* A complete answer, of which nothing comes when Genie has been turned off, suspended or
\* closed meanwhile.
ProviderAnswers ==
  /\ ~micro /\ assessing.pc = "connected" /\ ~assessing.aborted
  /\ IF On THEN \E left \in RequestedActions : Acts(left) ELSE ReviewEnds(FALSE)
  /\ UNCHANGED <<switch, underTest, held, received, revoked>>

ActionReturns ==
  /\ ~micro /\ assessing.pc = "acting" /\ Acts(assessing.left)
  /\ UNCHANGED <<switch, underTest, held, received, revoked>>

GenieNext ==
  \/ SetTestingOf \/ TurnOff \/ TurnOn \/ CloseGenie
  \/ \E s \in {"primary", "pool"} : SetSource(s)
  \/ SubmitReview \/ RunSubmitted \/ GenieTick
  \/ \E c \in Asker : AnswerChat(c) \/ ChatAnswered(c)
  \/ ProviderConnects \/ ProviderRefuses \/ ProviderFails \/ ProviderAnswers \/ ActionReturns

------------------------------------------------------------------------------
\* A review that the owner turned off, or that a person's question called off, while
\* its provider was at work neither acts nor reports, not even when Genie is turned on
\* again before the provider's call has ended.
RevokedStaysSilent == ~(revoked /\ spoke)

\* "A human question outranks a routine periodic assessment": while a person's question
\* waits or is answered, no routine review runs but one that was told to stop.
RoutineYields ==
  assessing.kind = "scheduled" /\ (held \/ \E c \in Asker : chatting[c] # "no") => assessing.aborted

\* The fleet's evidence goes to a second provider only when the first has not seen it.
OneProvider == received <= 1

\* A receipt says what becomes of its question: it waits exactly while the question is
\* held, and is being answered exactly while the owner's review runs.
ReceiptTrue ==
  /\ receipt \in {"queued", "accepted"} <=> held
  /\ receipt = "accepted" => micro
  /\ receipt = "answering" <=> assessing.kind = "manual"

\* A review that was called off stays silent, a routine one yields to a person, the
\* evidence goes to one provider, and the owner's receipt is true.
GenieSound == RevokedStaysSilent /\ RoutineYields /\ OneProvider /\ ReceiptTrue
=============================================================================
