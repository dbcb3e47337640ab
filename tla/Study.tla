------------------------------- MODULE Study --------------------------------
(***************************************************************************)
(* GenieStudy (genie-study.mjs): the schedule of setup studies, which the  *)
(* chat carries out, with stale controls, failed saves and a dashboard     *)
(* that dies between the saved intent and the submission.  A study is the  *)
(* number of its start.                                                    *)
(***************************************************************************)
EXTENDS Integers, FiniteSets

CONSTANTS MaxRevision,  \* bound: changes of the plan
          MaxSlips      \* bound: failed saves, failed submissions and deaths

StudyGiven == MaxRevision \in Nat /\ MaxSlips \in Nat

VARIABLES plan,       \* the saved record: revision, mode, interval set, due, last study
          page,       \* the revision the owner's page shows
          study,      \* per study: its reply's state in the chat
          blocked,    \* dispatchError
          starting,   \* a start between its saved plan and the chat's submission
          slips,
          periods,    \* history: due dates that have come
          automatic   \* history: studies the timer has submitted

studyVars == <<plan, page, study, blocked, starting, slips, periods, automatic>>

StudyId == 1..MaxRevision
NotStarting == [id |-> 0, by |-> "none"]
StudyLive == {"queued", "working"}

StudyInit ==
  /\ plan = [revision |-> 0, mode |-> "reminder", scheduled |-> FALSE, due |-> FALSE, last |-> 0]
  /\ page = 0 /\ blocked = FALSE /\ starting = NotStarting /\ slips = 0
  /\ study = [i \in StudyId |-> "none"]
  /\ periods = 0 /\ automatic = 0

Undisturbed == starting = NotStarting

\* The page reads the plan.
PageRefreshes ==
  /\ Undisturbed /\ page' = plan.revision
  /\ UNCHANGED <<plan, study, blocked, starting, slips, periods, automatic>>

\* The due date comes.
DueComes ==
  /\ Undisturbed /\ plan.scheduled /\ ~plan.due
  /\ plan' = [plan EXCEPT !.due = TRUE] /\ periods' = periods + 1
  /\ UNCHANGED <<page, study, blocked, starting, slips, automatic>>

\* save(): the file is replaced, or neither it nor the plan changes.
StudySaves(p) ==
  /\ plan.revision < MaxRevision
  /\ plan' = [p EXCEPT !.revision = plan.revision + 1]
  /\ UNCHANGED slips
SlipHappens == slips < MaxSlips /\ slips' = slips + 1

\* study-schedule, study-postpone and study-skip, from a page that is up to date; a
\* change of the schedule and a postponement end the present due date.
SetSchedule(m, on) ==
  /\ Undisturbed /\ page = plan.revision
  /\ StudySaves([plan EXCEPT !.mode = m, !.scheduled = on, !.due = FALSE])
  /\ blocked' = FALSE
  /\ UNCHANGED <<page, study, starting, periods, automatic>>

Postpone ==
  /\ Undisturbed /\ page = plan.revision /\ plan.due
  /\ StudySaves([plan EXCEPT !.due = FALSE])
  /\ blocked' = FALSE
  /\ UNCHANGED <<page, study, starting, periods, automatic>>

LastState == IF plan.last = 0 THEN "none" ELSE study[plan.last]

\* Mutation: a study may start beside one that waits.
StartAllowedBeside == LastState # "working"

\* study-start is refused while the last study runs.
StartAllowed == LastState \notin StudyLive

\* Mutation: the due date is not moved with the intent.
StudyStartsStillDue(by) ==
  /\ Undisturbed /\ StartAllowed
  /\ \/ StudySaves([plan EXCEPT !.last = plan.revision + 1])
        /\ starting' = [id |-> plan.revision + 1, by |-> by] /\ UNCHANGED blocked
     \/ SlipHappens /\ blocked' = (blocked \/ by = "timer")
        /\ UNCHANGED <<plan, starting>>
  /\ UNCHANGED <<page, study, periods, automatic>>

\* The first half of study-start: the intent is saved with the next due date, or the
\* save fails, which stops the timer.
StudyStarts(by) ==
  /\ Undisturbed /\ StartAllowed
  /\ \/ StudySaves([plan EXCEPT !.due = FALSE, !.last = plan.revision + 1])
        /\ starting' = [id |-> plan.revision + 1, by |-> by] /\ UNCHANGED blocked
     \/ SlipHappens /\ blocked' = (blocked \/ by = "timer")
        /\ UNCHANGED <<plan, starting>>
  /\ UNCHANGED <<page, study, periods, automatic>>

\* The owner's start, from a page that is up to date.
OwnerStarts == page = plan.revision /\ StudyStarts("owner")

\* tick(): automatic mode, a due date, no earlier trouble, and a chat at rest.
StudyTick ==
  /\ plan.mode = "automatic" /\ plan.due /\ ~blocked
  /\ \A i \in StudyId : study[i] \notin StudyLive
  /\ StudyStarts("timer")

\* The second half: chat.submit, whose failure leaves the intent without a study.
StudySubmitted ==
  /\ ~Undisturbed /\ starting' = NotStarting
  /\ \/ /\ study' = [study EXCEPT ![starting.id] = "queued"]
        /\ automatic' = IF starting.by = "timer" THEN automatic + 1 ELSE automatic
        /\ blocked' = FALSE /\ UNCHANGED slips
     \/ /\ SlipHappens /\ blocked' = (blocked \/ starting.by = "timer")
        /\ UNCHANGED <<study, automatic>>
  /\ UNCHANGED <<plan, page, periods>>

\* The chat takes up and ends a study (Chat has the details).
ChatWorks(i) ==
  /\ Undisturbed /\ study[i] \in StudyLive
  /\ study' = [study EXCEPT ![i] = IF @ = "queued" THEN "working" ELSE "ended"]
  /\ UNCHANGED <<plan, page, blocked, starting, slips, periods, automatic>>

\* The dashboard dies and starts again, also between the two halves of a start; the chat
\* interrupts the reply that was at work.
StudyRestarts ==
  /\ SlipHappens
  /\ starting' = NotStarting /\ blocked' = FALSE
  /\ study' = [i \in StudyId |-> IF study[i] = "working" THEN "ended" ELSE study[i]]
  /\ UNCHANGED <<plan, page, periods, automatic>>

StudyNext ==
  \/ PageRefreshes \/ DueComes \/ Postpone
  \/ \E m \in {"reminder", "automatic"}, on \in BOOLEAN : SetSchedule(m, on)
  \/ OwnerStarts \/ StudyTick \/ StudySubmitted
  \/ \E i \in StudyId : ChatWorks(i)
  \/ StudyRestarts

------------------------------------------------------------------------------
\* "An uncertain submission is never automatically replayed": the timer submits at most
\* one study for a due date, whatever save fails and wherever the dashboard dies.
StudiedOncePerDue == automatic <= periods

\* At most one study waits or runs.
OneStudy == Cardinality({i \in StudyId : study[i] \in StudyLive}) <= 1

\* A due date brings one study at most, and studies come one at a time.
StudyOnce == StudiedOncePerDue /\ OneStudy
=============================================================================
