-------------------------- MODULE OperationsProofs --------------------------
(***************************************************************************)
(* Proofs about what an owner starts and detached runners carry out: the   *)
(* approved operations on the workers, and the batches of media jobs, for  *)
(* any number of operations, jobs, workers and mishaps.  The two share no  *)
(* state.                                                                  *)
(***************************************************************************)
EXTENDS Operations, MediaQueue, TLAPS

-----------------------------------------------------------------------------
(* The operations.                                                         *)

OperationsSpec == OperationsInit /\ [][OperationsNext]_operationVars

Receipts ==
  {"proposal", "plan", "prepared", "prepare-failed", "declined", "approved", "intent", "launched",
   "launch-uncertain", "runner-started", "reconcile-approved", "reconcile-intent", "reconcile-started"}

OperationsTyped ==
  /\ store \in {"serving", "hourglass"} /\ up \in BOOLEAN
  /\ files \in [Op -> SUBSET Receipts]
  /\ launching \subseteq Op
  /\ changing \in [op : Op \cup {"none"}, left : SUBSET Op]
  /\ runner \in [Op -> {"none", "spawned", "claimed", "executing", "finished", "gone"}]
  /\ returner \in [Op -> {"none", "spawned", "checking", "returning", "gone"}]
  /\ flock \in [Op -> {"free", "runner", "returner", "observer"}]
  /\ outcome \in [Op -> {"none", "completed", "failed_unchanged", "requires_reconciliation"}]
  /\ returned \in [Op -> {"none", "completed", "requires_reconciliation"}]
  /\ row \in [Op -> {"none", "submitting", "uncertain", "owned", "rejected", "done"}]
  /\ execs \in [Op -> [run : Nat, return : Nat]]

\* What the receipts of an operation say of the ones before them.
ReceiptsInOrder ==
  \A o \in Op : /\ "approved" \in files[o] => "declined" \notin files[o]
                /\ "intent" \in files[o] => "approved" \in files[o]
                /\ "runner-started" \in files[o] => "intent" \in files[o]
                /\ "reconcile-started" \in files[o] =>
                     /\ "runner-started" \in files[o] /\ "reconcile-intent" \in files[o]

\* A process is launched only on its intent, once; a runner works on its claim and
\* under its lock, and what it saves is its last act.
RunnerSelected ==
  \A o \in Op : /\ runner[o] # "none" => "intent" \in files[o]
                /\ o \in launching => "intent" \in files[o] /\ runner[o] = "none"
                /\ runner[o] \in {"claimed", "executing", "finished"} => "runner-started" \in files[o]
                /\ flock[o] = "runner" <=> runner[o] \in {"executing", "finished"}
                /\ outcome[o] # "none" => runner[o] \in {"finished", "gone"} /\ "runner-started" \in files[o]
                /\ runner[o] \in {"none", "spawned", "claimed"} => execs[o].run = 0
                /\ execs[o].run <= 1 /\ (execs[o].run > 0 => "runner-started" \in files[o])

\* A return is of a run that has stopped without an end, and is begun once.
ReturnSelected ==
  \A o \in Op : /\ flock[o] = "returner" <=> returner[o] \in {"checking", "returning"}
                /\ returner[o] # "none" =>
                     /\ {"runner-started", "reconcile-intent"} \subseteq files[o]
                     /\ outcome[o] = "requires_reconciliation" \/ (outcome[o] = "none" /\ runner[o] = "gone")
                /\ returner[o] = "returning" => "reconcile-started" \in files[o]
                /\ returned[o] # "none" => returner[o] = "gone" /\ "reconcile-started" \in files[o]
                /\ execs[o].return = IF "reconcile-started" \in files[o] THEN 1 ELSE 0

\* An end that its runner, or its return, has saved.
Ended(o) == outcome[o] \in Final \/ returned[o] \in Final

\* Of all operations with a launch intent only one has not ended.
OneUnended ==
  \A o, p \in Op : o # p /\ "intent" \in files[o] /\ "intent" \in files[p] => Ended(o) \/ Ended(p)

\* An approval under way: what its awaits have seen of the other operations is true
\* of all but those that are left, though others go on meanwhile.
ApprovalWaits ==
  /\ ~up => changing = NoChange /\ launching = {}
  /\ changing.op = "none" => changing = NoChange
  /\ changing.op # "none" =>
       /\ store = "hourglass" => row[changing.op] = "submitting"
       /\ \A p \in Op \ {changing.op} : "intent" \in files[p] => p \in changing.left \/ Ended(p)

\* A measurement's row: rejected if it was never launched, done if it has ended.
RowsFollow ==
  \A o \in Op : /\ store = "serving" => row[o] = "none"
                /\ row[o] = "rejected" => "intent" \notin files[o]
                /\ row[o] = "done" => Ended(o)

OperationsInv ==
  /\ OperationsTyped /\ ReceiptsInOrder /\ RunnerSelected /\ ReturnSelected
  /\ OneUnended /\ ApprovalWaits /\ RowsFollow

\* What a step writes into a folder are receipts.
LEMMA WriteTyped ==
  ASSUME OperationsTyped, NEW o \in Op, NEW names \in SUBSET Receipts, Write(o, names)
  PROVE  files' \in [Op -> SUBSET Receipts]
  BY DEF OperationsTyped, Write

\* What an approved return finds and writes; the second time the dashboard stops
\* between the approval and the intent.
LEMMA ReturnEffect ==
  ASSUME NEW o \in Op, ApproveReturn(o)
  PROVE  /\ "runner-started" \in files[o] /\ "reconcile-started" \notin files[o] /\ flock[o] = "free"
         /\ (outcome[o] = "requires_reconciliation" \/ (outcome[o] = "none" /\ runner[o] = "gone"))
         /\ UNCHANGED <<store, runner, flock, outcome, returned, row, execs>>
         /\ \/ /\ files' = [files EXCEPT ![o] = @ \cup {"reconcile-approved", "reconcile-intent"}]
               /\ returner' = [returner EXCEPT ![o] = "spawned"] /\ UNCHANGED <<up, launching, changing>>
            \/ /\ files' = [files EXCEPT ![o] = @ \cup {"reconcile-approved"}] /\ UNCHANGED returner
               /\ up' = FALSE /\ launching' = {} /\ changing' = NoChange
<1>1. Inspectable(o)
  BY DEF ApproveReturn
<1>2. /\ "runner-started" \in files[o] /\ "reconcile-started" \notin files[o]
      /\ (outcome[o] = "requires_reconciliation" \/ (outcome[o] = "none" /\ runner[o] = "gone"))
  BY <1>1 DEF Inspectable, Returnable, Stopped, Has, Lacks
<1> QED BY <1>2 DEF ApproveReturn, Write


\* The end of a preparation writes none of the receipts that follow an approval.
LEMMA PreparationWrites ==
  ASSUME OperationsTyped, NEW o \in Op, FinishPreparation(o)
  PROVE  \A p \in Op, r \in {"intent", "runner-started", "reconcile-started", "reconcile-intent"} :
           r \in files'[p] <=> r \in files[p]
<1>1. \/ files' = [files EXCEPT ![o] = @ \cup {"plan", "prepared"}]
      \/ files' = [files EXCEPT ![o] = @ \cup {"prepare-failed"}]
  BY DEF FinishPreparation, Write, Preparation
<1>2. files \in [Op -> SUBSET Receipts]
  BY DEF OperationsTyped
<1> QED BY <1>1, <1>2

\* How the steps of a return change the return and the lock of its operation.
LEMMA ReturnMoves ==
  ASSUME NEW o \in Op, ApproveReturn(o) \/ ReturnLocks(o) \/ ReturnStarts(o)
  PROVE  /\ \/ UNCHANGED returner
            \/ \E state \in {"spawned", "checking", "returning", "gone"} :
                  returner' = [returner EXCEPT ![o] = state]
         /\ \/ UNCHANGED flock
            \/ \E holder \in {"free", "returner"} : flock' = [flock EXCEPT ![o] = holder]
<1>1. CASE ApproveReturn(o)
  BY <1>1, ReturnEffect
<1>2. CASE ReturnLocks(o)
  BY <1>2 DEF ReturnLocks
<1>3. CASE ReturnStarts(o)
  BY <1>3 DEF ReturnStarts
<1> QED BY <1>1, <1>2, <1>3

\* A return that starts saves that, once, of an operation that has stopped; one that
\* finds anything else gives up.
LEMMA ReturnStartsEffect ==
  ASSUME NEW o \in Op, ReturnStarts(o)
  PROVE  /\ returner[o] = "checking"
         /\ UNCHANGED <<store, up, launching, changing, runner, outcome, returned, row>>
         /\ \/ /\ "runner-started" \in files[o] /\ "reconcile-started" \notin files[o]
               /\ {"reconcile-approved", "reconcile-intent"} \subseteq files[o]
               /\ files' = [files EXCEPT ![o] = @ \cup {"reconcile-started"}]
               /\ returner' = [returner EXCEPT ![o] = "returning"]
               /\ execs' = [execs EXCEPT ![o].return = @ + 1] /\ UNCHANGED flock
            \/ /\ returner' = [returner EXCEPT ![o] = "gone"]
               /\ flock' = [flock EXCEPT ![o] = "free"] /\ UNCHANGED <<files, execs>>
<1>1. CASE Returnable(o) /\ Has(o, {"reconcile-approved", "reconcile-intent"})
  <2>1. "runner-started" \in files[o] /\ "reconcile-started" \notin files[o]
    BY <1>1 DEF Returnable, Stopped, Has, Lacks
  <2> QED BY <1>1, <2>1 DEF ReturnStarts, Write, Has
<1>2. CASE ~(Returnable(o) /\ Has(o, {"reconcile-approved", "reconcile-intent"}))
  BY <1>2 DEF ReturnStarts
<1> QED BY <1>1, <1>2

\* A return that starts, or stops before that, writes no intent.
LEMMA ReturnStartsWrites ==
  ASSUME OperationsTyped, NEW o \in Op, ReturnStarts(o)
  PROVE  \A p \in Op : "intent" \in files'[p] <=> "intent" \in files[p]
<1>1. files' = files \/ files' = [files EXCEPT ![o] = @ \cup {"reconcile-started"}]
  BY ReturnStartsEffect
<1>2. files \in [Op -> SUBSET Receipts]
  BY DEF OperationsTyped
<1> QED BY <1>1, <1>2

\* Types are kept.
LEMMA OperationsTypedKept ==
  ASSUME OperationsInv, [OperationsNext]_operationVars
  PROVE  OperationsTyped'
<1> USE DEF OperationsInv, OperationsTyped, NoChange, Receipts, Final
<1>1. ASSUME NEW o \in Op,
            Propose(o) \/ FinishPreparation(o) \/ Decline(o) \/ BeginApprove(o)
              \/ RefuseApproval(o) \/ ObserveOther(o) \/ Launch(o) \/ Claim(o) \/ Execute(o)
              \/ SaveResult(o) \/ Exit(o) \/ RunnerDies(o) \/ ObserverLocks(o) \/ ObserverDone(o)
              \/ ApproveReturn(o) \/ ReturnLocks(o) \/ ReturnStarts(o) \/ ReturnEnds(o)
              \/ StartMeasurement(o) \/ Refresh(o)
      PROVE OperationsTyped'
  <2>1. CASE Propose(o)
    BY <2>1 DEF Propose, Write
  <2>2. CASE FinishPreparation(o)
    <3>1. files' \in [Op -> SUBSET Receipts]
      BY <2>2, WriteTyped DEF FinishPreparation, Preparation, Receipts
    <3> QED BY <2>2, <3>1 DEF FinishPreparation
  <2>3. CASE Decline(o)
    BY <2>3 DEF Decline, Write, Has, Lacks
  <2>4. CASE BeginApprove(o)
    BY <2>4 DEF BeginApprove, Requested, Approvable, Others, Status, Has, Lacks
  <2>5. CASE RefuseApproval(o)
    BY <2>5 DEF RefuseApproval, Requested, Approvable, RefusedRow, Has, Lacks
  <2>6. CASE ObserveOther(o)
    <3>1. row' \in [Op -> {"none", "submitting", "uncertain", "owned", "rejected", "done"}]
      BY <2>6 DEF ObserveOther, RefusedRow
    <3>2. changing' \in [op : Op \cup {"none"}, left : SUBSET Op]
      BY <2>6 DEF ObserveOther
    <3> QED BY <2>6, <3>1, <3>2 DEF ObserveOther
  <2>7. CASE Launch(o)
    <3>1. files' \in [Op -> SUBSET Receipts]
      BY <2>7, WriteTyped DEF Launch, Receipts
    <3> QED BY <2>7, <3>1 DEF Launch
  <2>8. CASE Claim(o)
    <3>1. files' \in [Op -> SUBSET Receipts]
      BY <2>8, WriteTyped DEF Claim
    <3>2. runner' \in [Op -> {"none", "spawned", "claimed", "executing", "finished", "gone"}]
      BY <2>8 DEF Claim
    <3> QED BY <2>8, <3>1, <3>2 DEF Claim
  <2>9. CASE Execute(o)
    BY <2>9 DEF Execute
  <2>10. CASE SaveResult(o)
    BY <2>10 DEF SaveResult, Final
  <2>11. CASE Exit(o)
    BY <2>11 DEF Exit
  <2>12. CASE RunnerDies(o)
    BY <2>12 DEF RunnerDies, Mishap
  <2>13. CASE ObserverLocks(o)
    BY <2>13 DEF ObserverLocks, Has
  <2>14. CASE ObserverDone(o)
    BY <2>14 DEF ObserverDone
  <2>15. CASE ApproveReturn(o)
    <3>1. files' \in [Op -> SUBSET Receipts]
      BY <2>15, WriteTyped DEF ApproveReturn
    <3>2. returner' \in [Op -> {"none", "spawned", "checking", "returning", "gone"}]
      BY <2>15, ReturnMoves
    <3>3. /\ up' \in BOOLEAN /\ launching' \subseteq Op
          /\ changing' = changing \/ changing' = [op |-> "none", left |-> {}]
      BY <2>15 DEF ApproveReturn
    <3> QED BY <2>15, <3>1, <3>2, <3>3 DEF ApproveReturn
  <2>16. CASE ReturnLocks(o)
    <3>1. flock' \in [Op -> {"free", "runner", "returner", "observer"}]
      BY <2>16 DEF ReturnLocks
    <3>2. returner' \in [Op -> {"none", "spawned", "checking", "returning", "gone"}]
      BY <2>16, ReturnMoves
    <3> QED BY <2>16, <3>1, <3>2 DEF ReturnLocks
  <2>17. CASE ReturnStarts(o)
    <3>1. files' \in [Op -> SUBSET Receipts]
      BY <2>17, WriteTyped DEF ReturnStarts, Receipts
    <3>2. flock' \in [Op -> {"free", "runner", "returner", "observer"}]
      BY <2>17 DEF ReturnStarts
    <3>4. returner' \in [Op -> {"none", "spawned", "checking", "returning", "gone"}]
      BY <2>17, ReturnMoves
    <3>3. execs' \in [Op -> [run : Nat, return : Nat]]
      <4>1. CASE UNCHANGED execs
        BY <4>1
      <4>2. CASE execs' = [execs EXCEPT ![o].return = @ + 1]
        BY <4>2
      <4> QED BY <2>17, <4>1, <4>2 DEF ReturnStarts
    <3> QED BY <2>17, <3>1, <3>2, <3>3, <3>4 DEF ReturnStarts
  <2>18. CASE ReturnEnds(o)
    <3>1. /\ flock' \in [Op -> {"free", "runner", "returner", "observer"}]
          /\ returner' \in [Op -> {"none", "spawned", "checking", "returning", "gone"}]
      BY <2>18 DEF ReturnEnds
    <3>2. returned' \in [Op -> {"none", "completed", "requires_reconciliation"}]
      BY <2>18 DEF ReturnEnds
    <3> QED BY <2>18, <3>1, <3>2 DEF ReturnEnds
  <2>19. CASE StartMeasurement(o)
    BY <2>19 DEF StartMeasurement, Active, Engaged
  <2>20. CASE Refresh(o)
    BY <2>20 DEF Refresh, Has, Active, Engaged
  <2> QED BY <1>1, <2>1, <2>2, <2>3, <2>4, <2>5, <2>6, <2>7, <2>8, <2>9, <2>10, <2>11, <2>12,
             <2>13, <2>14, <2>15, <2>16, <2>17, <2>18, <2>19, <2>20
<1>2. CASE CommitApproval
  BY <1>2, SMTT(20) DEF CommitApproval, Write, Has, Lacks
<1>3. CASE Crash
  <2>1. PICK names \in Committed :
          \E spawned \in SUBSET (launching \cup (IF "intent" \in names THEN {changing.op} ELSE {})) :
            /\ runner' = [o \in Op |-> IF o \in spawned THEN "spawned" ELSE runner[o]]
            /\ files' = [o \in Op |-> IF o = changing.op THEN files[o] \cup names ELSE files[o]]
    BY <1>3 DEF Crash
  <2>2. names \subseteq Receipts
    BY <2>1 DEF Committed, Receipts
  <2>3. files' \in [Op -> SUBSET Receipts]
    <3>1. files \in [Op -> SUBSET Receipts] /\ names \in SUBSET Receipts
      BY <2>2
    <3> HIDE DEF Receipts
    <3>2. [o \in Op |-> IF o = changing.op THEN files[o] \cup names ELSE files[o]] \in [Op -> SUBSET Receipts]
      BY <3>1
    <3> QED BY <2>1, <3>2
  <2>4. runner' \in [Op -> {"none", "spawned", "claimed", "executing", "finished", "gone"}]
    BY <2>1
  <2> QED BY <1>3, <2>3, <2>4 DEF Crash
<1>4. CASE Restart
  BY <1>4 DEF Restart
<1>5. CASE RecordChanges
  BY <1>5 DEF RecordChanges, Mishap
<1>6. CASE UNCHANGED operationVars
  BY <1>6 DEF operationVars
<1> QED BY <1>1, <1>2, <1>3, <1>4, <1>5, <1>6 DEF OperationsNext

\* Receipts are written in their order.
LEMMA ReceiptsInOrderKept ==
  ASSUME "none" \notin Op, OperationsInv, [OperationsNext]_operationVars
  PROVE  ReceiptsInOrder'
<1> USE DEF OperationsInv, OperationsTyped, ReceiptsInOrder, ApprovalWaits, RowsFollow, NoChange,
            Receipts
<1>1. ASSUME NEW o \in Op,
            Propose(o) \/ FinishPreparation(o) \/ Decline(o) \/ BeginApprove(o)
              \/ RefuseApproval(o) \/ ObserveOther(o) \/ Launch(o) \/ Claim(o) \/ Execute(o)
              \/ SaveResult(o) \/ Exit(o) \/ RunnerDies(o) \/ ObserverLocks(o) \/ ObserverDone(o)
              \/ ApproveReturn(o) \/ ReturnLocks(o) \/ ReturnStarts(o) \/ ReturnEnds(o)
              \/ StartMeasurement(o) \/ Refresh(o)
      PROVE ReceiptsInOrder'
  <2>1. CASE BeginApprove(o) \/ RefuseApproval(o) \/ ObserveOther(o) \/ Execute(o)
             \/ SaveResult(o) \/ Exit(o) \/ RunnerDies(o) \/ ObserverLocks(o) \/ ObserverDone(o)
             \/ ReturnLocks(o) \/ ReturnEnds(o) \/ StartMeasurement(o) \/ Refresh(o)
    BY <2>1 DEF BeginApprove, RefuseApproval, ObserveOther, Execute, SaveResult, Exit, RunnerDies,
       ObserverLocks, ObserverDone, ReturnLocks, ReturnEnds, StartMeasurement, Refresh
  <2>2. CASE Propose(o)
    BY <2>2 DEF Propose, Write
  <2>3. CASE FinishPreparation(o)
    <3>1. PICK names \in Preparation : files' = [files EXCEPT ![o] = @ \cup names]
      BY <2>3 DEF FinishPreparation, Write
    <3>2. names \cap {"approved", "declined", "intent", "runner-started", "reconcile-started"} = {}
      BY <3>1 DEF Preparation
    <3> QED BY <3>1, <3>2
  <2>4. CASE Decline(o)
    BY <2>4 DEF Decline, Write, Has, Lacks
  <2>5. CASE Launch(o)
    BY <2>5 DEF Launch, Write
  <2>6. CASE Claim(o)
    BY <2>6 DEF Claim, Write, ApprovedPlan, Has, Lacks
  <2>7. CASE ApproveReturn(o)
    <3>1. /\ "runner-started" \in files[o] /\ "reconcile-started" \notin files[o] /\ flock[o] = "free"
          /\ (outcome[o] = "requires_reconciliation" \/ (outcome[o] = "none" /\ runner[o] = "gone"))
          /\ UNCHANGED <<store, runner, flock, outcome, returned, row, execs>>
      BY <2>7, ReturnEffect
    <3>2. CASE /\ files' = [files EXCEPT ![o] = @ \cup {"reconcile-approved", "reconcile-intent"}]
               /\ returner' = [returner EXCEPT ![o] = "spawned"] /\ UNCHANGED <<up, launching, changing>>
      BY <3>1, <3>2
    <3>3. CASE /\ files' = [files EXCEPT ![o] = @ \cup {"reconcile-approved"}] /\ UNCHANGED returner
               /\ up' = FALSE /\ launching' = {} /\ changing' = NoChange
      BY <3>1, <3>3
    <3> QED BY <2>7, <3>2, <3>3, ReturnEffect
  <2>8. CASE ReturnStarts(o)
    BY <2>8 DEF ReturnStarts, Write, Returnable, Stopped, ApprovedPlan, Has, Lacks
  <2> QED BY <1>1, <2>1, <2>2, <2>3, <2>4, <2>5, <2>6, <2>7, <2>8
<1>2. CASE CommitApproval
  <2>1. CASE UNCHANGED files
    BY <2>1
  <2>2. CASE /\ files' = [files EXCEPT ![changing.op] = @ \cup {"approved", "intent"}]
             /\ "declined" \notin files[changing.op]
    BY <2>2
  <2> QED BY <1>2, <2>1, <2>2 DEF CommitApproval, Write, Lacks
<1>3. CASE Crash
  BY <1>3 DEF Crash, Committed, Mishap, Has, Lacks
<1>4. CASE Restart
  BY <1>4 DEF Restart
<1>5. CASE RecordChanges
  BY <1>5 DEF RecordChanges, Mishap
<1>6. CASE UNCHANGED operationVars
  BY <1>6 DEF operationVars
<1> QED BY <1>1, <1>2, <1>3, <1>4, <1>5, <1>6 DEF OperationsNext

\* One runner, selected by its intent and its claim.
LEMMA RunnerSelectedKept ==
  ASSUME "none" \notin Op, OperationsInv, [OperationsNext]_operationVars
  PROVE  RunnerSelected'
<1> USE DEF OperationsInv, OperationsTyped, RunnerSelected, ReturnSelected, OneUnended,
            ApprovalWaits
<1>1. ASSUME NEW o \in Op,
            Propose(o) \/ FinishPreparation(o) \/ Decline(o) \/ BeginApprove(o)
              \/ RefuseApproval(o) \/ ObserveOther(o) \/ Launch(o) \/ Claim(o) \/ Execute(o)
              \/ SaveResult(o) \/ Exit(o) \/ RunnerDies(o) \/ ObserverLocks(o) \/ ObserverDone(o)
              \/ ApproveReturn(o) \/ ReturnLocks(o) \/ ReturnStarts(o) \/ ReturnEnds(o)
              \/ StartMeasurement(o) \/ Refresh(o)
      PROVE RunnerSelected'
  <2>1. CASE BeginApprove(o) \/ RefuseApproval(o) \/ ObserveOther(o) \/ StartMeasurement(o)
             \/ Refresh(o)
    BY <2>1 DEF BeginApprove, RefuseApproval, ObserveOther, StartMeasurement, Refresh
  <2>2. CASE Propose(o)
    BY <2>2 DEF Propose, Write
  <2>3. CASE FinishPreparation(o)
    BY <2>3 DEF FinishPreparation, Write, Preparation
  <2>4. CASE Decline(o)
    BY <2>4 DEF Decline, Write, Has, Lacks
  <2>5. CASE Launch(o)
    BY <2>5 DEF Launch, Write
  <2>6. CASE Claim(o)
    BY <2>6 DEF Claim, Write, ApprovedPlan, Has, Lacks
  <2>7. CASE Execute(o)
    BY <2>7 DEF Execute
  <2>8. CASE SaveResult(o)
    BY <2>8 DEF SaveResult, Final
  <2>9. CASE Exit(o)
    BY <2>9 DEF Exit
  <2>10. CASE RunnerDies(o)
    BY <2>10 DEF RunnerDies, Mishap
  <2>11. CASE ObserverLocks(o)
    BY <2>11 DEF ObserverLocks, Has
  <2>12. CASE ObserverDone(o)
    BY <2>12 DEF ObserverDone
  <2>13. CASE ApproveReturn(o)
    <3>1. /\ "runner-started" \in files[o] /\ "reconcile-started" \notin files[o] /\ flock[o] = "free"
          /\ (outcome[o] = "requires_reconciliation" \/ (outcome[o] = "none" /\ runner[o] = "gone"))
          /\ UNCHANGED <<store, runner, flock, outcome, returned, row, execs>>
      BY <2>13, ReturnEffect
    <3>2. CASE /\ files' = [files EXCEPT ![o] = @ \cup {"reconcile-approved", "reconcile-intent"}]
               /\ returner' = [returner EXCEPT ![o] = "spawned"] /\ UNCHANGED <<up, launching, changing>>
      BY <3>1, <3>2
    <3>3. CASE /\ files' = [files EXCEPT ![o] = @ \cup {"reconcile-approved"}] /\ UNCHANGED returner
               /\ up' = FALSE /\ launching' = {} /\ changing' = NoChange
      BY <3>1, <3>3
    <3> QED BY <2>13, <3>2, <3>3, ReturnEffect
  <2>14. CASE ReturnLocks(o)
    BY <2>14 DEF ReturnLocks
  <2>15. CASE ReturnStarts(o)
    BY <2>15 DEF ReturnStarts, Write, Returnable, Stopped, ApprovedPlan, Has, Lacks
  <2>16. CASE ReturnEnds(o)
    BY <2>16 DEF ReturnEnds, Mishap
  <2> QED BY <1>1, <2>1, <2>2, <2>3, <2>4, <2>5, <2>6, <2>7, <2>8, <2>9, <2>10, <2>11, <2>12,
             <2>13, <2>14, <2>15, <2>16
<1>2. CASE CommitApproval
  <2>1. CASE UNCHANGED <<files, launching>>
    BY <1>2, <2>1 DEF CommitApproval
  <2>2. CASE /\ files' = [files EXCEPT ![changing.op] = @ \cup {"approved", "intent"}]
             /\ launching' = launching \cup {changing.op} /\ "intent" \notin files[changing.op]
    BY <1>2, <2>2 DEF CommitApproval
  <2> QED BY <1>2, <2>1, <2>2 DEF CommitApproval, Write, Lacks
<1>3. CASE Crash
  BY <1>3 DEF Crash, Committed, Mishap, Has, Lacks
<1>4. CASE Restart
  BY <1>4 DEF Restart
<1>5. CASE RecordChanges
  BY <1>5 DEF RecordChanges, Mishap
<1>6. CASE UNCHANGED operationVars
  BY <1>6 DEF operationVars
<1> QED BY <1>1, <1>2, <1>3, <1>4, <1>5, <1>6 DEF OperationsNext

\* One return, of a run that stopped without an end.
LEMMA ReturnSelectedKept ==
  ASSUME "none" \notin Op, OperationsInv, [OperationsNext]_operationVars
  PROVE  ReturnSelected'
<1> USE DEF OperationsInv, OperationsTyped, ReceiptsInOrder, RunnerSelected, ReturnSelected,
            OneUnended, NoChange, Receipts
<1>1. ASSUME NEW o \in Op,
            Propose(o) \/ FinishPreparation(o) \/ Decline(o) \/ BeginApprove(o)
              \/ RefuseApproval(o) \/ ObserveOther(o) \/ Launch(o) \/ Claim(o) \/ Execute(o)
              \/ SaveResult(o) \/ Exit(o) \/ RunnerDies(o) \/ ObserverLocks(o) \/ ObserverDone(o)
              \/ ApproveReturn(o) \/ ReturnLocks(o) \/ ReturnStarts(o) \/ ReturnEnds(o)
              \/ StartMeasurement(o) \/ Refresh(o)
      PROVE ReturnSelected'
  <2>1. CASE BeginApprove(o) \/ RefuseApproval(o) \/ ObserveOther(o) \/ StartMeasurement(o)
             \/ Refresh(o)
    BY <2>1 DEF BeginApprove, RefuseApproval, ObserveOther, StartMeasurement, Refresh
  <2>2. CASE Propose(o)
    BY <2>2 DEF Propose, Write
  <2>3. CASE FinishPreparation(o)
    BY <2>3, PreparationWrites DEF FinishPreparation
  <2>4. CASE Decline(o)
    BY <2>4 DEF Decline, Write, Has, Lacks
  <2>5. CASE Launch(o)
    BY <2>5 DEF Launch, Write
  <2>6. CASE Claim(o)
    BY <2>6 DEF Claim, Write, ApprovedPlan, Has, Lacks
  <2>7. CASE Execute(o)
    BY <2>7 DEF Execute
  <2>8. CASE SaveResult(o)
    BY <2>8 DEF SaveResult, Final
  <2>9. CASE Exit(o)
    BY <2>9 DEF Exit
  <2>10. CASE RunnerDies(o)
    BY <2>10 DEF RunnerDies, Mishap
  <2>11. CASE ObserverLocks(o)
    BY <2>11 DEF ObserverLocks, Has
  <2>12. CASE ObserverDone(o)
    BY <2>12 DEF ObserverDone
  <2>13. CASE ApproveReturn(o)
    <3>1. /\ "runner-started" \in files[o] /\ "reconcile-started" \notin files[o] /\ flock[o] = "free"
          /\ (outcome[o] = "requires_reconciliation" \/ (outcome[o] = "none" /\ runner[o] = "gone"))
          /\ UNCHANGED <<store, runner, flock, outcome, returned, row, execs>>
      BY <2>13, ReturnEffect
    <3>2. CASE /\ files' = [files EXCEPT ![o] = @ \cup {"reconcile-approved", "reconcile-intent"}]
               /\ returner' = [returner EXCEPT ![o] = "spawned"] /\ UNCHANGED <<up, launching, changing>>
      BY <3>1, <3>2
    <3>3. CASE /\ files' = [files EXCEPT ![o] = @ \cup {"reconcile-approved"}] /\ UNCHANGED returner
               /\ up' = FALSE /\ launching' = {} /\ changing' = NoChange
      BY <3>1, <3>3
    <3> QED BY <2>13, <3>2, <3>3, ReturnEffect
  <2>14. CASE ReturnLocks(o)
    BY <2>14 DEF ReturnLocks
  <2>15. CASE ReturnStarts(o)
    BY <2>15 DEF ReturnStarts, Write, Returnable, Stopped, ApprovedPlan, Has, Lacks
  <2>16. CASE ReturnEnds(o)
    BY <2>16 DEF ReturnEnds, Mishap
  <2> QED BY <1>1, <2>1, <2>2, <2>3, <2>4, <2>5, <2>6, <2>7, <2>8, <2>9, <2>10, <2>11, <2>12,
             <2>13, <2>14, <2>15, <2>16
<1>2. CASE CommitApproval
  <2>1. CASE UNCHANGED files
    BY <1>2, <2>1 DEF CommitApproval
  <2>2. CASE files' = [files EXCEPT ![changing.op] = @ \cup {"approved", "intent"}]
    BY <1>2, <2>2 DEF CommitApproval
  <2> QED BY <1>2, <2>1, <2>2 DEF CommitApproval, Write
<1>3. CASE Crash
  BY <1>3 DEF Crash, Committed, Mishap, Has, Lacks
<1>4. CASE Restart
  BY <1>4 DEF Restart
<1>5. CASE RecordChanges
  BY <1>5 DEF RecordChanges, Mishap
<1>6. CASE UNCHANGED operationVars
  BY <1>6 DEF operationVars
<1> QED BY <1>1, <1>2, <1>3, <1>4, <1>5, <1>6 DEF OperationsNext

\* At most one operation with an intent has not ended.
LEMMA OneUnendedKept ==
  ASSUME "none" \notin Op, OperationsInv, [OperationsNext]_operationVars
  PROVE  OneUnended'
<1> USE DEF OperationsInv, OperationsTyped, ReceiptsInOrder, RunnerSelected, ReturnSelected,
            OneUnended, ApprovalWaits, RowsFollow, Receipts, Ended, Final
<1>1. ASSUME NEW o \in Op,
            Propose(o) \/ FinishPreparation(o) \/ Decline(o) \/ BeginApprove(o)
              \/ RefuseApproval(o) \/ ObserveOther(o) \/ Launch(o) \/ Claim(o) \/ Execute(o)
              \/ SaveResult(o) \/ Exit(o) \/ RunnerDies(o) \/ ObserverLocks(o) \/ ObserverDone(o)
              \/ ApproveReturn(o) \/ ReturnLocks(o) \/ ReturnStarts(o) \/ ReturnEnds(o)
              \/ StartMeasurement(o) \/ Refresh(o)
      PROVE OneUnended'
  <2>1. CASE BeginApprove(o) \/ RefuseApproval(o) \/ ObserveOther(o) \/ Execute(o) \/ Exit(o)
             \/ RunnerDies(o) \/ ObserverLocks(o) \/ ObserverDone(o) \/ ReturnLocks(o)
             \/ StartMeasurement(o) \/ Refresh(o)
    BY <2>1 DEF BeginApprove, RefuseApproval, ObserveOther, Execute, Exit, RunnerDies,
       ObserverLocks, ObserverDone, ReturnLocks, StartMeasurement, Refresh
  <2>2. CASE Propose(o)
    BY <2>2 DEF Propose, Write
  <2>3. CASE FinishPreparation(o)
    <3>1. UNCHANGED <<outcome, returned>>
      BY <2>3 DEF FinishPreparation
    <3>2. \A p \in Op : "intent" \in files'[p] <=> "intent" \in files[p]
      BY <2>3, PreparationWrites
    <3> QED BY <3>1, <3>2
  <2>4. CASE Decline(o)
    BY <2>4 DEF Decline, Write, Has, Lacks
  <2>5. CASE Launch(o)
    BY <2>5 DEF Launch, Write
  <2>6. CASE Claim(o)
    BY <2>6 DEF Claim, Write, ApprovedPlan, Has, Lacks
  <2>7. CASE SaveResult(o)
    BY <2>7 DEF SaveResult, Final
  <2>8. CASE ApproveReturn(o)
    <3>1. /\ "runner-started" \in files[o] /\ "reconcile-started" \notin files[o] /\ flock[o] = "free"
          /\ (outcome[o] = "requires_reconciliation" \/ (outcome[o] = "none" /\ runner[o] = "gone"))
          /\ UNCHANGED <<store, runner, flock, outcome, returned, row, execs>>
      BY <2>8, ReturnEffect
    <3>2. CASE /\ files' = [files EXCEPT ![o] = @ \cup {"reconcile-approved", "reconcile-intent"}]
               /\ returner' = [returner EXCEPT ![o] = "spawned"] /\ UNCHANGED <<up, launching, changing>>
      BY <3>1, <3>2
    <3>3. CASE /\ files' = [files EXCEPT ![o] = @ \cup {"reconcile-approved"}] /\ UNCHANGED returner
               /\ up' = FALSE /\ launching' = {} /\ changing' = NoChange
      BY <3>1, <3>3
    <3>4. \/ /\ files' = [files EXCEPT ![o] = @ \cup {"reconcile-approved", "reconcile-intent"}]
             /\ returner' = [returner EXCEPT ![o] = "spawned"] /\ UNCHANGED <<up, launching, changing>>
          \/ /\ files' = [files EXCEPT ![o] = @ \cup {"reconcile-approved"}] /\ UNCHANGED returner
             /\ up' = FALSE /\ launching' = {} /\ changing' = NoChange
      BY <2>8, ReturnEffect
    <3> QED BY <3>2, <3>3, <3>4
  <2>9. CASE ReturnStarts(o)
    <3>1. UNCHANGED <<outcome, returned>>
      BY <2>9, ReturnStartsEffect
    <3>2. \A p \in Op : "intent" \in files'[p] <=> "intent" \in files[p]
      BY <2>9, ReturnStartsWrites
    <3> QED BY <3>1, <3>2
  <2>10. CASE ReturnEnds(o)
    BY <2>10 DEF ReturnEnds, Mishap
  <2> QED BY <1>1, <2>1, <2>2, <2>3, <2>4, <2>5, <2>6, <2>7, <2>8, <2>9, <2>10
<1>2. CASE CommitApproval
  <2>1. changing.op \in Op /\ changing.left = {}
    BY <1>2 DEF CommitApproval
  <2>2. CASE UNCHANGED files
    BY <1>2, <2>2 DEF CommitApproval
  <2>3. CASE files' = [files EXCEPT ![changing.op] = @ \cup {"approved", "intent"}]
    BY <1>2, <2>1, <2>3 DEF CommitApproval
  <2> QED BY <1>2, <2>2, <2>3 DEF CommitApproval, Write
<1>3. CASE Crash
  BY <1>3 DEF Crash, Committed, Mishap, Has, Lacks
<1>4. CASE Restart
  BY <1>4 DEF Restart
<1>5. CASE RecordChanges
  BY <1>5 DEF RecordChanges, Mishap
<1>6. CASE UNCHANGED operationVars
  BY <1>6 DEF operationVars
<1> QED BY <1>1, <1>2, <1>3, <1>4, <1>5, <1>6 DEF OperationsNext

\* What an approval has seen of the other operations stays true during its awaits.
LEMMA ApprovalWaitsKept ==
  ASSUME "none" \notin Op, OperationsInv, [OperationsNext]_operationVars
  PROVE  ApprovalWaits'
<1> USE DEF OperationsInv, OperationsTyped, ReceiptsInOrder, RunnerSelected, ReturnSelected,
            OneUnended, ApprovalWaits, RowsFollow, NoChange, Receipts, Ended, Final
<1>1. ASSUME NEW o \in Op,
            Propose(o) \/ FinishPreparation(o) \/ Decline(o) \/ BeginApprove(o)
              \/ RefuseApproval(o) \/ ObserveOther(o) \/ Launch(o) \/ Claim(o) \/ Execute(o)
              \/ SaveResult(o) \/ Exit(o) \/ RunnerDies(o) \/ ObserverLocks(o) \/ ObserverDone(o)
              \/ ApproveReturn(o) \/ ReturnLocks(o) \/ ReturnStarts(o) \/ ReturnEnds(o)
              \/ StartMeasurement(o) \/ Refresh(o)
      PROVE ApprovalWaits'
  <2>1. CASE Execute(o) \/ Exit(o) \/ RunnerDies(o) \/ ObserverLocks(o) \/ ObserverDone(o)
             \/ ReturnLocks(o)
    BY <2>1 DEF Execute, Exit, RunnerDies, ObserverLocks, ObserverDone, ReturnLocks
  <2>2. CASE Propose(o)
    BY <2>2 DEF Propose, Write
  <2>3. CASE FinishPreparation(o)
    BY <2>3 DEF FinishPreparation, Write, Preparation
  <2>4. CASE Decline(o)
    BY <2>4 DEF Decline, Write, Has, Lacks
  <2>5. CASE BeginApprove(o)
    BY <2>5 DEF BeginApprove, Requested, Approvable, Others, Status, Has, Lacks
  <2>6. CASE RefuseApproval(o)
    BY <2>6 DEF RefuseApproval, Requested, Approvable, RefusedRow, Has, Lacks
  <2>7. CASE ObserveOther(o)
    BY <2>7 DEF ObserveOther, Has, Reported, RefusedRow, Final
  <2>8. CASE Launch(o)
    BY <2>8 DEF Launch, Write
  <2>9. CASE Claim(o)
    BY <2>9, SMTT(20) DEF Claim, Write, ApprovedPlan, Has, Lacks
  <2>10. CASE SaveResult(o)
    BY <2>10 DEF SaveResult, Final
  <2>11. CASE ApproveReturn(o)
    <3>1. /\ "runner-started" \in files[o] /\ "reconcile-started" \notin files[o] /\ flock[o] = "free"
          /\ (outcome[o] = "requires_reconciliation" \/ (outcome[o] = "none" /\ runner[o] = "gone"))
          /\ UNCHANGED <<store, runner, flock, outcome, returned, row, execs>>
      BY <2>11, ReturnEffect
    <3>2. CASE /\ files' = [files EXCEPT ![o] = @ \cup {"reconcile-approved", "reconcile-intent"}]
               /\ returner' = [returner EXCEPT ![o] = "spawned"] /\ UNCHANGED <<up, launching, changing>>
      BY <3>1, <3>2
    <3>3. CASE /\ files' = [files EXCEPT ![o] = @ \cup {"reconcile-approved"}] /\ UNCHANGED returner
               /\ up' = FALSE /\ launching' = {} /\ changing' = NoChange
      BY <3>1, <3>3
    <3> QED BY <2>11, <3>2, <3>3, ReturnEffect
  <2>12. CASE ReturnStarts(o)
    <3>1. UNCHANGED <<store, up, launching, changing, outcome, returned, row>>
      BY <2>12, ReturnStartsEffect
    <3>2. \A p \in Op : "intent" \in files'[p] <=> "intent" \in files[p]
      BY <2>12, ReturnStartsWrites
    <3> QED BY <3>1, <3>2
  <2>13. CASE ReturnEnds(o)
    BY <2>13, SMTT(20) DEF ReturnEnds, Mishap
  <2>14. CASE StartMeasurement(o)
    BY <2>14 DEF StartMeasurement, Active, Engaged
  <2>15. CASE Refresh(o)
    BY <2>15 DEF Refresh, Has, Active, Engaged
  <2> QED BY <1>1, <2>1, <2>2, <2>3, <2>4, <2>5, <2>6, <2>7, <2>8, <2>9, <2>10, <2>11, <2>12,
             <2>13, <2>14, <2>15
<1>2. CASE CommitApproval
  BY <1>2 DEF CommitApproval, Write, Has, Lacks
<1>3. CASE Crash
  BY <1>3 DEF Crash, Committed, Mishap, Has, Lacks
<1>4. CASE Restart
  BY <1>4 DEF Restart
<1>5. CASE RecordChanges
  BY <1>5 DEF RecordChanges, Mishap
<1>6. CASE UNCHANGED operationVars
  BY <1>6 DEF operationVars
<1> QED BY <1>1, <1>2, <1>3, <1>4, <1>5, <1>6 DEF OperationsNext

\* A measurement's row is final only of an operation that never started or has ended.
LEMMA RowsFollowKept ==
  ASSUME "none" \notin Op, OperationsInv, [OperationsNext]_operationVars
  PROVE  RowsFollow'
<1> USE DEF OperationsInv, OperationsTyped, ReceiptsInOrder, RunnerSelected, ReturnSelected,
            OneUnended, ApprovalWaits, RowsFollow, NoChange, Receipts, Ended, Final
<1>1. ASSUME NEW o \in Op,
            Propose(o) \/ FinishPreparation(o) \/ Decline(o) \/ BeginApprove(o)
              \/ RefuseApproval(o) \/ ObserveOther(o) \/ Launch(o) \/ Claim(o) \/ Execute(o)
              \/ SaveResult(o) \/ Exit(o) \/ RunnerDies(o) \/ ObserverLocks(o) \/ ObserverDone(o)
              \/ ApproveReturn(o) \/ ReturnLocks(o) \/ ReturnStarts(o) \/ ReturnEnds(o)
              \/ StartMeasurement(o) \/ Refresh(o)
      PROVE RowsFollow'
  <2>1. CASE BeginApprove(o) \/ Execute(o) \/ Exit(o) \/ RunnerDies(o) \/ ObserverLocks(o)
             \/ ObserverDone(o) \/ ReturnLocks(o)
    BY <2>1 DEF BeginApprove, Execute, Exit, RunnerDies, ObserverLocks, ObserverDone, ReturnLocks
  <2>2. CASE Propose(o)
    BY <2>2 DEF Propose, Write
  <2>3. CASE FinishPreparation(o)
    BY <2>3 DEF FinishPreparation, Write, Preparation
  <2>4. CASE Decline(o)
    BY <2>4 DEF Decline, Write, Has, Lacks
  <2>5. CASE RefuseApproval(o)
    BY <2>5 DEF RefuseApproval, Requested, Approvable, RefusedRow, Has, Lacks
  <2>6. CASE ObserveOther(o)
    BY <2>6 DEF ObserveOther, Has, Reported, RefusedRow, Final
  <2>7. CASE Launch(o)
    <3>1. \A p \in Op : "intent" \in files'[p] <=> "intent" \in files[p]
      BY <2>7 DEF Launch, Write
    <3> QED BY <2>7, <3>1 DEF Launch
  <2>8. CASE Claim(o)
    BY <2>8 DEF Claim, Write, ApprovedPlan, Has, Lacks
  <2>9. CASE SaveResult(o)
    BY <2>9 DEF SaveResult, Final
  <2>10. CASE ApproveReturn(o)
    <3>1. /\ "runner-started" \in files[o] /\ "reconcile-started" \notin files[o] /\ flock[o] = "free"
          /\ (outcome[o] = "requires_reconciliation" \/ (outcome[o] = "none" /\ runner[o] = "gone"))
          /\ UNCHANGED <<store, runner, flock, outcome, returned, row, execs>>
      BY <2>10, ReturnEffect
    <3>2. CASE /\ files' = [files EXCEPT ![o] = @ \cup {"reconcile-approved", "reconcile-intent"}]
               /\ returner' = [returner EXCEPT ![o] = "spawned"] /\ UNCHANGED <<up, launching, changing>>
      BY <3>1, <3>2
    <3>3. CASE /\ files' = [files EXCEPT ![o] = @ \cup {"reconcile-approved"}] /\ UNCHANGED returner
               /\ up' = FALSE /\ launching' = {} /\ changing' = NoChange
      BY <3>1, <3>3
    <3> QED BY <2>10, <3>2, <3>3, ReturnEffect
  <2>11. CASE ReturnStarts(o)
    <3>1. \A p \in Op, r \in Receipts \ {"reconcile-started"} : r \in files'[p] <=> r \in files[p]
      <4>1. files' = files \/ files' = [files EXCEPT ![o] = @ \cup {"reconcile-started"}]
        BY <2>11, ReturnStartsEffect
      <4> QED BY <4>1 DEF Receipts
    <3> QED BY <2>11, <3>1, ReturnStartsEffect DEF Receipts
  <2>12. CASE ReturnEnds(o)
    BY <2>12 DEF ReturnEnds, Mishap
  <2>13. CASE StartMeasurement(o)
    BY <2>13 DEF StartMeasurement, Active, Engaged
  <2>14. CASE Refresh(o)
    BY <2>14 DEF Refresh, Has, Active, Engaged
  <2> QED BY <1>1, <2>1, <2>2, <2>3, <2>4, <2>5, <2>6, <2>7, <2>8, <2>9, <2>10, <2>11, <2>12,
             <2>13, <2>14
<1>2. CASE CommitApproval
  BY <1>2 DEF CommitApproval, Write, Has, Lacks
<1>3. CASE Crash
  BY <1>3 DEF Crash, Committed, Mishap, Has, Lacks
<1>4. CASE Restart
  BY <1>4 DEF Restart
<1>5. CASE RecordChanges
  BY <1>5 DEF RecordChanges, Mishap
<1>6. CASE UNCHANGED operationVars
  BY <1>6 DEF operationVars
<1> QED BY <1>1, <1>2, <1>3, <1>4, <1>5, <1>6 DEF OperationsNext

LEMMA OperationsInitial == ASSUME OperationsGiven PROVE OperationsInit => OperationsInv
  BY DEF OperationsGiven, OperationsInit, OperationsInv, OperationsTyped, ReceiptsInOrder,
     RunnerSelected, ReturnSelected,
     OneUnended, ApprovalWaits, RowsFollow, NoChange

LEMMA OperationsStep ==
  ASSUME OperationsGiven PROVE OperationsInv /\ [OperationsNext]_operationVars => OperationsInv'
  BY OperationsTypedKept, ReceiptsInOrderKept, RunnerSelectedKept, ReturnSelectedKept,
     OneUnendedKept,
     ApprovalWaitsKept, RowsFollowKept DEF OperationsInv, OperationsGiven

\* The inductive invariant of server operations holds in every reachable state.
THEOREM OperationsInvariant == ASSUME OperationsGiven PROVE OperationsSpec => []OperationsInv
  BY OperationsInitial, OperationsStep, PTL DEF OperationsSpec

\* Who is at work has its intent and no end.
LEMMA WorksUnended ==
  ASSUME OperationsInv, NEW o \in Op, AtWork(o)
  PROVE  "intent" \in files[o] /\ ~Ended(o)
  BY DEF OperationsInv, OperationsTyped, AtWork, RunnerSelected, ReturnSelected, ReceiptsInOrder,
     Ended, Final

\* An operation is executed as approved, at most once and beside nothing else, and
\* what is reported as its end is one (server-operations.mjs, operation_runner.py,
\* hourglass-runs.mjs), for any number of operations and mishaps.
THEOREM ExecutionCorrect == ASSUME OperationsGiven PROVE OperationsSpec => []ExecutedAlone
<1> SUFFICES OperationsInv => ExecutedAlone
  BY OperationsInvariant, PTL
<1> SUFFICES ASSUME OperationsInv PROVE ExecutedAlone
  OBVIOUS
<1>1. ExecutedOnce
  BY DEF OperationsInv, OperationsTyped, RunnerSelected, ReturnSelected, ReceiptsInOrder,
     ExecutedOnce, Has, Lacks
<1>2. OneOperationAtWork
  BY WorksUnended DEF OperationsInv, OneUnended, OneOperationAtWork
<1>3. ReturnAlone
  BY DEF OperationsInv, OperationsTyped, RunnerSelected, ReturnSelected, ReturnAlone
<1>4. FinalIsOver
  BY WorksUnended DEF FinalIsOver, Reported, Ended, Final
<1>5. RowHonest
  <2> SUFFICES ASSUME NEW o \in Op, row[o] \in {"rejected", "done"}
               PROVE  /\ runner[o] \in {"none", "finished", "gone"} /\ o \notin launching
                      /\ returner[o] # "returning"
    BY DEF RowHonest
  <2>1. CASE row[o] = "rejected"
    BY <2>1 DEF OperationsInv, RowsFollow, RunnerSelected, ReturnSelected, ReceiptsInOrder
  <2>2. CASE row[o] = "done"
    BY <2>2 DEF OperationsInv, OperationsTyped, RowsFollow, RunnerSelected, ReturnSelected,
       ReceiptsInOrder, Ended, Final
  <2> QED BY <2>1, <2>2
<1> QED BY <1>1, <1>2, <1>3, <1>4, <1>5 DEF ExecutedAlone

-----------------------------------------------------------------------------
(* The media queue.                                                        *)

MediaSpec == MediaInit /\ [][MediaNext]_mediaVars

Operation ==
  [host : Host \cup {"none"}, ids : Seq(MediaJob), log : BOOLEAN,
   phase : {"none", "launch_uncertain", "starting", "starting_media", "generating", "needs_attention"} \cup Terminal,
   rows : [MediaJob -> {"none", "queued", "submitting", "submitted", "uncertain", "failed", "completed"}],
   pc : {"none", "checking", "taken", "ready", "sending", "observing", "unchanged", "returning", "failing", "ended"},
   at : Nat]

MediaTyped ==
  /\ queued \subseteq MediaJob
  /\ assigned \in [MediaJob -> MediaJob \cup {"none"}]
  /\ op \in [MediaJob -> Operation]
  /\ sent \in [MediaJob -> Nat]

Running(h) == op[h].pc \notin {"none", "ended"}

\* An operation that was launched has a batch of one or two jobs, its head the first.
BatchKept ==
  \A h \in MediaJob :
    IF op[h].log
    THEN /\ Len(op[h].ids) \in {1, 2} /\ op[h].at \in {1, 2} /\ op[h].at <= Len(op[h].ids)
         /\ op[h].ids[1] = h /\ (Len(op[h].ids) = 2 => op[h].ids[2] # h)
    ELSE op[h].pc = "none" /\ op[h].phase = "none"

\* An assigned job is of a launched operation, a head of its own for good, and every
\* job of an operation under way is that operation's.
JobsOwned ==
  /\ \A j \in MediaJob : assigned[j] # "none" => j \in queued /\ op[assigned[j]].log
  /\ \A h \in MediaJob : op[h].log => assigned[h] = h
  /\ \A h \in MediaJob : Running(h) => \A i \in 1..Len(op[h].ids) : assigned[op[h].ids[i]] = h

\* Receipts follow the position in the batch: jobs from there on are unsent, the head
\* is decided once the batch has passed it or ended well, and only an end is terminal.
ReceiptsFollow ==
  \A h \in MediaJob :
    /\ op[h].pc \in {"checking", "taken", "ready"} =>
         \A i \in op[h].at..Len(op[h].ids) : op[h].rows[op[h].ids[i]] = "queued"
    /\ op[h].pc \in {"sending", "observing"} => 
         /\ op[h].rows[Current(h)] # "queued"
         /\ \A i \in (op[h].at + 1)..Len(op[h].ids) : op[h].rows[op[h].ids[i]] = "queued"
    /\ \/ op[h].pc \in {"sending", "observing", "unchanged", "returning", "failing"}
       \/ op[h].at > 1
       \/ op[h].phase \in Terminal
       => op[h].rows[h] # "queued"
    /\ op[h].phase \in Terminal => op[h].pc = "ended"

\* A job that was sent is past its row "queued" for good, and one about to be sent was
\* not sent before.
SentRecorded ==
  /\ \A j \in MediaJob : sent[j] > 0 => assigned[j] # "none" /\ op[assigned[j]].rows[j] # "queued"
  /\ \A h \in MediaJob : op[h].pc = "sending" => sent[Current(h)] = 0
  /\ GeneratedOnce

MediaInv ==
  MediaTyped /\ BatchKept /\ JobsOwned /\ ReceiptsFollow /\ SentRecorded /\ OneMediaOperation

\* A batch is one or two distinct jobs, all waiting.
LEMMA BatchesEffect ==
  ASSUME NEW ids \in Batches
  PROVE  /\ ids \in Seq(MediaJob) /\ Len(ids) \in {1, 2} /\ (Len(ids) = 2 => ids[2] # ids[1])
         /\ ids[1] \in MediaJob /\ \A i \in 1..Len(ids) : Waiting(ids[i])
<1>1. CASE \E j \in MediaJob : ids = <<j>>
  BY <1>1 DEF Batches
<1>2. CASE \E j, k \in MediaJob : ids = <<j, k>>
  <2>1. PICK j \in MediaJob, k \in MediaJob : ids = <<j, k>>
    BY <1>2
  <2>2. /\ ids[1] = j /\ ids[2] = k /\ Len(ids) = 2 /\ ids \in Seq(MediaJob)
    BY <2>1
  <2>3. /\ ids[1] # ids[2] /\ \A i \in 1..Len(ids) : Waiting(ids[i])
    BY <2>2 DEF Batches
  <2> QED BY <2>2, <2>3
<1> QED BY <1>1, <1>2 DEF Batches

\* The job at hand of an operation that was launched.
LEMMA CurrentJob ==
  ASSUME MediaInv, NEW h \in MediaJob, op[h].pc # "none"
  PROVE  /\ op[h].log /\ Current(h) \in MediaJob /\ op[h].at \in 1..Len(op[h].ids)
         /\ (op[h].at = 1 => Current(h) = h) /\ (op[h].at = 2 => Current(h) # h)
  BY DEF MediaInv, MediaTyped, Operation, BatchKept, Current

\* What every step of the runner of h does: it changes its own receipts only, and of
\* the rows only that of the job at hand, which never becomes "queued" again.
OwnReceipts(h) ==
  /\ UNCHANGED <<queued, assigned>>
  /\ op' \in [MediaJob -> Operation] /\ \A g \in MediaJob \ {h} : op'[g] = op[g]
  /\ Running(h)
  /\ op'[h].host = op[h].host /\ op'[h].ids = op[h].ids /\ op'[h].log = op[h].log
  /\ \A j \in MediaJob \ {Current(h)} : op'[h].rows[j] = op[h].rows[j]
  /\ \/ op'[h].rows[Current(h)] = op[h].rows[Current(h)]
     \/ op'[h].rows[Current(h)] # "queued"

\* Where a step takes the batch: onwards with the job unsent, past the decision on it,
\* to the next job, or to an end.
Onwards(h) ==
  /\ \/ op[h].pc = "checking" /\ op'[h].pc = "taken"
     \/ op[h].pc = "taken" /\ op'[h].pc = "ready"
  /\ op'[h].at = op[h].at /\ op'[h].rows = op[h].rows
Passed(h) ==
  /\ op[h].pc = "taken" /\ op[h].at > 1 /\ op'[h].pc = "returning" /\ op'[h].at = op[h].at
Decides(h) ==
  /\ \/ op[h].pc = "ready" /\ op'[h].pc = "sending"
     \/ op[h].pc \in {"sending", "observing"} /\ op'[h].pc \in {"observing", "returning", "failing"}
     \/ op[h].pc \in {"checking", "taken", "ready"} /\ op'[h].pc \in {"unchanged", "failing"}
  /\ op'[h].at = op[h].at /\ op'[h].rows[Current(h)] # "queued"
NextOne(h) ==
  /\ op[h].pc = "observing" /\ op'[h].pc = "taken"
  /\ op[h].at < Len(op[h].ids) /\ op'[h].at = op[h].at + 1
  /\ op'[h].rows[Current(h)] # "queued"
Ends(h) ==
  /\ op'[h].pc = "ended" /\ op'[h].at = op[h].at /\ op'[h].rows = op[h].rows
  /\ op'[h].phase \in Terminal => op[h].pc \in {"unchanged", "returning", "failing"}
Moves(h) ==
  \/ /\ Onwards(h) \/ Passed(h) \/ Decides(h) \/ NextOne(h)
     /\ op'[h].phase \notin Terminal
  \/ Ends(h)

SentBy(h) ==
  \/ UNCHANGED sent
  \/ /\ op[h].pc = "sending" /\ op'[h].pc \in {"observing", "ended"}
     /\ sent' = [sent EXCEPT ![Current(h)] = @ + 1]

\* Every step of a runner is of that form.
LEMMA RunnerEffect ==
  ASSUME MediaInv, NEW h \in MediaJob,
         \/ MachineTaken(h) \/ NextJob(h) \/ Submit(h) \/ Receive(h) \/ Observe(h)
         \/ CycleFails(h) \/ CycleEnds(h) \/ RunnerDiesAt(h)
  PROVE  OwnReceipts(h) /\ Moves(h) /\ SentBy(h)
<1>1. /\ op \in [MediaJob -> Operation] /\ op[h] \in Operation
      /\ op[h].phase \in Terminal => op[h].pc = "ended"
  BY DEF MediaInv, MediaTyped, ReceiptsFollow
<1>2. op[h].pc # "none" => /\ Current(h) \in MediaJob /\ op[h].at \in Nat
  BY CurrentJob, <1>1 DEF Operation
<1> USE DEF Step, Moves, OwnReceipts, SentBy, Running, Operation
<1>3. CASE MachineTaken(h)
  BY <1>1, <1>2, <1>3 DEF MachineTaken, Onwards, Terminal
<1>4. CASE NextJob(h)
  <2>1. CASE op' = [op EXCEPT ![h] = [op[h] EXCEPT !.pc = "ready"]]
    BY <1>1, <1>2, <1>4, <2>1 DEF NextJob, Onwards
  <2>2. CASE op[h].at > 1 /\ op' = [op EXCEPT ![h] = [op[h] EXCEPT !.pc = "returning"]]
    BY <1>1, <1>2, <1>4, <2>2 DEF NextJob, Passed
  <2> QED BY <1>4, <2>1, <2>2 DEF NextJob
<1>5. CASE Submit(h)
  BY <1>1, <1>2, <1>5 DEF Submit, RowSet, Decides, Terminal
<1>6. CASE Receive(h)
  <2>1. ASSUME NEW state \in {"submitted", "uncertain"},
               op' = [op EXCEPT ![h] = [op[h] EXCEPT !.pc = "observing",
                                                     !.rows = [op[h].rows EXCEPT ![Current(h)] = state]]],
               sent' = [sent EXCEPT ![Current(h)] = @ + 1]
        PROVE  OwnReceipts(h) /\ Moves(h) /\ SentBy(h)
    BY <1>1, <1>2, <1>6, <2>1 DEF Receive, Decides
  <2>2. CASE op' = [op EXCEPT ![h] = [op[h] EXCEPT !.pc = "failing",
                                                   !.rows = [op[h].rows EXCEPT ![Current(h)] = "failed"]]]
             /\ UNCHANGED sent
    BY <1>1, <1>2, <1>6, <2>2 DEF Receive, Decides
  <2> QED BY <1>6, <2>1, <2>2 DEF Receive, RowSet
<1>7. CASE Observe(h)
  <2>1. CASE /\ op[h].at < Len(op[h].ids)
             /\ op' = [op EXCEPT ![h] = [op[h] EXCEPT !.pc = "taken", !.at = @ + 1,
                                                      !.rows = [op[h].rows EXCEPT ![Current(h)] = "completed"]]]
    <3>1. op[h].at \in Nat /\ op[h].at + 1 \in Nat /\ Current(h) \in MediaJob
      BY <1>2, <1>7 DEF Observe
    <3>2. op'[h] = [op[h] EXCEPT !.pc = "taken", !.at = op[h].at + 1,
                                 !.rows = [op[h].rows EXCEPT ![Current(h)] = "completed"]]
      BY <1>1, <2>1
    <3>3. op'[h] \in Operation
      <4>1. [op[h].rows EXCEPT ![Current(h)] = "completed"] \in
              [MediaJob -> {"none", "queued", "submitting", "submitted", "uncertain", "failed", "completed"}]
        BY <1>1
      <4>2. ASSUME NEW rows \in [MediaJob -> {"none", "queued", "submitting", "submitted", "uncertain",
                                             "failed", "completed"}],
                   NEW at \in Nat
            PROVE  [op[h] EXCEPT !.pc = "taken", !.at = at, !.rows = rows] \in Operation
        BY <1>1
      <4> QED BY <3>1, <3>2, <4>1, <4>2
    <3>4. op' \in [MediaJob -> Operation] /\ \A g \in MediaJob \ {h} : op'[g] = op[g]
      <4> HIDE DEF Operation
      <4> QED BY <1>1, <2>1, <3>2, <3>3
    <3>5. OwnReceipts(h)
      BY <1>1, <1>7, <3>1, <3>2, <3>4 DEF Observe
    <3>6. NextOne(h) /\ op'[h].phase \notin Terminal
      BY <1>1, <1>7, <2>1, <3>1, <3>2 DEF Observe, NextOne
    <3> QED BY <1>7, <3>5, <3>6 DEF Observe
  <2>2. ASSUME NEW pc \in {"returning", "failing"}, NEW state \in {"completed", "failed"},
               op' = [op EXCEPT ![h] = [op[h] EXCEPT !.pc = pc,
                                                     !.rows = [op[h].rows EXCEPT ![Current(h)] = state]]]
        PROVE  OwnReceipts(h) /\ Moves(h) /\ SentBy(h)
    BY <1>1, <1>2, <1>7, <2>2 DEF Observe, Decides
  <2>3. CASE op' = [op EXCEPT ![h] = [op[h] EXCEPT !.rows = [op[h].rows EXCEPT ![Current(h)] = "uncertain"]]]
    BY <1>1, <1>2, <1>7, <2>3 DEF Observe, Decides
  <2> QED BY <1>7, <2>1, <2>2, <2>3 DEF Observe, RowSet
<1>8. CASE CycleFails(h)
  <2>1. /\ FailedRows(h) \in [MediaJob -> {"none", "queued", "submitting", "submitted", "uncertain", "failed", "completed"}]
        /\ \A j \in MediaJob \ {Current(h)} : FailedRows(h)[j] = op[h].rows[j]
        /\ op[h].pc # "none" => FailedRows(h)[Current(h)] # "queued"
    BY <1>1, <1>2 DEF FailedRows, RowSet
  <2>2. ASSUME NEW pc \in {"unchanged", "failing"},
               op' = [op EXCEPT ![h] = [op[h] EXCEPT !.pc = pc, !.rows = FailedRows(h)]],
               op[h].pc \in {"checking", "taken", "ready"}
        PROVE  OwnReceipts(h) /\ Moves(h) /\ SentBy(h)
    BY <1>1, <1>2, <1>8, <2>1, <2>2 DEF CycleFails, Decides
  <2> QED BY <1>8, <2>2 DEF CycleFails
<1>9. CASE CycleEnds(h)
  <2>1. ASSUME NEW phase \in Terminal \cup {"needs_attention"}, op[h].pc \in {"unchanged", "returning", "failing"},
               op' = [op EXCEPT ![h] = [op[h] EXCEPT !.pc = "ended", !.phase = phase]]
        PROVE  OwnReceipts(h) /\ Moves(h) /\ SentBy(h)
    BY <1>1, <1>2, <1>9, <2>1 DEF CycleEnds, Ends
  <2> QED BY <1>9, <2>1 DEF CycleEnds, Terminal
<1>10. CASE RunnerDiesAt(h)
  BY <1>1, <1>2, <1>10 DEF RunnerDiesAt, Ends
<1> QED BY <1>3, <1>4, <1>5, <1>6, <1>7, <1>8, <1>9, <1>10

\* A waiting job was never sent, and belongs to no operation that is under way.
LEMMA WaitingFree ==
  ASSUME MediaGiven, MediaInv, NEW j \in MediaJob, Waiting(j)
  PROVE  /\ ~op[j].log /\ sent[j] = 0 /\ j \in queued
         /\ \A g \in MediaJob : Running(g) => assigned[j] # g
  BY DEF MediaGiven, MediaInv, MediaTyped, JobsOwned, ReceiptsFollow, SentRecorded, Waiting, Released, Row, Running, Terminal

\* The core finds a worker busy while a runner is on it.
LEMMA BusyRunning ==
  ASSUME MediaGiven, MediaInv, NEW g \in MediaJob, Running(g)
  PROVE  Busy(op[g].host)
<1>1. op[g].log /\ assigned[g] = g /\ g \in queued /\ op[g].phase \notin Terminal
  BY DEF MediaGiven, MediaInv, MediaTyped, BatchKept, JobsOwned, ReceiptsFollow, Running, Terminal
<1>2. ~Waiting(g)
  BY <1>1, WaitingFree
<1> QED BY <1>1, <1>2 DEF Busy

\* What a start does: a fresh operation of waiting jobs, on a worker no runner is on.
StartsFresh(w, ids) ==
  /\ ~op[ids[1]].log
  /\ op' \in [MediaJob -> Operation] /\ \A g \in MediaJob \ {ids[1]} : op'[g] = op[g]
  /\ op'[ids[1]].host = w /\ op'[ids[1]].ids = ids /\ op'[ids[1]].log /\ op'[ids[1]].at = 1
  /\ op'[ids[1]].phase \notin Terminal /\ op'[ids[1]].pc \in {"none", "checking"}
  /\ \A i \in 1..Len(ids) : op'[ids[1]].rows[ids[i]] = "queued"
  /\ \A j \in MediaJob : assigned'[j] = IF \E i \in 1..Len(ids) : ids[i] = j THEN ids[1] ELSE assigned[j]
  /\ UNCHANGED <<queued, sent>>
  /\ \A g \in MediaJob : Running(g) => op[g].host # w
  /\ \A i \in 1..Len(ids) : ids[i] \in MediaJob /\ Waiting(ids[i])

\* Every start is of that form.
LEMMA StartEffect ==
  ASSUME MediaGiven, MediaInv, NEW w \in Host, NEW ids \in Batches, Start(w, ids)
  PROVE  StartsFresh(w, ids)
<1> DEFINE h == ids[1]
           rows == [j \in MediaJob |-> IF \E i \in 1..Len(ids) : ids[i] = j THEN "queued" ELSE "none"]
<1>1. /\ h \in MediaJob /\ ids \in Seq(MediaJob) /\ 1 \in 1..Len(ids)
      /\ \A i \in 1..Len(ids) : ids[i] \in MediaJob /\ Waiting(ids[i])
  BY BatchesEffect
<1>2. ~op[h].log
  BY <1>1, WaitingFree
<1>3. \A g \in MediaJob : Running(g) => op[g].host # w
  BY BusyRunning DEF Start
<1>4. PICK phase \in {"launch_uncertain", "starting"}, pc \in {"none", "checking"} :
        op' = [op EXCEPT ![h] = [host |-> w, ids |-> ids, log |-> TRUE, phase |-> phase, pc |-> pc,
                                 at |-> 1, rows |-> rows]]
  BY DEF Start
<1>5. /\ rows \in [MediaJob -> {"none", "queued", "submitting", "submitted", "uncertain", "failed", "completed"}]
      /\ \A i \in 1..Len(ids) : rows[ids[i]] = "queued"
  BY <1>1
<1>6. op \in [MediaJob -> Operation]
  BY DEF MediaInv, MediaTyped
<1> HIDE DEF rows, h
<1>7. /\ op'[h] = [host |-> w, ids |-> ids, log |-> TRUE, phase |-> phase, pc |-> pc, at |-> 1, rows |-> rows]
      /\ \A g \in MediaJob \ {h} : op'[g] = op[g] /\ DOMAIN op' = MediaJob
  BY <1>1, <1>4, <1>6
<1>8. op'[h] \in Operation
  BY <1>1, <1>5, <1>7 DEF Operation, Terminal
<1>9. op' \in [MediaJob -> Operation]
  BY <1>4, <1>6, <1>7, <1>8
<1>10. /\ UNCHANGED <<queued, sent>>
       /\ \A j \in MediaJob : assigned'[j] = IF \E i \in 1..Len(ids) : ids[i] = j THEN h ELSE assigned[j]
  BY DEF Start, h
<1> QED BY <1>1, <1>2, <1>3, <1>5, <1>7, <1>9, <1>10 DEF StartsFresh, Terminal, h

\* Every step is one of four kinds.
LEMMA MediaEffect ==
  ASSUME MediaGiven, MediaInv, [MediaNext]_mediaVars
  PROVE  \/ \E j \in MediaJob : Enqueue(j)
         \/ \E w \in Host, ids \in Batches : StartsFresh(w, ids)
         \/ \E h \in MediaJob : OwnReceipts(h) /\ Moves(h) /\ SentBy(h)
         \/ UNCHANGED mediaVars
  BY StartEffect, RunnerEffect DEF MediaNext

\* One lemma per part of the invariant.
LEMMA MediaTypedKept ==
  ASSUME MediaGiven, MediaInv, [MediaNext]_mediaVars
  PROVE  MediaTyped'
<1>1. ASSUME NEW j \in MediaJob, Enqueue(j) PROVE MediaTyped'
  BY <1>1 DEF MediaInv, MediaTyped, Enqueue
<1>2. ASSUME NEW w \in Host, NEW ids \in Batches, StartsFresh(w, ids), Start(w, ids) PROVE MediaTyped'
  <2>1. ids[1] \in MediaJob
    BY BatchesEffect
  <2>2. assigned' \in [MediaJob -> MediaJob \cup {"none"}]
    BY <1>2, <2>1 DEF MediaInv, MediaTyped, Start
  <2> QED BY <1>2, <2>2 DEF MediaInv, MediaTyped, StartsFresh
<1>3. ASSUME NEW h \in MediaJob, OwnReceipts(h), SentBy(h) PROVE MediaTyped'
  BY <1>3 DEF MediaInv, MediaTyped, OwnReceipts, SentBy
<1>4. CASE UNCHANGED mediaVars
  BY <1>4 DEF MediaInv, MediaTyped, mediaVars
<1> QED BY <1>1, <1>2, <1>3, <1>4, StartEffect, RunnerEffect DEF MediaNext

\* Arithmetic of a batch of one or two jobs.
LEMMA NextPlace ==
  ASSUME NEW len \in {1, 2}, NEW at \in {1, 2}
  PROVE  /\ at < len => at = 1 /\ len = 2 /\ at + 1 = 2
         /\ \A i \in (at + 1)..len : at = 1 /\ len = 2 /\ i = 2
  OBVIOUS

LEMMA BatchKeptKept ==
  ASSUME MediaGiven, MediaInv, [MediaNext]_mediaVars
  PROVE  BatchKept'
<1> USE DEF BatchKept
<1>1. ASSUME NEW j \in MediaJob, Enqueue(j) PROVE BatchKept'
  BY <1>1 DEF MediaInv, Enqueue
<1>2. ASSUME NEW w \in Host, NEW ids \in Batches, StartsFresh(w, ids) PROVE BatchKept'
  BY <1>2, BatchesEffect DEF MediaInv, StartsFresh
<1>3. ASSUME NEW h \in MediaJob, OwnReceipts(h), Moves(h) PROVE BatchKept'
  <2>1. op[h].log /\ op[h].pc # "none"
    BY <1>3 DEF MediaInv, OwnReceipts, Running
  <2>2. /\ Len(op[h].ids) \in {1, 2} /\ op[h].at \in {1, 2} /\ op[h].at <= Len(op[h].ids)
        /\ op[h].ids[1] = h /\ (Len(op[h].ids) = 2 => op[h].ids[2] # h)
    BY <2>1 DEF MediaInv
  <2>3. op'[h].at = op[h].at \/ (op[h].at < Len(op[h].ids) /\ op'[h].at = op[h].at + 1)
    BY <1>3 DEF Moves, Onwards, Passed, Decides, NextOne, Ends
  <2>4. op'[h].at \in {1, 2} /\ op'[h].at <= Len(op[h].ids)
    <3>1. CASE op'[h].at = op[h].at
      BY <2>2, <3>1
    <3>2. CASE op[h].at < Len(op[h].ids) /\ op'[h].at = op[h].at + 1
      <4>1. op[h].at = 1 /\ Len(op[h].ids) = 2 /\ op[h].at + 1 = 2
        BY <2>2, <3>2, NextPlace
      <4> QED BY <3>2, <4>1
    <3> QED BY <2>3, <3>1, <3>2
  <2>5. /\ op'[h].ids = op[h].ids /\ op'[h].log = op[h].log
        /\ \A g \in MediaJob \ {h} : op'[g] = op[g]
    BY <1>3 DEF OwnReceipts
  <2>6. ASSUME NEW g \in MediaJob
        PROVE  IF op'[g].log
               THEN /\ Len(op'[g].ids) \in {1, 2} /\ op'[g].at \in {1, 2} /\ op'[g].at <= Len(op'[g].ids)
                    /\ op'[g].ids[1] = g /\ (Len(op'[g].ids) = 2 => op'[g].ids[2] # g)
               ELSE op'[g].pc = "none" /\ op'[g].phase = "none"
    <3>1. CASE g = h
      BY <2>1, <2>2, <2>4, <2>5, <3>1
    <3>2. CASE g # h
      BY <2>5, <3>2 DEF MediaInv
    <3> QED BY <3>1, <3>2
  <2> QED BY <2>6
<1>4. CASE UNCHANGED mediaVars
  BY <1>4 DEF MediaInv, mediaVars
<1> QED BY <1>1, <1>2, <1>3, <1>4, MediaEffect

LEMMA JobsOwnedKept ==
  ASSUME MediaGiven, MediaInv, [MediaNext]_mediaVars
  PROVE  JobsOwned'
<1> USE DEF JobsOwned, Running
<1>1. ASSUME NEW j \in MediaJob, Enqueue(j) PROVE JobsOwned'
  BY <1>1 DEF MediaInv, Enqueue
<1>2. ASSUME NEW w \in Host, NEW ids \in Batches, StartsFresh(w, ids) PROVE JobsOwned'
  <2> DEFINE h == ids[1]
             Own(j) == \E i \in 1..Len(ids) : ids[i] = j
  <2>1. /\ h \in MediaJob /\ Own(h)
        /\ \A j \in MediaJob : Own(j) => Waiting(j)
    BY <1>2, BatchesEffect DEF StartsFresh
  <2>2. \A j \in MediaJob : Own(j) => j \in queued /\ ~op[j].log /\ \A g \in MediaJob : Running(g) => assigned[j] # g
    BY <2>1, WaitingFree
  <2>3. \A j \in MediaJob : assigned'[j] # "none" => j \in queued' /\ op'[assigned'[j]].log
    BY <1>2, <2>1, <2>2 DEF MediaInv, MediaTyped, StartsFresh
  <2>4. \A g \in MediaJob : op'[g].log => assigned'[g] = g
    BY <1>2, <2>1, <2>2 DEF MediaInv, StartsFresh
  <2>5. ASSUME NEW g \in MediaJob, Running(g)', NEW i \in 1..Len(op'[g].ids)
        PROVE  assigned'[op'[g].ids[i]] = g
    <3>1. CASE g = h
      BY <1>2, <2>5, <3>1 DEF StartsFresh
    <3>2. CASE g # h
      <4>1. op'[g] = op[g] /\ assigned[op[g].ids[i]] = g
        BY <1>2, <2>5, <3>2 DEF MediaInv, StartsFresh
      <4>2. op[g].ids[i] \in MediaJob /\ Running(g)
        BY <2>5, <4>1 DEF MediaInv, MediaTyped, Operation
      <4>3. ~Own(op[g].ids[i])
        BY <2>2, <4>1, <4>2
      <4> QED BY <1>2, <4>1, <4>2, <4>3 DEF StartsFresh
    <3> QED BY <3>1, <3>2
  <2> QED BY <2>3, <2>4, <2>5
<1>3. ASSUME NEW h \in MediaJob, OwnReceipts(h), Moves(h) PROVE JobsOwned'
  <2>1. /\ op[h].pc \notin {"none", "ended"} /\ UNCHANGED <<queued, assigned>>
        /\ op'[h].ids = op[h].ids /\ op'[h].log = op[h].log
        /\ \A g \in MediaJob \ {h} : op'[g] = op[g]
    BY <1>3 DEF OwnReceipts
  <2>2. \A g \in MediaJob : /\ op'[g].ids = op[g].ids /\ op'[g].log = op[g].log
                             /\ op'[g].pc \notin {"none", "ended"} => op[g].pc \notin {"none", "ended"}
    BY <2>1
  <2>3. \A j \in MediaJob : assigned[j] \in MediaJob \cup {"none"}
    BY DEF MediaInv, MediaTyped
  <2>4. \A j \in MediaJob : assigned'[j] # "none" => j \in queued' /\ op'[assigned'[j]].log
    BY <2>1, <2>2, <2>3 DEF MediaInv
  <2>5. \A g \in MediaJob : op'[g].log => assigned'[g] = g
    BY <2>1, <2>2 DEF MediaInv
  <2>6. ASSUME NEW g \in MediaJob, Running(g)', NEW i \in 1..Len(op'[g].ids)
        PROVE  assigned'[op'[g].ids[i]] = g
    BY <2>1, <2>2, <2>6 DEF MediaInv
  <2> QED BY <2>4, <2>5, <2>6
<1>4. CASE UNCHANGED mediaVars
  BY <1>4 DEF MediaInv, mediaVars
<1> QED BY <1>1, <1>2, <1>3, <1>4, MediaEffect

LEMMA ReceiptsFollowKept ==
  ASSUME MediaGiven, MediaInv, [MediaNext]_mediaVars
  PROVE  ReceiptsFollow'
<1> USE DEF ReceiptsFollow, Current
<1>1. ASSUME NEW j \in MediaJob, Enqueue(j) PROVE ReceiptsFollow'
  BY <1>1 DEF MediaInv, Enqueue
<1>2. ASSUME NEW w \in Host, NEW ids \in Batches, StartsFresh(w, ids) PROVE ReceiptsFollow'
  <2> DEFINE h == ids[1]
  <2>1. /\ op'[h].ids = ids /\ op'[h].at = 1 /\ op'[h].phase \notin Terminal
        /\ op'[h].pc \in {"none", "checking"} /\ \A i \in 1..Len(ids) : op'[h].rows[ids[i]] = "queued"
    BY <1>2 DEF StartsFresh
  <2>2. \A g \in MediaJob \ {h} : op'[g] = op[g]
    BY <1>2 DEF StartsFresh
  <2> HIDE DEF h
  <2>3. ASSUME NEW g \in MediaJob \ {h}
        PROVE  /\ op'[g].pc \in {"checking", "taken", "ready"} =>
                    \A i \in op'[g].at..Len(op'[g].ids) : op'[g].rows[op'[g].ids[i]] = "queued"
               /\ op'[g].pc \in {"sending", "observing"} =>
                    /\ op'[g].rows[Current(g)'] # "queued"
                    /\ \A i \in (op'[g].at + 1)..Len(op'[g].ids) : op'[g].rows[op'[g].ids[i]] = "queued"
               /\ (\/ op'[g].pc \in {"sending", "observing", "unchanged", "returning", "failing"}
                   \/ op'[g].at > 1 \/ op'[g].phase \in Terminal) => op'[g].rows[g] # "queued"
               /\ op'[g].phase \in Terminal => op'[g].pc = "ended"
    BY <2>2, <2>3 DEF MediaInv
  <2> QED BY <2>1, <2>3
<1>3. ASSUME NEW h \in MediaJob, OwnReceipts(h), Moves(h) PROVE ReceiptsFollow'
  <2> DEFINE o == op[h]
             n == op'[h]
  <2>1. /\ o.log /\ o.at \in 1..Len(o.ids) /\ o.at \in {1, 2} /\ Len(o.ids) \in {1, 2} /\ Current(h) \in MediaJob
        /\ o.ids[1] = h /\ (Len(o.ids) = 2 => o.ids[2] # h /\ o.ids[2] \in MediaJob)
        /\ n.ids = o.ids /\ \A j \in MediaJob \ {Current(h)} : n.rows[j] = o.rows[j]
        /\ o.phase \in Terminal => o.pc = "ended"
        /\ o.pc # "ended"
    <3>1. o.pc \notin {"none", "ended"} /\ n.ids = o.ids /\ \A j \in MediaJob \ {Current(h)} : n.rows[j] = o.rows[j]
      BY <1>3 DEF OwnReceipts, Running
    <3>2. o.log /\ o.at \in 1..Len(o.ids) /\ Current(h) \in MediaJob
      BY <3>1, CurrentJob
    <3>3. /\ Len(o.ids) \in {1, 2} /\ o.at \in {1, 2} /\ o.ids[1] = h /\ (Len(o.ids) = 2 => o.ids[2] # h)
      BY <3>2 DEF MediaInv, BatchKept
    <3>4. o.ids \in Seq(MediaJob)
      BY DEF MediaInv, MediaTyped, Operation
    <3>5. o.phase \in Terminal => o.pc = "ended"
      BY DEF MediaInv
    <3>6. Len(o.ids) = 2 => o.ids[2] \in MediaJob
      BY <3>4
    <3> QED BY <3>1, <3>2, <3>3, <3>5, <3>6
  <2>2. n.pc \in {"checking", "taken", "ready"} => \A i \in n.at..Len(n.ids) : n.rows[n.ids[i]] = "queued"
    <3>1. CASE Onwards(h)
      BY <2>1, <3>1 DEF MediaInv, Onwards
    <3>2. CASE NextOne(h)
      <4>1. o.at = 1 /\ Len(o.ids) = 2 /\ n.at = 2 /\ o.pc = "observing"
        BY <2>1, <3>2, NextPlace DEF NextOne
      <4>2. o.rows[o.ids[2]] = "queued" /\ n.rows[o.ids[2]] = o.rows[o.ids[2]]
        BY <2>1, <4>1 DEF MediaInv
      <4> QED BY <2>1, <4>1, <4>2
    <3> QED BY <1>3, <3>1, <3>2 DEF Moves, Passed, Decides, Ends
  <2>3. n.pc \in {"sending", "observing"} =>
           /\ n.rows[n.ids[n.at]] # "queued"
           /\ \A i \in (n.at + 1)..Len(n.ids) : n.rows[n.ids[i]] = "queued"
    <3>1. CASE Decides(h) /\ n.pc \in {"sending", "observing"}
      <4>1. n.at = o.at /\ n.rows[o.ids[o.at]] # "queued" /\ o.pc \in {"ready", "sending", "observing"}
        BY <3>1 DEF Decides
      <4>2. ASSUME NEW i \in (o.at + 1)..Len(o.ids) PROVE n.rows[o.ids[i]] = "queued"
        <5>1. o.at = 1 /\ Len(o.ids) = 2 /\ i = 2
          BY <2>1, <4>2, NextPlace
        <5>2. o.rows[o.ids[2]] = "queued"
          BY <4>1, <5>1 DEF MediaInv
        <5> QED BY <2>1, <5>1, <5>2
      <4> QED BY <2>1, <4>1, <4>2
    <3> QED BY <1>3, <3>1 DEF Moves, Onwards, Passed, NextOne, Ends
  <2>4. n.phase \in Terminal => n.pc = "ended" /\ o.pc \in {"unchanged", "returning", "failing"}
    BY <1>3, <2>1 DEF Moves, Ends
  <2>5. \/ n.pc \in {"sending", "observing", "unchanged", "returning", "failing"}
        \/ n.at > 1 \/ n.phase \in Terminal
        => n.rows[h] # "queued"
    <3> SUFFICES ASSUME \/ n.pc \in {"sending", "observing", "unchanged", "returning", "failing"}
                        \/ n.at > 1 \/ n.phase \in Terminal
                 PROVE  n.rows[h] # "queued"
      OBVIOUS
    <3>1. o.at > 1 => o.rows[h] # "queued" /\ n.rows[h] = o.rows[h]
      BY <2>1 DEF MediaInv
    <3>2. CASE o.at = 1 /\ (Decides(h) \/ NextOne(h))
      BY <2>1, <3>2 DEF Decides, NextOne
    <3>3. CASE o.at = 1 /\ Ends(h)
      BY <2>4, <3>3 DEF MediaInv, Ends
    <3>4. CASE o.at = 1 /\ (Onwards(h) \/ Passed(h)) /\ n.phase \notin Terminal
      BY <3>4 DEF Onwards, Passed
    <3> QED BY <1>3, <2>1, <3>1, <3>2, <3>3, <3>4 DEF Moves
  <2>6. \A g \in MediaJob \ {h} : op'[g] = op[g]
    BY <1>3 DEF OwnReceipts
  <2> QED BY <2>2, <2>3, <2>4, <2>5, <2>6 DEF MediaInv
<1>4. CASE UNCHANGED mediaVars
  BY <1>4 DEF MediaInv, mediaVars
<1> QED BY <1>1, <1>2, <1>3, <1>4, MediaEffect

LEMMA SentRecordedKept ==
  ASSUME MediaGiven, MediaInv, [MediaNext]_mediaVars
  PROVE  SentRecorded'
<1> USE DEF SentRecorded, GeneratedOnce, Current
<1>1. ASSUME NEW j \in MediaJob, Enqueue(j) PROVE SentRecorded'
  BY <1>1 DEF MediaInv, Enqueue
<1>2. ASSUME NEW w \in Host, NEW ids \in Batches, StartsFresh(w, ids) PROVE SentRecorded'
  <2> DEFINE Own(j) == \E i \in 1..Len(ids) : ids[i] = j
  <2>1. \A j \in MediaJob : Own(j) => sent[j] = 0
    BY <1>2, WaitingFree DEF StartsFresh
  <2>2. ASSUME NEW j \in MediaJob, sent'[j] > 0
        PROVE  assigned'[j] # "none" /\ op'[assigned'[j]].rows[j] # "queued"
    <3>1. ~Own(j) /\ assigned'[j] = assigned[j] /\ sent[j] > 0
      BY <1>2, <2>1, <2>2 DEF MediaInv, MediaTyped, StartsFresh
    <3>2. assigned[j] # ids[1]
      BY <1>2, <3>1 DEF MediaInv, JobsOwned, StartsFresh
    <3> QED BY <1>2, <3>1, <3>2 DEF MediaInv, MediaTyped, StartsFresh
  <2>3. \A g \in MediaJob : op'[g].pc = "sending" => op'[g] = op[g]
    BY <1>2 DEF StartsFresh
  <2>4. UNCHANGED sent
    BY <1>2 DEF StartsFresh
  <2> QED BY <2>2, <2>3, <2>4 DEF MediaInv
<1>3. ASSUME NEW h \in MediaJob, OwnReceipts(h), Moves(h), SentBy(h) PROVE SentRecorded'
  <2> DEFINE c == Current(h)
  <2>1. /\ op[h].log /\ c \in MediaJob /\ assigned[c] = h /\ op[h].at \in 1..Len(op[h].ids)
    <3>1. Running(h) /\ op[h].log /\ Current(h) \in MediaJob /\ op[h].at \in 1..Len(op[h].ids)
      BY <1>3, CurrentJob DEF OwnReceipts, Running
    <3>2. assigned[op[h].ids[op[h].at]] = h
      BY <3>1 DEF MediaInv, JobsOwned
    <3> QED BY <3>1, <3>2
  <2>2. /\ op'[h].ids = op[h].ids
        /\ op'[h].pc = "sending" => op[h].pc = "ready" /\ op'[h].at = op[h].at /\ UNCHANGED sent
    BY <1>3 DEF OwnReceipts, Moves, Onwards, Passed, Decides, NextOne, Ends, SentBy
  <2>3. op[h].pc = "ready" => sent[c] = 0
    <3> SUFFICES ASSUME op[h].pc = "ready" PROVE sent[c] = 0
      OBVIOUS
    <3>1. op[h].rows[c] = "queued"
      BY <2>1 DEF MediaInv, ReceiptsFollow
    <3>2. ~(sent[c] > 0) /\ sent[c] \in Nat
      BY <2>1, <3>1 DEF MediaInv, MediaTyped
    <3> QED BY <3>2
  <2>4. ASSUME NEW g \in MediaJob, op'[g].pc = "sending" PROVE sent'[Current(g)'] = 0
    <3>1. CASE g = h
      BY <2>1, <2>2, <2>3, <2>4, <3>1
    <3>2. CASE g # h
      <4>1. op'[g] = op[g] /\ sent[Current(g)] = 0 /\ op[g].pc = "sending"
        BY <1>3, <2>4, <3>2 DEF MediaInv, OwnReceipts
      <4>2. Current(g) \in MediaJob /\ assigned[Current(g)] = g
        BY <4>1, CurrentJob DEF MediaInv, JobsOwned, Running
      <4> QED BY <1>3, <2>1, <3>2, <4>1, <4>2 DEF MediaInv, MediaTyped, SentBy
    <3> QED BY <3>1, <3>2
  <2>5. CASE UNCHANGED sent
    <3>1. \A j \in MediaJob : sent[j] > 0 => assigned[j] \in MediaJob /\ op[assigned[j]].rows[j] # "queued"
      BY DEF MediaInv, MediaTyped
    <3>2. \A g, j \in MediaJob : op[g].rows[j] # "queued" => op'[g].rows[j] # "queued"
      BY <1>3 DEF OwnReceipts
    <3>3. \A j \in MediaJob : sent'[j] > 0 => assigned'[j] # "none" /\ op'[assigned'[j]].rows[j] # "queued"
      BY <1>3, <2>5, <3>1, <3>2 DEF OwnReceipts, MediaGiven
    <3> QED BY <2>4, <2>5, <3>3 DEF MediaInv
  <2>6. CASE /\ op[h].pc = "sending" /\ op'[h].pc \in {"observing", "ended"}
             /\ sent' = [sent EXCEPT ![c] = @ + 1]
    <3>1. sent[c] = 0 /\ op[h].rows[c] # "queued"
      BY <2>6 DEF MediaInv, ReceiptsFollow
    <3>2. op'[h].rows[c] # "queued"
      BY <1>3, <3>1 DEF OwnReceipts
    <3>3. /\ c \in MediaJob /\ sent \in [MediaJob -> Nat] /\ sent'[c] = 1
          /\ \A j \in MediaJob \ {c} : sent'[j] = sent[j]
      BY <2>1, <2>6, <3>1 DEF MediaInv, MediaTyped
    <3>4. ASSUME NEW j \in MediaJob, sent'[j] > 0
          PROVE  assigned'[j] # "none" /\ op'[assigned'[j]].rows[j] # "queued"
      <4>1. UNCHANGED assigned /\ \A g \in MediaJob \ {h} : op'[g] = op[g]
        BY <1>3 DEF OwnReceipts
      <4>2. CASE j = c
        BY <2>1, <3>2, <4>1, <4>2 DEF MediaGiven
      <4>3. CASE j # c
        <5>1. assigned[j] \in MediaJob /\ op[assigned[j]].rows[j] # "queued"
          BY <3>3, <3>4, <4>3 DEF MediaInv, MediaTyped
        <5>2. assigned[j] = h => op'[h].rows[j] = op[h].rows[j]
          BY <1>3, <4>3 DEF OwnReceipts
        <5> QED BY <4>1, <5>1, <5>2 DEF MediaGiven
      <4> QED BY <4>2, <4>3
    <3>5. \A j \in MediaJob : sent'[j] <= 1
      BY <3>3 DEF MediaInv
    <3> QED BY <2>4, <3>4, <3>5
  <2> QED BY <1>3, <2>5, <2>6 DEF SentBy
<1>4. CASE UNCHANGED mediaVars
  BY <1>4 DEF MediaInv, mediaVars
<1> QED BY <1>1, <1>2, <1>3, <1>4, MediaEffect

LEMMA OneMediaOperationKept ==
  ASSUME MediaGiven, MediaInv, [MediaNext]_mediaVars
  PROVE  OneMediaOperation'
<1> USE DEF OneMediaOperation
<1>1. ASSUME NEW j \in MediaJob, Enqueue(j) PROVE OneMediaOperation'
  BY <1>1 DEF MediaInv, Enqueue
<1>2. ASSUME NEW w \in Host, NEW ids \in Batches, StartsFresh(w, ids) PROVE OneMediaOperation'
  BY <1>2, BatchesEffect DEF MediaInv, StartsFresh, Running
<1>3. ASSUME NEW h \in MediaJob, OwnReceipts(h) PROVE OneMediaOperation'
  BY <1>3 DEF MediaInv, OwnReceipts, Running
<1>4. CASE UNCHANGED mediaVars
  BY <1>4 DEF MediaInv, mediaVars
<1> QED BY <1>1, <1>2, <1>3, <1>4, MediaEffect

LEMMA MediaInitial == ASSUME MediaGiven PROVE MediaInit => MediaInv
  BY DEF MediaGiven, MediaInit, MediaInv, MediaTyped, BatchKept, JobsOwned, ReceiptsFollow, SentRecorded, GeneratedOnce,
      OneMediaOperation, NoOperation, Operation, Running, Terminal

LEMMA MediaStep == ASSUME MediaGiven PROVE MediaInv /\ [MediaNext]_mediaVars => MediaInv'
  BY MediaTypedKept, BatchKeptKept, JobsOwnedKept, ReceiptsFollowKept, SentRecordedKept, OneMediaOperationKept
  DEF MediaInv

\* The inductive invariant of the media queue holds in every reachable state.
THEOREM MediaInvariant == ASSUME MediaGiven PROVE MediaSpec => []MediaInv
  BY MediaInitial, MediaStep, PTL DEF MediaSpec

\* A job is generated at most once, over every batch it is assigned to, no two runners
\* take one worker, and a job that waits can be started (media-jobs.mjs,
\* media-execution.mjs, media-runner.mjs), for any jobs, workers and deaths.
THEOREM GenerationCorrect == ASSUME MediaGiven PROVE MediaSpec => []MediaOnce
<1>1. MediaInv => MediaOnce
  BY WaitingFree DEF MediaInv, MediaOnce, SentRecorded, FolderFresh, Waiting, MediaTyped
<1> QED BY <1>1, MediaInvariant, PTL

=============================================================================
