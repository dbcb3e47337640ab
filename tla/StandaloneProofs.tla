--------------------------- MODULE StandaloneProofs --------------------------
(***************************************************************************)
(* Proofs about six components that share no state: the affinity store's   *)
(* lock and file, the operator's service commands, the plan of Genie's     *)
(* studies, the power switches, a setting changed from the dashboard, and  *)
(* the evidence of requests.  Each has its own specification here.         *)
(***************************************************************************)
EXTENDS Store, Supervisor, Study, Power, Desk, Evidence, FiniteSetTheorems, SequenceTheorems, TLAPS

-----------------------------------------------------------------------------
(* The affinity store, for any number of processes, saves and crashes.     *)

StoreSpec == StoreInit /\ [][StoreNext]_storeVars

Process == [kind : {"none", "gateway", "other"}, started : Nat,
            pc : {"none", "starting", "reclaiming", "writing", "owner", "renamed"}]

StoreTyped ==
  /\ proc \in [Pid -> Process]
  /\ lock \in [pid : Pid \cup {"none", "unwritten"}, started : Nat]
  /\ disk \in Nat /\ durable \in Nat /\ acked \in Nat /\ clock \in Nat
  /\ memory \in [Pid -> Nat]

\* Start times are given out once, and a lock file names one of them.
StartsGivenOut ==
  /\ lock.started <= clock
  /\ \A p \in Pid : proc[p].started <= clock

\* What a gateway's place in the code says of the lock file: one that owns the state
\* has its name in it, one that writes it finds it empty, and one that removes a stale
\* lock, alone, removes a lock whose process is still gone.
LockTrue ==
  /\ \A p \in Pid : Owns(p) =>
       proc[p].kind # "none" /\ lock.pid = p /\ lock.started = proc[p].started
  /\ \A p \in Pid : At(p, "writing") => lock = EmptyLock
  /\ \A p \in Pid : At(p, "writing") \/ At(p, "reclaiming") => proc[p].kind # "none"
  /\ \A p, q \in Pid : At(p, "writing") /\ At(q, "writing") => p = q
  /\ \A p \in Pid : At(p, "reclaiming") => lock.pid \in Pid /\ Stale(p)
  /\ \A p, q \in Pid : At(p, "reclaiming") /\ At(q, "reclaiming") => p = q

\* Between the rename and the answer the file is one version ahead.
RenamedAhead == \A p \in Pid : At(p, "renamed") => disk = memory[p] + 1

StoreInv == StoreTyped /\ StartsGivenOut /\ LockTrue /\ RenamedAhead /\ SavedSurvives

\* Two owners would both have their name in the lock file.
LEMMA OwnerSole == StoreInv => SoleOwner
  BY DEF StoreInv, LockTrue, SoleOwner

\* Nothing runs, no lock, nothing saved.
LEMMA StoreInitial == ASSUME StoreGiven PROVE StoreInit => StoreInv
  BY DEF StoreGiven, StoreInit, StoreInv, StoreTyped, StartsGivenOut, LockTrue, RenamedAhead,
     SavedSurvives, Process, NoProcess, NoLock, EmptyLock, Owns, At, Stale

\* Every step of a process, a crash and a power loss keep the invariant.
LEMMA StoreStep ==
  ASSUME StoreGiven, ~OverlappingStarts, StoreInv, StoreNext
  PROVE  StoreInv'
<1> USE DEF StoreGiven, StoreInv, StoreTyped
<1>1. CASE PowerLoss
  <2> USE <1>1 DEF PowerLoss
  <2>1. StoreTyped'
    BY DEF Process, NoProcess
  <2>2. StartsGivenOut'
    BY DEF StartsGivenOut, NoProcess
  <2>3. LockTrue' /\ RenamedAhead'
    BY DEF LockTrue, RenamedAhead, NoProcess, Owns, At
  <2>4. SavedSurvives'
    BY DEF SavedSurvives, NoProcess, Owns
  <2> QED BY <2>1, <2>2, <2>3, <2>4
<1>2. ASSUME NEW p \in Pid, ProcessStarts(p) PROVE StoreInv'
  <2>1. PICK who \in {"gateway", "other"} :
          proc' = [proc EXCEPT ![p] = [kind |-> who, started |-> clock + 1, pc |-> "starting"]]
    BY <1>2 DEF ProcessStarts
  <2>2. /\ proc[p].kind = "none" /\ clock' = clock + 1
        /\ UNCHANGED <<lock, disk, durable, memory, acked>>
    BY <1>2 DEF ProcessStarts
  <2>3. StoreTyped'
    BY <2>1, <2>2 DEF Process
  <2>5. /\ proc'[p] = [kind |-> who, started |-> clock + 1, pc |-> "starting"]
        /\ \A q \in Pid : q # p => proc'[q] = proc[q]
    BY <2>1
  <2>4. StartsGivenOut'
    <3>1. \A q \in Pid : proc[q].started \in Nat /\ lock.started \in Nat
      BY DEF Process
    <3> QED BY <2>5, <2>2, <3>1 DEF StartsGivenOut
  <2>6. LockTrue'
    BY <2>5, <2>2 DEF LockTrue, StartsGivenOut, Owns, At, Stale
  <2>7. RenamedAhead' /\ SavedSurvives'
    BY <2>5, <2>2 DEF RenamedAhead, SavedSurvives, Owns, At
  <2> QED BY <2>3, <2>4, <2>6, <2>7
<1>3. ASSUME NEW p \in Pid, ProcessDies(p) PROVE StoreInv'
  <2>2. /\ proc' = [proc EXCEPT ![p] = NoProcess]
        /\ UNCHANGED <<lock, disk, durable, memory, acked, clock>>
    BY <1>3 DEF ProcessDies
  <2>3. StoreTyped'
    BY <2>2 DEF Process, NoProcess
  <2>5. proc'[p] = NoProcess /\ \A q \in Pid : q # p => proc'[q] = proc[q]
    BY <2>2
  <2>4. StartsGivenOut'
    BY <2>2, <2>5 DEF StartsGivenOut, NoProcess
  <2>6. LockTrue'
    BY <2>5, <2>2 DEF LockTrue, NoProcess, Owns, At, Stale
  <2>7. RenamedAhead' /\ SavedSurvives'
    BY <2>5, <2>2 DEF RenamedAhead, SavedSurvives, NoProcess, Owns, At
  <2> QED BY <2>3, <2>4, <2>6, <2>7
<1>4. ASSUME NEW p \in Pid, Acquire(p) PROVE StoreInv'
  <2>1. /\ proc[p].kind = "gateway" /\ proc[p].pc = "starting"
        /\ \A q \in Pid : ~At(q, "reclaiming")
        /\ UNCHANGED <<disk, durable, memory, acked, clock>>
    BY <1>4 DEF Acquire, At
  <2>2. CASE lock = NoLock /\ lock' = EmptyLock /\ Goto(p, "writing")
    <3>1. /\ proc'[p] = [proc[p] EXCEPT !.pc = "writing"]
          /\ \A q \in Pid : q # p => proc'[q] = proc[q]
          /\ proc' \in [Pid -> Process]
      BY <2>2 DEF Goto, Process
    <3>2. StoreTyped' /\ StartsGivenOut'
      BY <2>1, <2>2, <3>1 DEF StartsGivenOut, EmptyLock, Process
    <3>3. LockTrue'
      <4>1. \A q \in Pid : ~Owns(q) /\ ~At(q, "writing")
        BY <2>2 DEF LockTrue, NoLock, EmptyLock
      <4>2. \A q \in Pid : ~Owns(q)' /\ ~At(q, "reclaiming")' /\ (At(q, "writing")' => q = p)
        BY <2>1, <3>1, <4>1 DEF Owns, At, Process
      <4>3. proc'[p].kind # "none"
        BY <2>1, <3>1 DEF Process
      <4> QED BY <2>2, <4>2, <4>3 DEF LockTrue, At
    <3>4. RenamedAhead' /\ SavedSurvives'
      BY <2>1, <2>2, <3>1 DEF RenamedAhead, SavedSurvives, Owns, At, Process
    <3> QED BY <3>1, <3>2, <3>3, <3>4
  <2>3. CASE lock.pid \in Pid /\ Stale(p) /\ Goto(p, "reclaiming") /\ UNCHANGED lock
    <3>1. /\ proc'[p] = [proc[p] EXCEPT !.pc = "reclaiming"]
          /\ \A q \in Pid : q # p => proc'[q] = proc[q]
          /\ proc' \in [Pid -> Process]
      BY <2>3 DEF Goto, Process
    <3>2. StoreTyped' /\ StartsGivenOut'
      BY <2>1, <2>3, <3>1 DEF StartsGivenOut, Process
    <3>5. /\ proc'[p].pc = "reclaiming" /\ lock' = lock
          /\ \A q \in Pid : proc'[q].kind = proc[q].kind /\ proc'[q].started = proc[q].started
      BY <2>3, <3>1 DEF Process
    <3>6. lock.pid \in Pid /\ \A q \in Pid : Stale(q) /\ Stale(q)'
      BY <2>3, <3>5 DEF Stale
    <3>7. \A q \in Pid : ~At(q, "writing") /\ ~Owns(q)
      BY <3>6 DEF LockTrue, EmptyLock, Stale
    <3>8. \A q \in Pid : ~Owns(q)' /\ ~At(q, "writing")' /\ (At(q, "reclaiming")' => q = p)
      BY <2>1, <3>1, <3>5, <3>7 DEF Owns, At
    <3>3. LockTrue'
      BY <2>1, <3>5, <3>6, <3>8 DEF LockTrue, At
    <3>4. RenamedAhead' /\ SavedSurvives'
      BY <2>1, <2>3, <3>1 DEF RenamedAhead, SavedSurvives, Owns, At, Process
    <3> QED BY <3>1, <3>2, <3>3, <3>4
  <2>4. CASE proc' = [proc EXCEPT ![p] = NoProcess] /\ UNCHANGED lock
    <3>1. proc'[p] = NoProcess /\ \A q \in Pid : q # p => proc'[q] = proc[q]
      BY <2>4
    <3>2. StoreTyped' /\ StartsGivenOut'
      BY <2>1, <2>4, <3>1 DEF StartsGivenOut, Process, NoProcess
    <3>3. LockTrue'
      BY <2>1, <2>4, <3>1 DEF LockTrue, NoProcess, Owns, At, Stale
    <3>4. RenamedAhead' /\ SavedSurvives'
      BY <2>1, <2>4, <3>1 DEF RenamedAhead, SavedSurvives, NoProcess, Owns, At
    <3> QED BY <3>1, <3>2, <3>3, <3>4
  <2> QED BY <1>4, <2>2, <2>3, <2>4 DEF Acquire
<1>5. ASSUME NEW p \in Pid, Reclaim(p) PROVE StoreInv'
  <2>1. /\ proc[p].pc = "reclaiming" /\ lock.pid \in Pid /\ lock # NoLock
        /\ lock' = EmptyLock /\ Goto(p, "writing")
        /\ UNCHANGED <<disk, durable, memory, acked, clock>>
    BY <1>5 DEF Reclaim, At, LockTrue, NoLock
  <2>2. /\ proc'[p] = [proc[p] EXCEPT !.pc = "writing"]
        /\ \A q \in Pid : q # p => proc'[q] = proc[q]
        /\ proc' \in [Pid -> Process]
    BY <2>1 DEF Goto, Process
  <2>3. StoreTyped' /\ StartsGivenOut'
    BY <2>1, <2>2 DEF StartsGivenOut, EmptyLock, Process
  <2>4. \A q \in Pid : ~Owns(q)
    BY <2>1 DEF LockTrue, At, Owns, Stale, Process
  <2>5. LockTrue'
    <3>1. /\ proc'[p].pc = "writing" /\ proc'[p].kind = proc[p].kind /\ proc[p].kind # "none"
          /\ \A q \in Pid : q # p => proc'[q] = proc[q]
      BY <2>1, <2>2 DEF LockTrue, At, Process
    <3>2. \A q \in Pid : ~At(q, "writing") /\ (At(q, "reclaiming") => q = p)
      BY <2>1 DEF LockTrue, At, EmptyLock
    <3>3. \A q \in Pid : ~Owns(q)' /\ ~At(q, "reclaiming")' /\ (At(q, "writing")' => q = p)
      BY <2>4, <3>1, <3>2 DEF Owns, At
    <3> QED BY <2>1, <3>1, <3>3 DEF LockTrue, At
  <2>6. RenamedAhead' /\ SavedSurvives'
    BY <2>1, <2>2, <2>4 DEF RenamedAhead, SavedSurvives, Owns, At, Process
  <2> QED BY <2>2, <2>3, <2>5, <2>6
<1>6. ASSUME NEW p \in Pid, Load(p) PROVE StoreInv'
  <2>1. /\ proc[p].pc = "writing" /\ lock' = [pid |-> p, started |-> proc[p].started]
        /\ memory' = [memory EXCEPT ![p] = disk] /\ Goto(p, "owner")
        /\ UNCHANGED <<disk, durable, acked, clock>>
    BY <1>6 DEF Load, At
  <2>2. /\ proc'[p] = [proc[p] EXCEPT !.pc = "owner"]
        /\ \A q \in Pid : q # p => proc'[q] = proc[q]
        /\ proc' \in [Pid -> Process]
    BY <2>1 DEF Goto, Process
  <2>3. StoreTyped' /\ StartsGivenOut'
    <3>1. proc[p].started \in Nat /\ proc'[p].started = proc[p].started
      BY <2>2 DEF Process
    <3>2. StoreTyped'
      BY <2>1, <2>2, <3>1
    <3> QED BY <2>1, <2>2, <3>1, <3>2 DEF StartsGivenOut
  <2>4. \A q \in Pid : ~Owns(q) /\ ~At(q, "reclaiming")
    BY <2>1 DEF LockTrue, EmptyLock, At, Owns
  <2>5. LockTrue'
    <3>1. /\ proc'[p].pc = "owner" /\ proc'[p].kind # "none"
          /\ lock'.pid = p /\ lock'.started = proc'[p].started
      BY <2>1, <2>2 DEF LockTrue, At, Process
    <3>2. \A q \in Pid : q # p => ~At(q, "writing")
      BY <2>1 DEF LockTrue, At
    <3> QED BY <2>2, <2>4, <3>1, <3>2 DEF LockTrue, Owns, At
  <2>6. RenamedAhead' /\ SavedSurvives'
    BY <2>1, <2>2, <2>4 DEF RenamedAhead, SavedSurvives, Owns, At, Process
  <2> QED BY <2>2, <2>3, <2>5, <2>6
<1>7. ASSUME NEW p \in Pid, SaveRenames(p) \/ SaveReturns(p) \/ SaveFails(p) PROVE StoreInv'
  <2>1. PICK to \in {"owner", "renamed"} : Goto(p, to) /\ (SaveRenames(p) <=> to = "renamed")
    BY <1>7 DEF SaveRenames, SaveReturns, SaveFails, At
  <2>2. /\ proc'[p] = [proc[p] EXCEPT !.pc = to]
        /\ \A q \in Pid : q # p => proc'[q] = proc[q]
        /\ proc' \in [Pid -> Process]
    BY <2>1 DEF Goto, Process
  <2>3. Owns(p) /\ Owns(p)' /\ UNCHANGED <<lock, clock>> /\ proc'[p].started = proc[p].started
        /\ proc'[p].kind = proc[p].kind
    BY <1>7, <2>2 DEF SaveRenames, SaveReturns, SaveFails, At, Owns, Process
  <2>4. \A q \in Pid : q # p => ~Owns(q)
    BY <2>3 DEF LockTrue
  <2>5. \A q \in Pid : ~At(q, "reclaiming") /\ ~At(q, "writing")
    BY <2>3 DEF LockTrue, EmptyLock, Stale
  <2>6. LockTrue'
    BY <2>2, <2>3, <2>4, <2>5 DEF LockTrue, Owns, At, Stale
  <2>7. StoreTyped' /\ StartsGivenOut'
    <3>1. /\ disk' \in Nat /\ durable' \in Nat /\ acked' \in Nat
          /\ memory' \in [Pid -> Nat]
      BY <1>7 DEF SaveRenames, SaveReturns, SaveFails
    <3>2. StoreTyped'
      BY <2>2, <2>3, <3>1
    <3> QED BY <2>2, <2>3, <3>2 DEF StartsGivenOut
  <2>8. CASE SaveRenames(p)
    <3>1. /\ disk' = memory[p] + 1 /\ UNCHANGED <<durable, memory, acked>>
          /\ proc'[p].pc = "renamed"
      BY <2>8, <2>1, <2>2 DEF SaveRenames, Process
    <3> QED BY <2>2, <2>3, <2>4, <2>6, <2>7, <3>1 DEF RenamedAhead, SavedSurvives, Owns, At
  <2>9. CASE SaveReturns(p)
    <3>1. /\ durable' = disk /\ disk' = disk /\ memory' = [memory EXCEPT ![p] = @ + 1]
          /\ acked' = memory[p] + 1 /\ disk = memory[p] + 1
      BY <2>9 DEF SaveReturns, At, RenamedAhead
    <3>2. proc'[p].pc # "renamed"
      <4>1. proc' = [proc EXCEPT ![p].pc = "owner"]
        BY <2>9 DEF SaveReturns, Goto
      <4> QED BY <4>1 DEF Process
    <3>3. memory'[p] = memory[p] + 1
      BY <3>1
    <3>4. RenamedAhead'
      BY <2>2, <2>4, <3>2 DEF RenamedAhead, Owns, At
    <3>5. SavedSurvives'
      BY <2>2, <2>4, <3>1, <3>3 DEF SavedSurvives, Owns
    <3> QED BY <2>6, <2>7, <3>4, <3>5
  <2>10. CASE SaveFails(p)
    <3>1. UNCHANGED <<disk, durable, memory, acked>> /\ proc'[p].pc = "owner"
      BY <2>10, <2>1, <2>2 DEF SaveFails, Process, Goto
    <3> QED BY <2>2, <2>3, <2>4, <2>6, <2>7, <3>1 DEF RenamedAhead, SavedSurvives, Owns, At
  <2> QED BY <1>7, <2>8, <2>9, <2>10
<1>8. ASSUME NEW p \in Pid, Close(p) PROVE StoreInv'
  <2>1. /\ proc' = [proc EXCEPT ![p] = NoProcess] /\ lock' = NoLock /\ Owns(p)
        /\ UNCHANGED <<disk, durable, memory, acked, clock>>
    BY <1>8 DEF Close, At, Owns
  <2>2. proc'[p] = NoProcess /\ \A q \in Pid : q # p => proc'[q] = proc[q]
    BY <2>1
  <2>3. StoreTyped' /\ StartsGivenOut'
    BY <2>1, <2>2 DEF StartsGivenOut, Process, NoProcess, NoLock
  <2>4. \A q \in Pid : (q # p => ~Owns(q)) /\ ~At(q, "reclaiming") /\ ~At(q, "writing")
    BY <2>1 DEF LockTrue, EmptyLock, Stale
  <2>5. LockTrue' /\ RenamedAhead' /\ SavedSurvives'
    BY <2>1, <2>2, <2>4 DEF LockTrue, RenamedAhead, SavedSurvives, NoProcess, Owns, At
  <2> QED BY <2>3, <2>5
<1> QED BY <1>1, <1>2, <1>3, <1>4, <1>5, <1>6, <1>7, <1>8 DEF StoreNext

\* One gateway owns the state and nothing it has saved is lost (AffinityStore's
\* constructor, save and close), if no two gateways start in the same instant.
THEOREM StoreCorrect == ASSUME StoreGiven, ~OverlappingStarts PROVE StoreSpec => []StoreSafe
<1>1. StoreInv /\ UNCHANGED storeVars => StoreInv'
  BY DEF StoreInv, StoreTyped, StartsGivenOut, LockTrue, RenamedAhead, SavedSurvives, storeVars,
         Owns, At, Stale
<1>2. StoreInv => StoreSafe
  BY OwnerSole DEF StoreSafe, StoreInv
<1> QED BY <1>1, <1>2, StoreInitial, StoreStep, PTL DEF StoreSpec

-----------------------------------------------------------------------------
(* The plan of studies, for any number of changes and mishaps.             *)

StudySpec == StudyInit /\ [][StudyNext]_studyVars

StudyPlan == [revision : 0..MaxRevision, mode : {"reminder", "automatic"},
              scheduled : BOOLEAN, due : BOOLEAN, last : 0..MaxRevision]

StudyTyped ==
  /\ plan \in StudyPlan
  /\ study \in [StudyId -> {"none", "queued", "working", "ended"}]
  /\ starting \in [id : 0..MaxRevision, by : {"none", "owner", "timer"}]
  /\ periods \in Nat /\ automatic \in Nat

\* Every due date that has come has one use: it is still due, a start of the timer has
\* taken it, or its study was submitted.
DueSpent ==
  automatic + (IF plan.due THEN 1 ELSE 0) + (IF starting.by = "timer" THEN 1 ELSE 0) <= periods

\* A study that waits or runs is the last one of the plan, and while a start is under way
\* there is none.
LastLive ==
  /\ \A i \in StudyId : study[i] \in StudyLive => i = plan.last
  /\ starting # NotStarting =>
       starting.id = plan.last /\ starting.id # 0 /\ \A i \in StudyId : study[i] \notin StudyLive

StudyInv == StudyTyped /\ DueSpent /\ LastLive

\* No study, no due date.
LEMMA StudyInitial == ASSUME StudyGiven PROVE StudyInit => StudyInv
  BY DEF StudyGiven, StudyInit, StudyInv, StudyTyped, StudyPlan, DueSpent, LastLive, NotStarting, StudyId,
     StudyLive

\* At most one study is the last one.
LEMMA StudyImplied == StudyInv => StudyOnce
<1> SUFFICES ASSUME StudyInv PROVE StudyOnce
  OBVIOUS
<1>1. StudiedOncePerDue
  BY DEF StudyInv, StudyTyped, StudyPlan, DueSpent, StudiedOncePerDue
<1>2. OneStudy
  <2> DEFINE live == {i \in StudyId : study[i] \in StudyLive}
  <2>1. live \subseteq {plan.last}
    BY DEF StudyInv, LastLive
  <2>2. IsFiniteSet({plan.last}) /\ Cardinality({plan.last}) = 1
    BY FS_Singleton
  <2>3. Cardinality(live) <= 1
    BY <2>1, <2>2, FS_Subset
  <2> QED BY <2>3 DEF OneStudy
<1> QED BY <1>1, <1>2 DEF StudyOnce

\* A change of the plan that leaves the last study alone and brings no due date.
LEMMA PlanChanges ==
  ASSUME StudyGiven, StudyInv, NEW m \in {"reminder", "automatic"}, NEW on \in BOOLEAN,
         StudySaves([plan EXCEPT !.mode = m, !.scheduled = on, !.due = FALSE]),
         UNCHANGED <<study, starting, periods, automatic>>
  PROVE  StudyInv'
<1>1. plan' = [plan EXCEPT !.mode = m, !.scheduled = on, !.due = FALSE, !.revision = plan.revision + 1]
      /\ plan.revision < MaxRevision
  BY DEF StudySaves, StudyInv, StudyTyped, StudyPlan
<1>2. plan' \in StudyPlan
  <2>1. plan.revision + 1 \in 0..MaxRevision
    BY <1>1 DEF StudyGiven, StudyInv, StudyTyped, StudyPlan
  <2> QED BY <1>1, <2>1, Zenon DEF StudyInv, StudyTyped, StudyPlan
<1>3. plan'.due = FALSE /\ plan'.last = plan.last
  BY <1>1 DEF StudyInv, StudyTyped, StudyPlan
<1> QED BY <1>2, <1>3 DEF StudyInv, StudyTyped, StudyPlan, DueSpent, LastLive

\* The first half of a start spends the due date.
LEMMA StartKeeps ==
  ASSUME StudyGiven, StudyInv, NEW by \in {"owner", "timer"}, by = "timer" => plan.due, StudyStarts(by)
  PROVE  StudyInv'
<1>1. starting = NotStarting /\ UNCHANGED <<study, periods, automatic>>
  BY DEF StudyStarts, Undisturbed
<1>2. CASE UNCHANGED <<plan, starting>>
  BY <1>1, <1>2 DEF StudyInv, StudyTyped, StudyPlan, DueSpent, LastLive
<1>3. CASE /\ StudySaves([plan EXCEPT !.due = FALSE, !.last = plan.revision + 1])
           /\ starting' = [id |-> plan.revision + 1, by |-> by]
  <2>1. /\ plan' = [plan EXCEPT !.due = FALSE, !.last = plan.revision + 1,
                                !.revision = plan.revision + 1]
        /\ plan.revision < MaxRevision
    BY <1>3 DEF StudySaves, StudyInv, StudyTyped, StudyPlan
  <2>2. /\ plan' \in StudyPlan
        /\ starting' \in [id : 0..MaxRevision, by : {"none", "owner", "timer"}]
        /\ plan.revision + 1 # 0
    <3>1. plan.revision + 1 \in 0..MaxRevision /\ plan.revision + 1 # 0
      BY <2>1 DEF StudyGiven, StudyInv, StudyTyped, StudyPlan
    <3>2. plan' \in StudyPlan
      BY <2>1, <3>1, Zenon DEF StudyInv, StudyTyped, StudyPlan
    <3> QED BY <1>3, <3>1, <3>2
  <2>3. /\ plan'.due = FALSE /\ plan'.last = plan.revision + 1
        /\ starting'.id = plan.revision + 1 /\ starting'.by = by
        /\ starting.by = "none"
    BY <1>1, <1>3, <2>1 DEF StudyInv, StudyTyped, StudyPlan, NotStarting
  <2>4. \A i \in StudyId : study[i] \notin StudyLive
    BY DEF StudyStarts, StartAllowed, LastState, StudyInv, StudyTyped, StudyPlan, LastLive, StudyId
  <2>5. DueSpent'
    BY <1>1, <2>3 DEF StudyInv, StudyTyped, StudyPlan, DueSpent
  <2> QED BY <1>1, <2>2, <2>3, <2>4, <2>5 DEF StudyInv, StudyTyped, StudyPlan, LastLive
<1> QED BY <1>2, <1>3 DEF StudyStarts

\* Every step of the plan and of the chat keeps the invariant.
LEMMA StudyStep ==
  ASSUME StudyGiven, StudyInv, StudyNext
  PROVE  StudyInv'
<1>1. CASE PageRefreshes
  BY <1>1 DEF PageRefreshes, StudyInv, StudyTyped, StudyPlan, DueSpent, LastLive
<1>2. CASE DueComes
  <2>1. plan' = [plan EXCEPT !.due = TRUE] /\ periods' = periods + 1 /\ plan.due = FALSE
        /\ UNCHANGED <<study, starting, automatic>>
    BY <1>2 DEF DueComes, StudyInv, StudyTyped, StudyPlan
  <2>2. plan'.due = TRUE /\ plan'.last = plan.last
        /\ plan' \in StudyPlan
    BY <2>1 DEF StudyInv, StudyTyped, StudyPlan
  <2>3. DueSpent'
    BY <2>1, <2>2 DEF StudyInv, StudyTyped, StudyPlan, DueSpent
  <2> QED BY <2>1, <2>2, <2>3 DEF StudyInv, StudyTyped, StudyPlan, LastLive
<1>3. CASE Postpone
  <2>1. [plan EXCEPT !.due = FALSE]
          = [plan EXCEPT !.mode = plan.mode, !.scheduled = plan.scheduled, !.due = FALSE]
    BY DEF StudyInv, StudyTyped, StudyPlan
  <2>2. plan.mode \in {"reminder", "automatic"} /\ plan.scheduled \in BOOLEAN
    BY DEF StudyInv, StudyTyped, StudyPlan
  <2>3. /\ StudySaves([plan EXCEPT !.mode = plan.mode, !.scheduled = plan.scheduled, !.due = FALSE])
        /\ UNCHANGED <<study, starting, periods, automatic>>
    BY <1>3, <2>1 DEF Postpone
  <2> QED BY <2>2, <2>3, PlanChanges
<1>4. ASSUME NEW m \in {"reminder", "automatic"}, NEW on \in BOOLEAN, SetSchedule(m, on)
      PROVE  StudyInv'
  BY <1>4, PlanChanges DEF SetSchedule
<1>5. CASE OwnerStarts
  BY <1>5, StartKeeps DEF OwnerStarts
<1>6. CASE StudyTick
  BY <1>6, StartKeeps DEF StudyTick
<1>7. CASE StudySubmitted
  <2>1. /\ starting # NotStarting /\ starting' = NotStarting /\ UNCHANGED <<plan, periods>>
        /\ starting'.by = "none"
    BY <1>7 DEF StudySubmitted, Undisturbed, NotStarting
  <2>2. starting.id \in StudyId /\ starting.id = plan.last
    BY <2>1 DEF StudyGiven, StudyInv, StudyTyped, StudyPlan, LastLive, StudyId
  <2>3. NotStarting \in [id : 0..MaxRevision, by : {"none", "owner", "timer"}]
    BY DEF StudyGiven, NotStarting
  <2>4. CASE /\ study' = [study EXCEPT ![starting.id] = "queued"]
             /\ automatic' = IF starting.by = "timer" THEN automatic + 1 ELSE automatic
    <3>1. DueSpent' /\ automatic' \in Nat
      BY <2>1, <2>4 DEF StudyInv, StudyTyped, StudyPlan, DueSpent
    <3> QED BY <2>1, <2>2, <2>3, <2>4, <3>1 DEF StudyInv, StudyTyped, StudyPlan, LastLive, StudyLive
  <2>5. CASE UNCHANGED <<study, automatic>>
    <3>1. DueSpent'
      BY <2>1, <2>5 DEF StudyInv, StudyTyped, StudyPlan, DueSpent
    <3> QED BY <2>1, <2>3, <2>5, <3>1 DEF StudyInv, StudyTyped, StudyPlan, LastLive
  <2> QED BY <1>7, <2>4, <2>5 DEF StudySubmitted
<1>8. ASSUME NEW i \in StudyId, ChatWorks(i) PROVE StudyInv'
  <2>1. /\ starting = NotStarting /\ study[i] \in StudyLive
        /\ UNCHANGED <<plan, starting, periods, automatic>>
    BY <1>8 DEF ChatWorks, Undisturbed
  <2>2. /\ study' \in [StudyId -> {"none", "queued", "working", "ended"}]
        /\ \A k \in StudyId : k # i => study'[k] = study[k]
    BY <1>8 DEF ChatWorks, StudyInv, StudyTyped, StudyPlan
  <2> QED BY <2>1, <2>2 DEF StudyInv, StudyTyped, StudyPlan, DueSpent, LastLive
<1>9. CASE StudyRestarts
  <2>1. /\ starting' = NotStarting /\ starting'.by = "none"
        /\ study' = [i \in StudyId |-> IF study[i] = "working" THEN "ended" ELSE study[i]]
        /\ UNCHANGED <<plan, periods, automatic>>
    BY <1>9 DEF StudyRestarts, NotStarting
  <2>2. NotStarting \in [id : 0..MaxRevision, by : {"none", "owner", "timer"}]
    BY DEF StudyGiven, NotStarting
  <2>3. DueSpent'
    BY <2>1 DEF StudyInv, StudyTyped, StudyPlan, DueSpent
  <2> QED BY <2>1, <2>2, <2>3 DEF StudyInv, StudyTyped, StudyPlan, LastLive, StudyLive
<1> QED BY <1>1, <1>2, <1>3, <1>4, <1>5, <1>6, <1>7, <1>8, <1>9 DEF StudyNext

\* The timer starts at most one study for a due date, and studies come one at a time
\* (GenieStudy.start and tick), whatever save fails and wherever the dashboard dies.
THEOREM StudyCorrect == ASSUME StudyGiven PROVE StudySpec => []StudyOnce
<1>1. StudyInv /\ UNCHANGED studyVars => StudyInv'
  BY DEF StudyInv, StudyTyped, StudyPlan, DueSpent, LastLive, studyVars
<1> QED BY <1>1, StudyInitial, StudyStep, StudyImplied, PTL DEF StudySpec

-----------------------------------------------------------------------------
(* The power switches, for any fleet, any sharing of machines and any      *)
(* number of calls.  Every worker has a machine, and no call is "none".    *)

PowerSpec == PowerInit /\ [][PowerNext]_powerVars

FleetGiven ==
  /\ machineGroup \in [PowerWorker -> SUBSET Machine]
  /\ \A w \in PowerWorker : machineGroup[w] # {}
  /\ "none" \notin PowerCall

PowerTyped ==
  /\ models \in [PowerWorker -> {"down", "loading", "up"}]
  /\ power \in [PowerCall -> [step : {"idle", "checked", "script", "occupied", "verify"},
                              worker : PowerWorker \cup {"none"}, action : {"none", "start", "stop"}]]
  /\ \A c \in PowerCall : power[c].step # "idle" => power[c].worker \in PowerWorker
  /\ running \in [Machine -> PowerCall \cup {"none"}]

\* A call that changes the power of its worker holds every machine of it.
MachinesHeld ==
  \A c \in PowerCall : Mutating(c) => \A m \in machineGroup[power[c].worker] : running[m] = c

\* While a start script runs nothing is loaded on its machines, and while a stop is
\* verified its worker stays down.
HardwareReserved ==
  \A c \in PowerCall :
    /\ power[c].step = "script" /\ power[c].action = "start" =>
         \A v \in PowerWorker : Shares(v, power[c].worker) => models[v] = "down"
    /\ power[c].step = "verify" /\ power[c].action = "stop" => models[power[c].worker] = "down"

PowerInv == PowerTyped /\ MachinesHeld /\ HardwareReserved /\ PowerSound

\* Calls that hold their machines share none.
LEMMA HeldApart ==
  ASSUME FleetGiven, PowerTyped, MachinesHeld, NEW c \in PowerCall, NEW d \in PowerCall, c # d,
         Mutating(c), Mutating(d)
  PROVE  ~Shares(power[c].worker, power[d].worker)
  BY DEF MachinesHeld, Shares

\* Nothing is up and no call runs.
LEMMA PowerInitial == ASSUME FleetGiven PROVE PowerInit => PowerInv
  BY DEF FleetGiven, PowerInit, PowerInv, PowerTyped, MachinesHeld, HardwareReserved, PowerSound,
         NoPower, Mutating

\* Models that only go down, or from loading to up, keep what is reserved.
LEMMA ModelsSettle ==
  ASSUME PowerInv, models' \in [PowerWorker -> {"down", "loading", "up"}],
         \A v \in PowerWorker : models[v] = "down" => models'[v] = "down",
         UNCHANGED <<power, running, told>>
  PROVE  PowerInv'
  BY DEF PowerInv, PowerTyped, MachinesHeld, HardwareReserved, PowerSound, Mutating

\* A call that ends with a receipt, or is refused, frees its machines only.
LEMMA CallEnds ==
  ASSUME FleetGiven, PowerInv, NEW c \in PowerCall,
         power' = [power EXCEPT ![c] = NoPower],
         models' \in [PowerWorker -> {"down", "loading", "up"}],
         running' \in [Machine -> PowerCall \cup {"none"}],
         \A m \in Machine : running[m] # c => running'[m] = running[m],
         \A d \in PowerCall : d # c =>
           /\ power[d].step = "script" /\ power[d].action = "start" =>
                \A v \in PowerWorker : Shares(v, power[d].worker) => models'[v] = "down"
           /\ power[d].step = "verify" /\ power[d].action = "stop" =>
                models'[power[d].worker] = "down",
         \A v, w \in PowerWorker : v # w /\ Shares(v, w) => models'[v] = "down" \/ models'[w] = "down",
         told'.state = "stopped" => told'.models = "down"
  PROVE  PowerInv'
<1>1. power'[c] = NoPower /\ \A d \in PowerCall : d # c => power'[d] = power[d]
  BY DEF PowerInv, PowerTyped
<1>2. PowerTyped'
  BY <1>1 DEF PowerInv, PowerTyped, NoPower
<1>3. MachinesHeld'
  <2> SUFFICES ASSUME NEW d \in PowerCall, Mutating(d)',
                      NEW m \in machineGroup[power'[d].worker]
               PROVE  running'[m] = d
    BY DEF MachinesHeld
  <2>1. d # c /\ power'[d] = power[d]
    BY <1>1 DEF Mutating, NoPower
  <2>2. Mutating(d) /\ running[m] = d /\ power[d].worker \in PowerWorker
    BY <2>1 DEF Mutating, PowerInv, PowerTyped, MachinesHeld
  <2>3. m \in Machine
    BY <2>1, <2>2 DEF FleetGiven
  <2> QED BY <2>1, <2>2, <2>3
<1>4. HardwareReserved'
  BY <1>1 DEF HardwareReserved, NoPower
<1>5. PowerSound'
  BY <1>1, <1>2, <1>3, HeldApart DEF PowerSound, PowerInv, NoPower, Mutating, MachinesHeld, PowerTyped
<1> QED BY <1>2, <1>3, <1>4, <1>5 DEF PowerInv

\* A call that goes on to a step of its own, under the worker and action given.
LEMMA CallMoves ==
  ASSUME FleetGiven, PowerInv, NEW c \in PowerCall, NEW x,
         x \in [step : {"idle", "checked", "script", "occupied", "verify"},
                worker : PowerWorker \cup {"none"}, action : {"none", "start", "stop"}],
         x.worker \in PowerWorker, power' = [power EXCEPT ![c] = x],
         models' \in [PowerWorker -> {"down", "loading", "up"}],
         running' \in [Machine -> PowerCall \cup {"none"}],
         x.step \in {"script", "occupied", "verify"} =>
           \A m \in machineGroup[x.worker] : running'[m] = c,
         \A d \in PowerCall : d # c /\ Mutating(d) =>
           \A m \in machineGroup[power[d].worker] : running'[m] = d,
         x.step = "script" /\ x.action = "start" =>
           \A v \in PowerWorker : Shares(v, x.worker) => models'[v] = "down",
         x.step = "verify" /\ x.action = "stop" => models'[x.worker] = "down",
         \A d \in PowerCall : d # c =>
           /\ power[d].step = "script" /\ power[d].action = "start" =>
                \A v \in PowerWorker : Shares(v, power[d].worker) => models'[v] = "down"
           /\ power[d].step = "verify" /\ power[d].action = "stop" =>
                models'[power[d].worker] = "down",
         \A v, w \in PowerWorker : v # w /\ Shares(v, w) => models'[v] = "down" \/ models'[w] = "down",
         told' = told
  PROVE  PowerInv'
<1>1. power'[c] = x /\ \A d \in PowerCall : d # c => power'[d] = power[d]
  BY DEF PowerInv, PowerTyped
<1>2. PowerTyped'
  BY <1>1 DEF PowerInv, PowerTyped
<1>3. MachinesHeld'
  BY <1>1 DEF MachinesHeld, Mutating
<1>4. HardwareReserved'
  BY <1>1 DEF HardwareReserved
<1>5. \A d, e \in PowerCall : d # e /\ Mutating(d)' /\ Mutating(e)' =>
        ~Shares(power'[d].worker, power'[e].worker)
  <2> TAKE d, e \in PowerCall
  <2> HAVE d # e /\ Mutating(d)' /\ Mutating(e)'
  <2>1. /\ \A m \in machineGroup[power'[d].worker] : running'[m] = d
        /\ \A m \in machineGroup[power'[e].worker] : running'[m] = e
    BY <1>3 DEF MachinesHeld
  <2> QED BY <2>1 DEF Shares
<1>6. PowerSound'
  BY <1>5 DEF PowerSound, PowerInv
<1> QED BY <1>2, <1>3, <1>4, <1>6 DEF PowerInv

\* What a script that ends has done to the models.
LEMMA EffectSound ==
  ASSUME FleetGiven, PowerInv, NEW c \in PowerCall, power[c].step = "script", models' = Effect(c)
  PROVE  /\ models' \in [PowerWorker -> {"down", "loading", "up"}]
         /\ \A d \in PowerCall : d # c =>
              /\ power[d].step = "script" /\ power[d].action = "start" =>
                   \A v \in PowerWorker : Shares(v, power[d].worker) => models'[v] = "down"
              /\ power[d].step = "verify" /\ power[d].action = "stop" =>
                   models'[power[d].worker] = "down"
         /\ \A v, w \in PowerWorker : v # w /\ Shares(v, w) => models'[v] = "down" \/ models'[w] = "down"
         /\ power[c].action = "stop" => models'[power[c].worker] = "down"
<1> DEFINE w0 == power[c].worker
           a0 == power[c].action
<1>1. w0 \in PowerWorker /\ Mutating(c) /\ Shares(w0, w0)
  BY DEF PowerInv, PowerTyped, Mutating, Shares, FleetGiven
<1>2. \A v \in PowerWorker :
        models'[v] = IF a0 = "stop" /\ Shares(v, w0) THEN "down"
                     ELSE IF a0 = "start" /\ v = w0 THEN "loading" ELSE models[v]
  BY DEF Effect
<1>3. models' \in [PowerWorker -> {"down", "loading", "up"}]
  BY DEF Effect, PowerInv, PowerTyped
<1>4. \A d \in PowerCall : d # c /\ Mutating(d) =>
        ~Shares(w0, power[d].worker) /\ power[d].worker \in PowerWorker
  BY <1>1, HeldApart DEF PowerInv, PowerTyped, Mutating
<1>5. ASSUME NEW d \in PowerCall, d # c, power[d].step = "script", power[d].action = "start",
             NEW v \in PowerWorker, Shares(v, power[d].worker)
      PROVE  models'[v] = "down"
  <2>1. models[v] = "down" /\ Mutating(d)
    BY <1>5 DEF PowerInv, HardwareReserved, Mutating
  <2>2. v # w0
    BY <1>4, <1>5, <2>1
  <2> QED BY <1>2, <2>1, <2>2
<1>6. ASSUME NEW d \in PowerCall, d # c, power[d].step = "verify", power[d].action = "stop"
      PROVE  models'[power[d].worker] = "down"
  <2>1. models[power[d].worker] = "down" /\ Mutating(d)
    BY <1>6 DEF PowerInv, HardwareReserved, Mutating
  <2>2. power[d].worker # w0 /\ power[d].worker \in PowerWorker
    BY <1>1, <1>4, <1>6, <2>1
  <2> QED BY <1>2, <2>1, <2>2
<1>7. ASSUME NEW v \in PowerWorker, NEW w \in PowerWorker, v # w, Shares(v, w)
      PROVE  models'[v] = "down" \/ models'[w] = "down"
  <2>1. models[v] = "down" \/ models[w] = "down"
    BY <1>7 DEF PowerInv, PowerSound
  <2>2. Shares(w, v)
    BY <1>7 DEF Shares
  <2>3. a0 = "start" => \A u \in PowerWorker : Shares(u, w0) => models[u] = "down"
    BY DEF PowerInv, HardwareReserved
  <2> QED BY <1>2, <1>7, <2>1, <2>2, <2>3
<1>8. a0 = "stop" => models'[w0] = "down"
  BY <1>1, <1>2
<1> QED BY <1>3, <1>5, <1>6, <1>7, <1>8

\* Every step of a call, an engine and the load keeps the invariant.
LEMMA PowerStep ==
  ASSUME FleetGiven, PowerInv, PowerNext
  PROVE  PowerInv'
<1>1. ASSUME NEW w \in PowerWorker, EngineLoads(w) \/ EngineDies(w) \/ LoadChanges(w)
      PROVE  PowerInv'
  <2>1. /\ models' \in [PowerWorker -> {"down", "loading", "up"}]
        /\ \A v \in PowerWorker : models[v] = "down" => models'[v] = "down"
        /\ UNCHANGED <<power, running, told>>
    BY <1>1 DEF EngineLoads, EngineDies, LoadChanges, PowerInv, PowerTyped
  <2> QED BY <2>1, ModelsSettle
<1> DEFINE Kept(c) ==
      /\ models \in [PowerWorker -> {"down", "loading", "up"}]
      /\ \A d \in PowerCall : d # c =>
           /\ power[d].step = "script" /\ power[d].action = "start" =>
                \A v \in PowerWorker : Shares(v, power[d].worker) => models[v] = "down"
           /\ power[d].step = "verify" /\ power[d].action = "stop" => models[power[d].worker] = "down"
      /\ \A v, w \in PowerWorker : v # w /\ Shares(v, w) => models[v] = "down" \/ models[w] = "down"
<1>2. \A c \in PowerCall : Kept(c)
  BY DEF PowerInv, PowerTyped, HardwareReserved, PowerSound
<1>3. ASSUME NEW c \in PowerCall, NEW w \in PowerWorker, NEW a \in {"start", "stop"}, Prechecks(c, w, a)
      PROVE  PowerInv'
  <2> DEFINE x == [step |-> "checked", worker |-> w, action |-> a]
  <2>1. /\ power' = [power EXCEPT ![c] = x] /\ models' = models /\ running' = running /\ told' = told
        /\ x.step = "checked" /\ x.worker = w
        /\ x \in [step : {"idle", "checked", "script", "occupied", "verify"},
                  worker : PowerWorker \cup {"none"}, action : {"none", "start", "stop"}]
    BY <1>3 DEF Prechecks
  <2> HIDE DEF x
  <2>2. \A d \in PowerCall : d # c /\ Mutating(d) =>
          \A m \in machineGroup[power[d].worker] : running'[m] = d
    BY <2>1 DEF PowerInv, MachinesHeld
  <2>3. running' \in [Machine -> PowerCall \cup {"none"}]
    BY <2>1 DEF PowerInv, PowerTyped
  <2> QED BY <1>2, <2>1, <2>2, <2>3, CallMoves
<1>4. ASSUME NEW c \in PowerCall, RunRefused(c) PROVE PowerInv'
  <2>1. power' = [power EXCEPT ![c] = NoPower] /\ models' = models /\ running' = running /\ told' = told
    BY <1>4 DEF RunRefused
  <2>2. running' \in [Machine -> PowerCall \cup {"none"}]
        /\ (told'.state = "stopped" => told'.models = "down")
    BY <2>1 DEF PowerInv, PowerTyped, PowerSound
  <2> QED BY <1>2, <2>1, <2>2, CallEnds
<1>5. ASSUME NEW c \in PowerCall, RunBegins(c) PROVE PowerInv'
  <2> DEFINE w0 == power[c].worker
             s0 == IF power[c].action = "start" /\ \E v \in PowerWorker : Shares(v, w0) /\ models[v] # "down"
                   THEN "occupied" ELSE "script"
             x == [power[c] EXCEPT !.step = s0]
  <2>1. /\ power[c].step = "checked" /\ ~HardwareBusy(w0) /\ w0 \in PowerWorker
        /\ running' = [m \in Machine |-> IF m \in machineGroup[w0] THEN c ELSE running[m]]
        /\ power' = [power EXCEPT ![c].step = s0] /\ models' = models /\ told' = told
    BY <1>5 DEF RunBegins, PowerInv, PowerTyped
  <2>2. /\ power' = [power EXCEPT ![c] = x] /\ s0 \in {"occupied", "script"}
        /\ x.step = s0 /\ x.worker = w0 /\ x.action = power[c].action
        /\ x \in [step : {"idle", "checked", "script", "occupied", "verify"},
                  worker : PowerWorker \cup {"none"}, action : {"none", "start", "stop"}]
    BY <2>1 DEF PowerInv, PowerTyped
  <2>3. s0 = "script" /\ power[c].action = "start" =>
          \A v \in PowerWorker : Shares(v, w0) => models'[v] = "down"
    BY <2>1
  <2> HIDE DEF x, s0
  <2>4. running' \in [Machine -> PowerCall \cup {"none"}]
    BY <2>1 DEF PowerInv, PowerTyped
  <2>5. \A m \in machineGroup[w0] : running'[m] = c
    BY <2>1 DEF FleetGiven
  <2>6. ASSUME NEW d \in PowerCall, d # c, Mutating(d), NEW m \in machineGroup[power[d].worker]
        PROVE  running'[m] = d
    <3>1. running[m] = d /\ m \in Machine
      BY <2>6 DEF PowerInv, MachinesHeld, FleetGiven, PowerTyped, Mutating
    <3>2. m \notin machineGroup[w0]
      BY <2>1, <2>6, <3>1 DEF HardwareBusy, FleetGiven
    <3> QED BY <2>1, <3>1, <3>2
  <2>7. x.worker \in PowerWorker /\ x.step # "verify" /\ x.step \in {"script", "occupied", "verify"}
    BY <2>1, <2>2
  <2>8. /\ x.step = "script" /\ x.action = "start" =>
             \A v \in PowerWorker : Shares(v, x.worker) => models'[v] = "down"
        /\ \A m \in machineGroup[x.worker] : running'[m] = c
    BY <2>2, <2>3, <2>5
  <2>9. \A d \in PowerCall : d # c /\ Mutating(d) =>
          \A m \in machineGroup[power[d].worker] : running'[m] = d
    BY <2>6
  <2>10. /\ models' \in [PowerWorker -> {"down", "loading", "up"}] /\ told' = told
         /\ power' = [power EXCEPT ![c] = x]
         /\ \A d \in PowerCall : d # c =>
              /\ power[d].step = "script" /\ power[d].action = "start" =>
                   \A v \in PowerWorker : Shares(v, power[d].worker) => models'[v] = "down"
              /\ power[d].step = "verify" /\ power[d].action = "stop" =>
                   models'[power[d].worker] = "down"
         /\ \A v, w \in PowerWorker : v # w /\ Shares(v, w) => models'[v] = "down" \/ models'[w] = "down"
    BY <1>2, <2>1, <2>2
  <2>11. x \in [step : {"idle", "checked", "script", "occupied", "verify"},
                worker : PowerWorker \cup {"none"}, action : {"none", "start", "stop"}]
    BY <2>2
  <2> QED BY <2>4, <2>7, <2>8, <2>9, <2>10, <2>11, CallMoves
<1>6. ASSUME NEW c \in PowerCall, NEW s, Receipt(c, s)
      PROVE  /\ power' = [power EXCEPT ![c] = NoPower]
             /\ running' \in [Machine -> PowerCall \cup {"none"}]
             /\ \A m \in Machine : running[m] # c => running'[m] = running[m]
             /\ told'.state = s /\ told'.models = models[power[c].worker]
  BY <1>6 DEF Receipt, PowerInv, PowerTyped
<1>7. ASSUME NEW c \in PowerCall, ScriptEnds(c) PROVE PowerInv'
  <2>1. power[c].step = "script" /\ models' = Effect(c)
    BY <1>7 DEF ScriptEnds
  <2>2. CASE power' = [power EXCEPT ![c].step = "verify"] /\ UNCHANGED <<running, told>>
    <3> DEFINE x == [power[c] EXCEPT !.step = "verify"]
    <3>1. /\ power' = [power EXCEPT ![c] = x] /\ running' = running /\ told' = told
          /\ x.step = "verify" /\ x.worker = power[c].worker /\ x.action = power[c].action
          /\ x.worker \in PowerWorker
          /\ x \in [step : {"idle", "checked", "script", "occupied", "verify"},
                    worker : PowerWorker \cup {"none"}, action : {"none", "start", "stop"}]
      BY <2>1, <2>2 DEF PowerInv, PowerTyped
    <3> HIDE DEF x
    <3>2. /\ running' \in [Machine -> PowerCall \cup {"none"}]
          /\ \A m \in machineGroup[x.worker] : running'[m] = c
          /\ \A d \in PowerCall : d # c /\ Mutating(d) =>
               \A m \in machineGroup[power[d].worker] : running'[m] = d
      BY <2>1, <3>1 DEF PowerInv, PowerTyped, MachinesHeld, Mutating
    <3>3. x.action = "stop" => models'[x.worker] = "down"
      BY <2>1, <3>1, EffectSound
    <3> QED BY <2>1, <3>1, <3>2, <3>3, EffectSound, CallMoves
  <2>3. ASSUME NEW s \in {"unverified", "failed"}, Receipt(c, s) PROVE PowerInv'
    <3>1. told'.state # "stopped"
      BY <2>3, <1>6
    <3> QED BY <2>1, <2>3, <1>6, <3>1, EffectSound, CallEnds
  <2> QED BY <1>7, <2>2, <2>3 DEF ScriptEnds
<1>8. ASSUME NEW c \in PowerCall, ScriptFails(c) PROVE PowerInv'
  <2>1. Receipt(c, "failed") /\ models' = models
    BY <1>8 DEF ScriptFails
  <2>2. told'.state # "stopped"
    BY <2>1, <1>6
  <2> QED BY <1>2, <1>6, <2>1, <2>2, CallEnds
<1>9. ASSUME NEW c \in PowerCall, VerifyEnds(c) PROVE PowerInv'
  <2>1. Receipt(c, EndpointSeen(c)) /\ models' = models /\ power[c].step = "verify"
    BY <1>9 DEF VerifyEnds
  <2>2. EndpointSeen(c) = "stopped" => models[power[c].worker] = "down"
    <3>1. EndpointSeen(c) = "stopped" => power[c].action = "stop"
      BY DEF EndpointSeen
    <3> QED BY <2>1, <3>1 DEF PowerInv, HardwareReserved
  <2>3. PICK s : s = EndpointSeen(c)
    OBVIOUS
  <2>4. Receipt(c, s)
    BY <2>1, <2>3
  <2>5. told'.state = "stopped" => told'.models = "down"
    BY <2>2, <2>3, <2>4, <1>6
  <2> QED BY <1>2, <1>6, <2>1, <2>4, <2>5, CallEnds
<1> QED BY <1>1, <1>3, <1>4, <1>5, <1>7, <1>8, <1>9 DEF PowerNext

\* Two changes of power never run on the same hardware, two models never occupy a
\* machine, and a stop that was verified was not undone by another call
\* (power-scripts.mjs: run takes every machine of the worker before it awaits).
THEOREM PowerCorrect == ASSUME FleetGiven PROVE PowerSpec => []PowerSound
<1>1. PowerInv /\ UNCHANGED powerVars => PowerInv'
  BY DEF PowerInv, PowerTyped, MachinesHeld, HardwareReserved, PowerSound, powerVars, Mutating
<1>2. PowerInv => PowerSound
  BY DEF PowerInv
<1> QED BY <1>1, <1>2, PowerInitial, PowerStep, PTL DEF PowerSpec

-----------------------------------------------------------------------------
(* The operator's commands, for any number of commands and holds.          *)

SupervisorSpec == SupervisorInit /\ [][SupervisorNext]_supervisorVars

Core == [life : {"ready", "starting", "stopping", "off"}, draining : BOOLEAN, active : SUBSET Source]
DoorHold == [kind : {"none", "manual", "automatic"},
             reason : {"none", "core", "operator", "restart", "park"}, id : Nat]
ServiceCommand == [name : {"none", "start", "stop", "restart", "park"}, all : BOOLEAN, interrupt : BOOLEAN,
            pc : Over \cup {"hold", "park", "parkhold", "wait", "fence", "check", "stopfence", "ack",
                            "dashboard", "unload", "unloading", "boot", "ready", "receipt", "clean", "release"},
            receipt : Nat, fenced : BOOLEAN, before : BOOLEAN]

SupervisorTyped ==
  /\ core \in Core
  /\ signals \in {<<>>, <<"USR1">>, <<"USR2">>, <<"USR1", "USR2">>}
  /\ door \in [up : BOOLEAN, hold : DoorHold]
  /\ cmd \in ServiceCommand
  /\ holds \in Nat

\* Receipts were given out, and no command has the receipt of an operator's hold.
ReceiptsOwn ==
  /\ cmd.receipt <= holds /\ door.hold.id <= holds
  /\ door.hold.reason = "operator" =>
       door.hold.kind = "manual" /\ door.hold.id # 0 /\ door.hold.id # cmd.receipt

\* Where a command may have a signal on its way, and which.
SignalsSent ==
  /\ cmd.pc \notin Over \cup {"ack", "dashboard", "unload"} => signals = <<>>
  /\ cmd.pc \in {"ack", "dashboard", "unload"} => signals \in {<<>>, <<"USR1">>}

\* The coordinated path keeps a receipt of its own hold.
CoordinatedHolds ==
  /\ cmd.pc = "hold" => cmd.name = "restart"
  /\ cmd.pc \in {"park", "parkhold"} => cmd.name = "park"
  /\ cmd.pc \in {"wait", "fence"} => cmd.name = "park" \/ cmd.receipt # 0

\* A plain stop waits for the fence it has set, or for one that it found.
FenceAwaited ==
  cmd.pc = "ack" /\ cmd.name # "park" /\ cmd.receipt = 0 =>
    /\ core.life \in {"ready", "starting"} /\ cmd.fenced # cmd.before
    /\ cmd.fenced => signals = <<"USR1">> \/ (signals = <<>> /\ core.draining)
    /\ ~cmd.fenced => signals = <<>> /\ core.draining

\* A refused stop has taken its fence away, or the signal for it is on its way.
FenceTaken ==
  cmd.pc = "refused" =>
    /\ core.life \in {"ready", "starting"} /\ cmd.fenced # cmd.before
    /\ cmd.fenced => \/ signals \in {<<"USR1", "USR2">>, <<"USR2">>}
                     \/ signals = <<>> /\ ~core.draining
    /\ ~cmd.fenced => signals = <<>> /\ core.draining

\* Before the core is unloaded it is gone, or closed to requests and idle.
UnloadIdle ==
  cmd.pc \in {"dashboard", "unload"} /\ ~cmd.interrupt =>
    core.life = "off" \/ (core.draining /\ core.active = {})

SupervisorInv ==
  /\ SupervisorTyped /\ ReceiptsOwn /\ SignalsSent /\ CoordinatedHolds
  /\ FenceAwaited /\ FenceTaken /\ UnloadIdle /\ StopsIdle

\* The queue of signals is short enough to be listed.
LEMMA SignalQueues ==
  /\ Append(<<>>, "USR1") = <<"USR1">> /\ Append(<<>>, "USR2") = <<"USR2">>
  /\ Append(<<"USR1">>, "USR2") = <<"USR1", "USR2">>
  /\ Head(<<"USR1">>) = "USR1" /\ Head(<<"USR2">>) = "USR2" /\ Head(<<"USR1", "USR2">>) = "USR1"
  /\ Tail(<<"USR1">>) = <<>> /\ Tail(<<"USR2">>) = <<>> /\ Tail(<<"USR1", "USR2">>) = <<"USR2">>
  /\ <<"USR1">> # <<>> /\ <<"USR2">> # <<>> /\ <<"USR1", "USR2">> # <<>>
  /\ <<"USR1">> # <<"USR2">> /\ <<"USR1">> # <<"USR1", "USR2">> /\ <<"USR2">> # <<"USR1", "USR2">>
<1>1. Append(<<>>, "USR1") = <<"USR1">> /\ Append(<<>>, "USR2") = <<"USR2">>
  OBVIOUS
<1>2. Append(<<"USR1">>, "USR2") = <<"USR1", "USR2">>
  <2> DEFINE a == Append(<<"USR1">>, "USR2")
             b == <<"USR1", "USR2">>
  <2>1. /\ a \in Seq({"USR1", "USR2"}) /\ Len(a) = 2 /\ a[1] = "USR1" /\ a[2] = "USR2"
    OBVIOUS
  <2>2. /\ b \in Seq({"USR1", "USR2"}) /\ Len(b) = 2 /\ b[1] = "USR1" /\ b[2] = "USR2"
    OBVIOUS
  <2> HIDE DEF a, b
  <2>3. a = b
    BY <2>1, <2>2, SeqEqual
  <2> QED BY <2>3 DEF a, b
<1>3. Head(<<"USR1">>) = "USR1" /\ Head(<<"USR2">>) = "USR2" /\ Head(<<"USR1", "USR2">>) = "USR1"
  OBVIOUS
<1>4. Tail(<<"USR1">>) = <<>> /\ Tail(<<"USR2">>) = <<>>
  OBVIOUS
<1>5. Tail(<<"USR1", "USR2">>) = <<"USR2">>
  OBVIOUS
<1>6. <<"USR1">> # <<>> /\ <<"USR2">> # <<>> /\ <<"USR1", "USR2">> # <<>>
  OBVIOUS
<1>7. <<"USR1">> # <<"USR2">> /\ <<"USR1">> # <<"USR1", "USR2">> /\ <<"USR2">> # <<"USR1", "USR2">>
  OBVIOUS
<1> QED BY <1>1, <1>2, <1>3, <1>4, <1>5, <1>6, <1>7

\* The core is ready, the door open and no command runs.
LEMMA SupervisorInitial == SupervisorInit => SupervisorInv
  BY DEF SupervisorInit, SupervisorInv, SupervisorTyped, ReceiptsOwn, SignalsSent, CoordinatedHolds,
         FenceAwaited, FenceTaken, UnloadIdle, StopsIdle, Core, DoorHold, ServiceCommand, NoHold, Over, Source

\* The invariant gives the two parts of StopsFenced.
LEMMA SupervisorImplied == SupervisorInv => StopsFenced
<1> SUFFICES ASSUME SupervisorInv, cmd.pc = "refused", signals = <<>>, Ready
             PROVE  core.draining = cmd.before
  BY DEF SupervisorInv, StopsFenced, FenceRestored
<1>1. core.draining \in BOOLEAN /\ cmd.before \in BOOLEAN /\ cmd.fenced \in BOOLEAN
  BY DEF SupervisorInv, SupervisorTyped, Core, ServiceCommand
<1>2. /\ cmd.fenced # cmd.before
      /\ cmd.fenced => ~core.draining
      /\ ~cmd.fenced => core.draining
  BY SignalQueues DEF SupervisorInv, FenceTaken
<1> QED BY <1>1, <1>2

\* A step of a command that only moves on.
LEMMA MovesTo ==
  ASSUME SupervisorTyped, NEW pc, cmd' = [cmd EXCEPT !.pc = pc],
         pc \in Over \cup {"hold", "park", "parkhold", "wait", "fence", "check", "stopfence", "ack",
                           "dashboard", "unload", "unloading", "boot", "ready", "receipt", "clean", "release"}
  PROVE  /\ cmd' \in ServiceCommand /\ cmd'.pc = pc /\ cmd'.name = cmd.name
         /\ cmd'.all = cmd.all /\ cmd'.interrupt = cmd.interrupt
         /\ cmd'.receipt = cmd.receipt /\ cmd'.fenced = cmd.fenced /\ cmd'.before = cmd.before
  BY DEF SupervisorTyped, ServiceCommand

\* A core that changes keeps the shape of one.
LEMMA CoreBecomes ==
  ASSUME SupervisorTyped, NEW l \in {"ready", "starting", "stopping", "off"}, NEW d \in BOOLEAN,
         NEW a \in SUBSET Source,
         core' = [core EXCEPT !.life = l, !.draining = d, !.active = a]
  PROVE  core' \in Core /\ core'.life = l /\ core'.draining = d /\ core'.active = a
  BY DEF SupervisorTyped, Core

\* Requests, signals and the start-up of the core.
LEMMA CoreKeeps ==
  ASSUME SupervisorInv,
         \/ \E s \in Source : RequestArrives(s) \/ RequestEnds(s)
         \/ SignalHandled \/ StartupCompletes \/ CoreExits
  PROVE  SupervisorInv'
<1> USE DEF SupervisorInv
<1>1. UNCHANGED <<door, cmd, holds>>
  BY DEF RequestArrives, RequestEnds, SignalHandled, StartupCompletes, CoreExits
<1>2. ReceiptsOwn' /\ CoordinatedHolds'
  BY <1>1 DEF ReceiptsOwn, CoordinatedHolds
<1>3. ASSUME NEW s \in Source, RequestArrives(s) \/ RequestEnds(s) PROVE SupervisorInv'
  <2>1. PICK a \in SUBSET Source : core' = [core EXCEPT !.active = a] /\ signals' = signals
    BY <1>3 DEF RequestArrives, RequestEnds, SupervisorTyped, Core
  <2>2. /\ core' \in Core /\ core'.life = core.life /\ core'.draining = core.draining /\ core'.active = a
    BY <2>1 DEF SupervisorTyped, Core
  <2>3. (core.life = "ready" /\ ~core.draining) \/ core'.active \subseteq core.active
    BY <1>3, <2>1, <2>2 DEF RequestArrives, RequestEnds, Healthy, Ready, SupervisorTyped, Core
  <2>4. SupervisorTyped'
    BY <1>1, <2>1, <2>2 DEF SupervisorTyped
  <2>5. SignalsSent' /\ FenceAwaited' /\ FenceTaken'
    BY <1>1, <2>1, <2>2 DEF SignalsSent, FenceAwaited, FenceTaken
  <2>6. UnloadIdle' /\ StopsIdle'
    BY <1>1, <2>2, <2>3 DEF UnloadIdle, StopsIdle
  <2> QED BY <1>2, <2>4, <2>5, <2>6
<1>4. CASE SignalHandled
  <2>1. /\ signals # <<>> /\ signals' = Tail(signals)
        /\ core' = [core EXCEPT !.draining = Head(signals) = "USR1"]
    BY <1>4 DEF SignalHandled
  <2>2. /\ core' \in Core /\ core'.life = core.life /\ core'.active = core.active
        /\ core'.draining = (Head(signals) = "USR1")
    BY <2>1 DEF SupervisorTyped, Core
  <2>3. \/ signals = <<"USR1">> /\ signals' = <<>> /\ core'.draining
        \/ signals = <<"USR2">> /\ signals' = <<>> /\ ~core'.draining
        \/ signals = <<"USR1", "USR2">> /\ signals' = <<"USR2">>
    BY <2>1, <2>2, SignalQueues DEF SupervisorTyped
  <2>4. SupervisorTyped'
    BY <1>1, <2>2, <2>3 DEF SupervisorTyped
  <2>5. SignalsSent' /\ UnloadIdle' /\ StopsIdle'
    BY <1>1, <2>2, <2>3, SignalQueues DEF SignalsSent, UnloadIdle, StopsIdle
  <2>6. FenceAwaited' /\ FenceTaken'
    BY <1>1, <2>2, <2>3, SignalQueues DEF SignalsSent, FenceAwaited, FenceTaken
  <2> QED BY <1>2, <2>4, <2>5, <2>6
<1>5. CASE StartupCompletes
  <2>1. /\ core.life = "starting" /\ signals' = signals /\ core' \in Core /\ core'.life = "ready"
        /\ core'.draining = core.draining /\ core'.active = core.active
    BY <1>5 DEF StartupCompletes, SupervisorTyped, Core
  <2> QED BY <1>1, <1>2, <2>1 DEF SupervisorTyped, SignalsSent, FenceAwaited, FenceTaken, UnloadIdle,
                                  StopsIdle
<1>6. CASE CoreExits
  <2>1. /\ core.life = "stopping" /\ signals' = <<>> /\ core' \in Core /\ core'.life = "off"
    BY <1>6 DEF CoreExits, Core, Source
  <2> QED BY <1>1, <1>2, <2>1 DEF SupervisorTyped, SignalsSent, FenceAwaited, FenceTaken, UnloadIdle,
                                  StopsIdle
<1> QED BY <1>3, <1>4, <1>5, <1>6

\* An operator drains the core between two commands: no outcome is looked at any more.
LEMMA DrainKeeps ==
  ASSUME SupervisorInv, OperatorDrains
  PROVE  SupervisorInv'
<1> USE DEF SupervisorInv
<1>1. /\ cmd.pc \in Over /\ core.life = "ready" /\ UNCHANGED <<signals, door, holds>>
      /\ cmd' = [cmd EXCEPT !.pc = "none"] /\ core' \in Core /\ core'.life = "ready"
  BY DEF OperatorDrains, To, Ready, SupervisorTyped, Core
<1>2. cmd' \in ServiceCommand /\ cmd'.pc = "none" /\ cmd'.receipt = cmd.receipt
  BY <1>1, MovesTo DEF Over
<1>3. SupervisorTyped' /\ ReceiptsOwn' /\ StopsIdle'
  BY <1>1, <1>2 DEF SupervisorTyped, ReceiptsOwn, StopsIdle
<1>4. SignalsSent' /\ CoordinatedHolds' /\ FenceAwaited' /\ FenceTaken' /\ UnloadIdle'
  BY <1>2 DEF SignalsSent, CoordinatedHolds, FenceAwaited, FenceTaken, UnloadIdle, Over
<1> QED BY <1>3, <1>4

\* The door's probe and the operator's holds and releases.
LEMMA DoorKeeps ==
  ASSUME SupervisorInv, DoorProbes \/ OperatorHolds \/ OperatorReleases
  PROVE  SupervisorInv'
<1> USE DEF SupervisorInv
<1>1. UNCHANGED <<core, signals, cmd>>
  BY DEF DoorProbes, OperatorHolds, OperatorReleases
<1>2. SignalsSent' /\ CoordinatedHolds' /\ FenceAwaited' /\ FenceTaken' /\ UnloadIdle' /\ StopsIdle'
  BY <1>1 DEF SignalsSent, CoordinatedHolds, FenceAwaited, FenceTaken, UnloadIdle, StopsIdle
<1>3. PICK h \in DoorHold : /\ door' = [door EXCEPT !.hold = h] /\ holds' \in {holds, holds + 1}
                            /\ \/ h = door.hold
                               \/ h.reason \in {"none", "core"} /\ h.id = 0
                               \/ h.kind = "manual" /\ h.id = holds + 1 /\ holds' = holds + 1
  <2>1. CASE OperatorHolds
    <3> DEFINE h == [kind |-> "manual", reason |-> "operator", id |-> holds + 1]
    <3>1. h \in DoorHold /\ door' = [door EXCEPT !.hold = h] /\ holds' = holds + 1
      BY <2>1 DEF OperatorHolds, DoorHold, SupervisorTyped
    <3> QED BY <3>1
  <2>2. CASE OperatorReleases
    <3>1. NoHold \in DoorHold /\ NoHold.reason = "none" /\ NoHold.id = 0
      BY DEF NoHold, DoorHold
    <3> QED BY <2>2, <3>1 DEF OperatorReleases
  <2>3. CASE DoorProbes
    <3> DEFINE h == IF Healthy THEN (IF door.hold.kind = "automatic" THEN NoHold ELSE door.hold)
                    ELSE IF door.hold.kind = "none" THEN [kind |-> "automatic", reason |-> "core", id |-> 0]
                    ELSE door.hold
    <3>1. door' = [door EXCEPT !.hold = h] /\ holds' = holds
      BY <2>3 DEF DoorProbes
    <3>2. h \in DoorHold /\ (h = door.hold \/ (h.reason \in {"none", "core"} /\ h.id = 0))
      BY DEF NoHold, DoorHold, SupervisorTyped
    <3> HIDE DEF h
    <3> QED BY <3>1, <3>2
  <2> QED BY <2>1, <2>2, <2>3
<1>4. door' \in [up : BOOLEAN, hold : DoorHold] /\ door'.hold = h
  BY <1>3 DEF SupervisorTyped
<1>5. SupervisorTyped'
  BY <1>1, <1>3, <1>4 DEF SupervisorTyped
<1>6. ReceiptsOwn'
  <2>1. holds \in Nat /\ cmd.receipt \in Nat /\ door.hold.id \in Nat
    BY DEF SupervisorTyped, ServiceCommand, DoorHold
  <2> QED BY <1>1, <1>3, <1>4, <2>1 DEF ReceiptsOwn
<1> QED BY <1>2, <1>5, <1>6

\* A step that leaves core, door and signals alone, and moves to a place of which the
\* invariant asks nothing more than it did before.
LEMMA CommandGoes ==
  ASSUME SupervisorInv, NEW pc, cmd' = [cmd EXCEPT !.pc = pc], UNCHANGED <<core, signals, door, holds>>,
         \/ pc \in {"done", "busy", "failed", "died"}
         \/ /\ cmd.pc \notin Over \cup {"ack", "dashboard", "unload"}
            /\ pc \in {"check", "stopfence", "unloading", "boot", "ready", "receipt", "clean", "release"}
  PROVE  SupervisorInv'
<1> USE DEF SupervisorInv
<1>1. /\ cmd' \in ServiceCommand /\ cmd'.pc = pc /\ cmd'.receipt = cmd.receipt
  BY MovesTo DEF Over
<1>2. SupervisorTyped' /\ ReceiptsOwn' /\ StopsIdle'
  BY <1>1 DEF SupervisorTyped, ReceiptsOwn, StopsIdle
<1>3. SignalsSent' /\ CoordinatedHolds' /\ FenceAwaited' /\ FenceTaken' /\ UnloadIdle'
  BY <1>1 DEF SignalsSent, CoordinatedHolds, FenceAwaited, FenceTaken, UnloadIdle, Over
<1> QED BY <1>2, <1>3

\* The hold of a coordinated restart or of park.
LEMMA HoldPlaced ==
  ASSUME SupervisorInv, NEW reason \in {"restart", "park"}, cmd.pc \in {"hold", "parkhold"},
         PlacesHold(reason), UNCHANGED <<core, signals>>
  PROVE  SupervisorInv'
<1> USE DEF SupervisorInv
<1>1. CASE To("failed") /\ UNCHANGED <<door, holds>>
  BY <1>1, CommandGoes DEF To
<1>2. CASE ~(To("failed") /\ UNCHANGED <<door, holds>>)
  <2> DEFINE h == [kind |-> "manual", reason |-> reason, id |-> holds + 1]
  <2>1. /\ holds' = holds + 1 /\ door' = [door EXCEPT !.hold = h]
        /\ cmd' = [cmd EXCEPT !.receipt = holds + 1, !.pc = "wait"]
    BY <1>2 DEF PlacesHold
  <2>2. /\ cmd' \in ServiceCommand /\ cmd'.pc = "wait" /\ cmd'.receipt = holds + 1 /\ cmd'.receipt # 0
        /\ holds' \in Nat
    <3>1. holds + 1 \in Nat /\ holds + 1 # 0
      BY DEF SupervisorTyped
    <3>2. "wait" \in Over \cup {"hold", "park", "parkhold", "wait", "fence", "check", "stopfence", "ack",
                               "unload", "unloading", "boot", "ready", "receipt", "clean", "release"}
      OBVIOUS
    <3>3. PICK n \in Nat : n = holds + 1
      BY <3>1
    <3>4. cmd' = [cmd EXCEPT !.receipt = n, !.pc = "wait"]
      BY <2>1, <3>3
    <3>5. cmd' \in ServiceCommand /\ cmd'.pc = "wait" /\ cmd'.receipt = n
      BY <3>2, <3>4, Zenon DEF SupervisorTyped, ServiceCommand
    <3> QED BY <2>1, <3>1, <3>3, <3>5
  <2>3. /\ door' \in [up : BOOLEAN, hold : DoorHold] /\ door'.hold.id = holds + 1
        /\ door'.hold.reason = reason
    BY <2>1 DEF SupervisorTyped, DoorHold
  <2>4. SupervisorTyped' /\ ReceiptsOwn' /\ StopsIdle'
    BY <2>1, <2>2, <2>3 DEF SupervisorTyped, ReceiptsOwn, StopsIdle
  <2>5. SignalsSent' /\ CoordinatedHolds' /\ FenceAwaited' /\ FenceTaken' /\ UnloadIdle'
    BY <2>2 DEF SignalsSent, CoordinatedHolds, FenceAwaited, FenceTaken, UnloadIdle, Over
  <2> QED BY <2>4, <2>5
<1> QED BY <1>1, <1>2

\* The commands up to the fence.
LEMMA CommandsBegin ==
  ASSUME SupervisorInv,
         CommandBegins \/ CommandDies \/ RestartHolds \/ ParkReadsDoor \/ ParkHolds \/ CoordinatedWaits
  PROVE  SupervisorInv'
<1> USE DEF SupervisorInv
<1>1. CASE CommandBegins
  <2>1. PICK name \in {"start", "stop", "restart", "park"}, all \in BOOLEAN, interrupt \in BOOLEAN :
          cmd' = [name |-> name, all |-> all, interrupt |-> interrupt, receipt |-> 0,
                  fenced |-> FALSE, before |-> FALSE,
                  pc |-> CASE name = "park" -> "park"
                           [] name = "start" -> "boot"
                           [] name = "restart" /\ ~interrupt /\ Loaded /\ door.up -> "hold"
                           [] OTHER -> "check"]
    BY <1>1 DEF CommandBegins
  <2>2. /\ cmd' \in ServiceCommand /\ cmd'.receipt = 0 /\ cmd'.name = name
        /\ cmd'.pc \in {"park", "boot", "hold", "check"}
        /\ cmd'.pc = "hold" => name = "restart"
        /\ cmd'.pc = "park" => name = "park"
    BY <2>1 DEF ServiceCommand
  <2>3. signals = <<>> /\ UNCHANGED <<core, signals, door, holds>>
    BY <1>1 DEF CommandBegins
  <2>4. SupervisorTyped' /\ ReceiptsOwn' /\ StopsIdle'
    <3>1. holds \in Nat /\ 0 <= holds
      BY DEF SupervisorTyped
    <3> QED BY <2>2, <2>3, <3>1 DEF SupervisorTyped, ReceiptsOwn, StopsIdle
  <2>5. SignalsSent' /\ CoordinatedHolds' /\ FenceAwaited' /\ FenceTaken' /\ UnloadIdle'
    BY <2>2, <2>3 DEF SignalsSent, CoordinatedHolds, FenceAwaited, FenceTaken, UnloadIdle, Over
  <2> QED BY <2>4, <2>5
<1>2. CASE CommandDies
  BY <1>2, CommandGoes DEF CommandDies, To
<1>3. CASE RestartHolds
  BY <1>3, HoldPlaced DEF RestartHolds
<1>4. CASE ParkHolds
  BY <1>4, HoldPlaced DEF ParkHolds
<1>5. CASE ParkReadsDoor
  <2>1. PICK pc \in {"failed", "done", "parkhold", "wait"} : cmd' = [cmd EXCEPT !.pc = pc]
    BY <1>5 DEF ParkReadsDoor, To
  <2>2. cmd.pc = "park" /\ UNCHANGED <<core, signals, door, holds>>
    BY <1>5 DEF ParkReadsDoor
  <2>3. CASE pc \in {"failed", "done"}
    BY <2>1, <2>2, <2>3, CommandGoes
  <2>4. CASE pc \in {"parkhold", "wait"}
    <3>1. cmd' \in ServiceCommand /\ cmd'.pc = pc /\ cmd'.name = "park" /\ cmd'.receipt = cmd.receipt
      BY <2>1, <2>2, <2>4, MovesTo DEF CoordinatedHolds
    <3>2. SupervisorTyped' /\ ReceiptsOwn' /\ StopsIdle'
      BY <2>2, <3>1 DEF SupervisorTyped, ReceiptsOwn, StopsIdle
    <3>3. SignalsSent' /\ CoordinatedHolds' /\ FenceAwaited' /\ FenceTaken' /\ UnloadIdle'
      BY <2>2, <2>4, <3>1 DEF SignalsSent, CoordinatedHolds, FenceAwaited, FenceTaken, UnloadIdle, Over
    <3> QED BY <3>2, <3>3
  <2> QED BY <2>3, <2>4
<1>6. CASE CoordinatedWaits
  <2>1. PICK pc \in {"failed", "fence"} : cmd' = [cmd EXCEPT !.pc = pc]
    BY <1>6 DEF CoordinatedWaits, To
  <2>2. cmd.pc = "wait" /\ UNCHANGED <<core, signals, door, holds>>
    BY <1>6 DEF CoordinatedWaits
  <2>3. CASE pc = "failed"
    BY <2>1, <2>2, <2>3, CommandGoes
  <2>4. CASE pc = "fence"
    <3>1. cmd' \in ServiceCommand /\ cmd'.pc = pc /\ cmd'.name = cmd.name /\ cmd'.receipt = cmd.receipt
      BY <2>1, <2>4, MovesTo
    <3>2. SupervisorTyped' /\ ReceiptsOwn' /\ StopsIdle'
      BY <2>2, <3>1 DEF SupervisorTyped, ReceiptsOwn, StopsIdle
    <3>3. SignalsSent' /\ CoordinatedHolds' /\ FenceAwaited' /\ FenceTaken' /\ UnloadIdle'
      BY <2>2, <2>4, <3>1 DEF SignalsSent, CoordinatedHolds, FenceAwaited, FenceTaken, UnloadIdle, Over
    <3> QED BY <3>2, <3>3
  <2> QED BY <2>3, <2>4
<1> QED BY <1>1, <1>2, <1>3, <1>4, <1>5, <1>6

\* The fence: its signal, its acknowledgement and its refusal.
LEMMA FenceKeeps ==
  ASSUME SupervisorInv,
         \/ CoordinatedFences \/ StopChecks \/ StopFences \/ FenceAcknowledged \/ StopRefused
         \/ DashboardChecked
  PROVE  SupervisorInv'
<1> USE DEF SupervisorInv
<1>0. AfterFence \in {"dashboard", "unload"}
  BY DEF AfterFence
<1>1. CASE CoordinatedFences
  <2>1. /\ cmd.pc = "fence" /\ UNCHANGED <<core, door, holds>>
        /\ signals' \in {signals, Append(signals, "USR1")} /\ cmd' = [cmd EXCEPT !.pc = "ack"]
    BY <1>1 DEF CoordinatedFences, To
  <2>2. /\ cmd' \in ServiceCommand /\ cmd'.pc = "ack" /\ cmd'.name = cmd.name /\ cmd'.receipt = cmd.receipt
    BY <2>1, MovesTo
  <2>3. signals' \in {<<>>, <<"USR1">>}
    BY <2>1, SignalQueues DEF SignalsSent, Over
  <2>4. SupervisorTyped' /\ ReceiptsOwn' /\ StopsIdle'
    BY <2>1, <2>2, <2>3 DEF SupervisorTyped, ReceiptsOwn, StopsIdle
  <2>5. SignalsSent' /\ CoordinatedHolds' /\ FenceAwaited' /\ FenceTaken' /\ UnloadIdle'
    BY <2>1, <2>2, <2>3 DEF SignalsSent, CoordinatedHolds, FenceAwaited, FenceTaken, UnloadIdle, Over
  <2> QED BY <2>4, <2>5
<1>2. CASE StopChecks
  <2>1. /\ cmd.pc = "check" /\ UNCHANGED <<core, signals, door, holds>>
        /\ \/ cmd' = [cmd EXCEPT !.pc = AfterFence] /\ (~cmd.interrupt => ~Loaded)
           \/ cmd' = [cmd EXCEPT !.pc = "stopfence"]
           \/ cmd' = [cmd EXCEPT !.pc = "failed"]
    BY <1>2 DEF StopChecks, To
  <2>2. CASE cmd' = [cmd EXCEPT !.pc = AfterFence] /\ (~cmd.interrupt => ~Loaded)
    <3>1. /\ cmd' \in ServiceCommand /\ cmd'.pc \in {"dashboard", "unload"}
          /\ cmd'.receipt = cmd.receipt /\ cmd'.interrupt = cmd.interrupt
      BY <1>0, <2>2, MovesTo
    <3>2. SupervisorTyped' /\ ReceiptsOwn' /\ StopsIdle'
      BY <2>1, <3>1 DEF SupervisorTyped, ReceiptsOwn, StopsIdle
    <3>3. SignalsSent' /\ CoordinatedHolds' /\ FenceAwaited' /\ FenceTaken' /\ UnloadIdle'
      BY <2>1, <2>2, <3>1 DEF SignalsSent, CoordinatedHolds, FenceAwaited, FenceTaken, UnloadIdle, Over,
                              Loaded
    <3> QED BY <3>2, <3>3
  <2> QED BY <2>1, <2>2, CommandGoes DEF Over
<1>3. CASE StopFences
  <2>1. cmd.pc = "stopfence" /\ UNCHANGED <<core, door, holds>> /\ signals = <<>>
    BY <1>3 DEF StopFences, SignalsSent, Over
  <2>2. CASE To("failed") /\ UNCHANGED signals
    BY <2>1, <2>2, CommandGoes DEF To
  <2>3. CASE /\ Answers
             /\ cmd' = [cmd EXCEPT !.pc = "ack", !.before = core.draining, !.fenced = ~core.draining]
             /\ signals' = IF core.draining THEN signals ELSE Append(signals, "USR1")
    <3>1. core.draining \in BOOLEAN
      BY DEF SupervisorTyped, Core
    <3>2. /\ cmd' \in ServiceCommand /\ cmd'.pc = "ack" /\ cmd'.receipt = cmd.receipt
          /\ cmd'.before = core.draining /\ cmd'.fenced = ~core.draining
      BY <2>3, <3>1 DEF SupervisorTyped, ServiceCommand
    <3>3. \/ core.draining /\ signals' = <<>> /\ ~cmd'.fenced /\ cmd'.before
          \/ ~core.draining /\ signals' = <<"USR1">> /\ cmd'.fenced /\ ~cmd'.before
      BY <2>1, <2>3, <3>1, <3>2, SignalQueues
    <3>4. SupervisorTyped' /\ ReceiptsOwn' /\ StopsIdle'
      BY <2>1, <3>2, <3>3 DEF SupervisorTyped, ReceiptsOwn, StopsIdle
    <3>5. FenceAwaited'
      BY <2>1, <2>3, <3>2, <3>3 DEF FenceAwaited, Answers
    <3>6. SignalsSent' /\ CoordinatedHolds' /\ FenceTaken' /\ UnloadIdle'
      BY <2>1, <3>2, <3>3 DEF SignalsSent, CoordinatedHolds, FenceTaken, UnloadIdle, Over
    <3> QED BY <3>4, <3>5, <3>6
  <2> QED BY <1>3, <2>2, <2>3 DEF StopFences
<1>4. CASE FenceAcknowledged
  <2>1. /\ cmd.pc = "ack" /\ UNCHANGED <<core, signals, door, holds>>
        /\ cmd' = [cmd EXCEPT !.pc = AfterFence] /\ core.draining /\ core.active = {}
    BY <1>4 DEF FenceAcknowledged, To
  <2>2. /\ cmd' \in ServiceCommand /\ cmd'.pc \in {"dashboard", "unload"}
        /\ cmd'.receipt = cmd.receipt
    BY <1>0, <2>1, MovesTo
  <2>3. SupervisorTyped' /\ ReceiptsOwn' /\ StopsIdle'
    BY <2>1, <2>2 DEF SupervisorTyped, ReceiptsOwn, StopsIdle
  <2>4. SignalsSent' /\ CoordinatedHolds' /\ FenceAwaited' /\ FenceTaken' /\ UnloadIdle'
    BY <2>1, <2>2 DEF SignalsSent, CoordinatedHolds, FenceAwaited, FenceTaken, UnloadIdle, Over
  <2> QED BY <2>3, <2>4
<1>5. CASE StopRefused
  <2>1. /\ cmd.pc = "ack" /\ UNCHANGED <<core, door, holds>>
        /\ signals' = IF cmd.fenced THEN Append(signals, "USR2") ELSE signals
    BY <1>5 DEF StopRefused
  <2>2. signals \in {<<>>, <<"USR1">>}
    BY <2>1 DEF SignalsSent
  <2>3. IF cmd.fenced THEN signals' \in {<<"USR2">>, <<"USR1", "USR2">>} ELSE signals' = signals
    BY <2>1, <2>2, SignalQueues
  <2>4. signals' \in {<<>>, <<"USR1">>, <<"USR2">>, <<"USR1", "USR2">>}
    BY <2>2, <2>3
  <2>5. CASE cmd.name \in {"stop", "restart"} /\ cmd.receipt = 0
    <3>1. cmd' = [cmd EXCEPT !.pc = "refused"]
      BY <1>5, <2>5 DEF StopRefused, To
    <3>2. /\ cmd' \in ServiceCommand /\ cmd'.pc = "refused" /\ cmd'.receipt = cmd.receipt
          /\ cmd'.fenced = cmd.fenced /\ cmd'.before = cmd.before
      BY <3>1, MovesTo DEF Over
    <3>3. SupervisorTyped' /\ ReceiptsOwn' /\ StopsIdle'
      BY <2>1, <2>4, <3>2 DEF SupervisorTyped, ReceiptsOwn, StopsIdle
    <3>4. FenceTaken'
      BY <2>1, <2>3, <2>5, <3>2 DEF FenceAwaited, FenceTaken
    <3>5. SignalsSent' /\ CoordinatedHolds' /\ FenceAwaited' /\ UnloadIdle'
      BY <3>2 DEF SignalsSent, CoordinatedHolds, FenceAwaited, UnloadIdle, Over
    <3> QED BY <3>3, <3>4, <3>5
  <2>6. CASE ~(cmd.name \in {"stop", "restart"} /\ cmd.receipt = 0)
    <3>1. cmd' = [cmd EXCEPT !.pc = "failed"]
      BY <1>5, <2>6 DEF StopRefused, To
    <3>2. /\ cmd' \in ServiceCommand /\ cmd'.pc = "failed" /\ cmd'.receipt = cmd.receipt
      BY <3>1, MovesTo DEF Over
    <3>3. SupervisorTyped' /\ ReceiptsOwn' /\ StopsIdle'
      BY <2>1, <2>4, <3>2 DEF SupervisorTyped, ReceiptsOwn, StopsIdle
    <3>4. SignalsSent' /\ CoordinatedHolds' /\ FenceAwaited' /\ FenceTaken' /\ UnloadIdle'
      BY <3>2 DEF SignalsSent, CoordinatedHolds, FenceAwaited, FenceTaken, UnloadIdle, Over
    <3> QED BY <3>3, <3>4
  <2> QED BY <2>5, <2>6
<1>6. CASE DashboardChecked
  <2>1. cmd.pc = "dashboard" /\ UNCHANGED <<core, signals, door, holds>>
    BY <1>6 DEF DashboardChecked
  <2>2. CASE cmd' = [cmd EXCEPT !.pc = "busy"]
    BY <2>1, <2>2, CommandGoes
  <2>3. CASE cmd' = [cmd EXCEPT !.pc = "unload"]
    <3>1. /\ cmd' \in ServiceCommand /\ cmd'.pc = "unload" /\ cmd'.receipt = cmd.receipt
          /\ cmd'.interrupt = cmd.interrupt
      BY <2>3, MovesTo
    <3>2. SupervisorTyped' /\ ReceiptsOwn' /\ StopsIdle'
      BY <2>1, <3>1 DEF SupervisorTyped, ReceiptsOwn, StopsIdle
    <3>3. SignalsSent' /\ CoordinatedHolds' /\ FenceAwaited' /\ FenceTaken' /\ UnloadIdle'
      BY <2>1, <3>1 DEF SignalsSent, CoordinatedHolds, FenceAwaited, FenceTaken, UnloadIdle, Over
    <3> QED BY <3>2, <3>3
  <2> QED BY <1>6, <2>2, <2>3 DEF DashboardChecked, To
<1> QED BY <1>1, <1>2, <1>3, <1>4, <1>5, <1>6

\* From the stop of the core to the release of the door.
LEMMA CommandsEnd ==
  ASSUME SupervisorInv,
         \/ UnloadStops \/ Unloads \/ UnloadConfirmed \/ Boots \/ BootReady
         \/ StartReadsDoor \/ CoreClean \/ Releases
  PROVE  SupervisorInv'
<1> USE DEF SupervisorInv
<1>1. NoHold \in DoorHold /\ NoHold.reason = "none" /\ NoHold.id = 0 /\ holds \in Nat
  BY DEF NoHold, DoorHold, SupervisorTyped
<1>7. /\ [up |-> FALSE, hold |-> NoHold] \in [up : BOOLEAN, hold : DoorHold]
      /\ [up |-> TRUE, hold |-> NoHold] \in [up : BOOLEAN, hold : DoorHold]
      /\ [up |-> FALSE, hold |-> NoHold].hold = NoHold /\ [up |-> TRUE, hold |-> NoHold].hold = NoHold
  BY <1>1
<1>8. ASSUME NEW l \in {"starting", "off"}
      PROVE  /\ [life |-> l, draining |-> FALSE, active |-> {}] \in Core
             /\ [life |-> l, draining |-> FALSE, active |-> {}].active = {}
  BY <1>8 DEF Core
<1>2. CASE Unloads
  <2>1. /\ cmd.pc = "unload" /\ signals' = <<>> /\ cmd' = [cmd EXCEPT !.pc = "unloading"]
        /\ holds' = holds /\ door' \in {door, [up |-> FALSE, hold |-> NoHold]}
    BY <1>2 DEF Unloads, To
  <2>2. /\ cmd' \in ServiceCommand /\ cmd'.pc = "unloading" /\ cmd'.receipt = cmd.receipt
    BY <2>1, MovesTo
  <2>3. /\ core' \in Core
        /\ core'.life = "stopping" => core'.active = {}
    <3>1. CASE ~Loaded
      <4>1. core' = core \/ core' = [life |-> "off", draining |-> FALSE, active |-> {}]
        BY <1>2, <3>1 DEF Unloads
      <4>2. CASE core' = core
        BY <4>2 DEF SupervisorTyped, StopsIdle
      <4>3. CASE core' = [life |-> "off", draining |-> FALSE, active |-> {}]
        BY <1>8, <4>3
      <4> QED BY <4>1, <4>2, <4>3
    <3>2. CASE Loaded /\ cmd.interrupt
      <4>1. core' = [life |-> "off", draining |-> FALSE, active |-> {}]
        BY <1>2, <3>2 DEF Unloads
      <4> QED BY <1>8, <4>1
    <3>3. CASE Loaded /\ ~cmd.interrupt
      <4>1. core' = [core EXCEPT !.life = "stopping", !.draining = TRUE]
        BY <1>2, <3>3 DEF Unloads
      <4>2. core.active = {}
        BY <2>1, <3>3 DEF UnloadIdle, Loaded
      <4> QED BY <4>1, <4>2 DEF SupervisorTyped, Core
    <3> QED BY <3>1, <3>2, <3>3
  <2>4. door' \in [up : BOOLEAN, hold : DoorHold] /\ (door'.hold = door.hold \/ door'.hold = NoHold)
    BY <1>7, <2>1, Zenon DEF SupervisorTyped
  <2>5. SupervisorTyped' /\ ReceiptsOwn' /\ StopsIdle'
    BY <1>1, <2>1, <2>2, <2>3, <2>4 DEF SupervisorTyped, ReceiptsOwn, StopsIdle
  <2>6. SignalsSent' /\ CoordinatedHolds' /\ FenceAwaited' /\ FenceTaken' /\ UnloadIdle'
    BY <2>1, <2>2 DEF SignalsSent, CoordinatedHolds, FenceAwaited, FenceTaken, UnloadIdle, Over
  <2> QED BY <2>5, <2>6
<1>3. CASE UnloadConfirmed \/ BootReady \/ CoreClean
  <2>1. /\ cmd.pc \in {"unloading", "ready", "clean"} /\ UNCHANGED <<core, signals, door, holds>>
        /\ \E pc \in {"done", "boot", "failed", "receipt", "clean", "release"} : cmd' = [cmd EXCEPT !.pc = pc]
    BY <1>3 DEF UnloadConfirmed, BootReady, CoreClean, To
  <2> QED BY <2>1, CommandGoes DEF Over
<1>4. CASE Boots
  <2>1. /\ cmd.pc = "boot" /\ signals' = signals /\ cmd' = [cmd EXCEPT !.pc = "ready"]
        /\ holds' = holds /\ door' \in {door, [up |-> TRUE, hold |-> NoHold]}
        /\ core' \in {core, [life |-> "starting", draining |-> FALSE, active |-> {}]}
    BY <1>4 DEF Boots, To
  <2>2. /\ cmd' \in ServiceCommand /\ cmd'.pc = "ready" /\ cmd'.receipt = cmd.receipt
    BY <2>1, MovesTo
  <2>3. core' \in Core /\ (core'.life = "stopping" => core'.active = {})
    <3>1. CASE core' = core
      BY <3>1 DEF SupervisorTyped, StopsIdle
    <3>2. CASE core' = [life |-> "starting", draining |-> FALSE, active |-> {}]
      BY <1>8, <3>2
    <3> QED BY <2>1, <3>1, <3>2
  <2>4. door' \in [up : BOOLEAN, hold : DoorHold] /\ (door'.hold = door.hold \/ door'.hold = NoHold)
    BY <1>7, <2>1, Zenon DEF SupervisorTyped
  <2>5. SupervisorTyped' /\ ReceiptsOwn' /\ StopsIdle'
    BY <1>1, <2>1, <2>2, <2>3, <2>4 DEF SupervisorTyped, ReceiptsOwn, StopsIdle
  <2>6. SignalsSent' /\ CoordinatedHolds' /\ FenceAwaited' /\ FenceTaken' /\ UnloadIdle'
    BY <2>1, <2>2 DEF SignalsSent, CoordinatedHolds, FenceAwaited, FenceTaken, UnloadIdle, Over
  <2> QED BY <2>5, <2>6
<1>5. CASE StartReadsDoor
  <2>1. cmd.pc = "receipt" /\ UNCHANGED <<core, signals, door, holds>>
    BY <1>5 DEF StartReadsDoor
  <2>2. CASE cmd' = [cmd EXCEPT !.pc = "done"]
    BY <2>1, <2>2, CommandGoes
  <2>3. CASE IsPark /\ cmd' = [cmd EXCEPT !.receipt = door.hold.id, !.pc = "clean"]
    <3>1. PICK n \in Nat : n = door.hold.id
      BY DEF SupervisorTyped, DoorHold
    <3>2. cmd' = [cmd EXCEPT !.receipt = n, !.pc = "clean"]
      BY <2>3, <3>1
    <3>3. cmd' \in ServiceCommand /\ cmd'.pc = "clean" /\ cmd'.receipt = n
      BY <3>2, Zenon DEF SupervisorTyped, ServiceCommand
    <3>4. door.hold.reason = "park"
      BY <2>3 DEF IsPark
    <3>5. SupervisorTyped' /\ ReceiptsOwn' /\ StopsIdle'
      BY <2>1, <3>1, <3>3, <3>4 DEF SupervisorTyped, ReceiptsOwn, StopsIdle
    <3>6. SignalsSent' /\ CoordinatedHolds' /\ FenceAwaited' /\ FenceTaken' /\ UnloadIdle'
      BY <2>1, <3>3 DEF SignalsSent, CoordinatedHolds, FenceAwaited, FenceTaken, UnloadIdle, Over
    <3> QED BY <3>5, <3>6
  <2> QED BY <1>5, <2>2, <2>3 DEF StartReadsDoor
<1>6. CASE Releases
  <2>1. cmd.pc = "release" /\ UNCHANGED <<core, signals, holds>>
    BY <1>6 DEF Releases
  <2>2. CASE To("failed") /\ UNCHANGED door
    BY <2>1, <2>2, CommandGoes DEF To
  <2>3. CASE To("done") /\ door' = [door EXCEPT !.hold = NoHold]
    <3>1. cmd' \in ServiceCommand /\ cmd'.pc = "done" /\ cmd'.receipt = cmd.receipt
      BY <2>3, MovesTo DEF To, Over
    <3>2. door' \in [up : BOOLEAN, hold : DoorHold] /\ door'.hold = NoHold
      BY <1>1, <2>3 DEF SupervisorTyped
    <3>3. SupervisorTyped' /\ ReceiptsOwn' /\ StopsIdle'
      BY <1>1, <2>1, <3>1, <3>2 DEF SupervisorTyped, ReceiptsOwn, StopsIdle
    <3>4. SignalsSent' /\ CoordinatedHolds' /\ FenceAwaited' /\ FenceTaken' /\ UnloadIdle'
      BY <2>1, <3>1 DEF SignalsSent, CoordinatedHolds, FenceAwaited, FenceTaken, UnloadIdle, Over
    <3> QED BY <3>3, <3>4
  <2> QED BY <1>6, <2>2, <2>3 DEF Releases
<1>9. CASE UnloadStops
  <2>1. /\ UNCHANGED <<core, signals, holds>> /\ cmd' = [cmd EXCEPT !.pc = "failed"]
        /\ door' \in {door, [up |-> FALSE, hold |-> NoHold]}
    BY <1>9 DEF UnloadStops, To
  <2>2. cmd' \in ServiceCommand /\ cmd'.pc = "failed" /\ cmd'.receipt = cmd.receipt
    BY <2>1, MovesTo DEF Over
  <2>3. door' \in [up : BOOLEAN, hold : DoorHold] /\ (door'.hold = door.hold \/ door'.hold = NoHold)
    BY <1>7, <2>1, Zenon DEF SupervisorTyped
  <2>4. SupervisorTyped' /\ ReceiptsOwn' /\ StopsIdle'
    BY <1>1, <2>1, <2>2, <2>3 DEF SupervisorTyped, ReceiptsOwn, StopsIdle
  <2>5. SignalsSent' /\ CoordinatedHolds' /\ FenceAwaited' /\ FenceTaken' /\ UnloadIdle'
    BY <2>2 DEF SignalsSent, CoordinatedHolds, FenceAwaited, FenceTaken, UnloadIdle, Over
  <2> QED BY <2>4, <2>5
<1> QED BY <1>2, <1>3, <1>4, <1>5, <1>6, <1>9

\* Every step keeps the invariant.
LEMMA SupervisorStep ==
  ASSUME SupervisorInv, SupervisorNext
  PROVE  SupervisorInv'
  BY CoreKeeps, DrainKeeps, DoorKeeps, CommandsBegin, FenceKeeps, CommandsEnd DEF SupervisorNext

\* The invariant holds throughout, whatever the operator enters and wherever a command
\* dies.
LEMMA SupervisorAlways == SupervisorSpec => []SupervisorInv
<1>1. SupervisorInv /\ UNCHANGED supervisorVars => SupervisorInv'
  BY DEF SupervisorInv, SupervisorTyped, ReceiptsOwn, SignalsSent, CoordinatedHolds, FenceAwaited,
         FenceTaken, UnloadIdle, StopsIdle, supervisorVars
<1> QED BY <1>1, SupervisorInitial, SupervisorStep, PTL DEF SupervisorSpec

\* A core is stopped idle unless --interrupt says otherwise, whatever the dashboard answers
\* after the fence, and a stop that is refused under its fence takes that fence away
\* (service-control.mjs: the fence of stop, restart and park).  A stop that the dashboard
\* refuses afterwards leaves it, and is not what StopsFenced is about.
THEOREM StopsCorrect == SupervisorSpec => []StopsFenced
  BY SupervisorAlways, SupervisorImplied, PTL

\* While the door runs, no command ends an operator's hold (service-control.mjs: holds
\* are placed if unheld and released by receipt).
LEMMA HoldStep ==
  ASSUME SupervisorInv, SupervisorNext, door.up, door'.up, door.hold.reason = "operator",
         door'.hold # door.hold
  PROVE  OperatorHolds \/ OperatorReleases
<1>1. /\ door.hold.kind = "manual" /\ door.hold.id # cmd.receipt
      /\ door \in [up : BOOLEAN, hold : DoorHold]
  BY DEF SupervisorInv, SupervisorTyped, ReceiptsOwn
<1>2. door' # door
  OBVIOUS
<1>3. ~DoorProbes
  BY <1>1 DEF DoorProbes
<1>4. ~RestartHolds /\ ~ParkHolds
  BY <1>1, <1>2 DEF RestartHolds, ParkHolds, PlacesHold
<1>5. ~Unloads /\ ~UnloadStops
  BY <1>2 DEF Unloads, UnloadStops
<1>6. ~Boots
  BY <1>2 DEF Boots
<1>7. ~Releases
  BY <1>1, <1>2 DEF Releases
<1> QED
  BY <1>2, <1>3, <1>4, <1>5, <1>6, <1>7
     DEF SupervisorNext, RequestArrives, RequestEnds, SignalHandled, StartupCompletes, CoreExits,
         OperatorDrains, CommandBegins, CommandDies, ParkReadsDoor, CoordinatedWaits,
         CoordinatedFences, StopChecks, StopFences, FenceAcknowledged, StopRefused,
         DashboardChecked, UnloadConfirmed, BootReady, StartReadsDoor, CoreClean

\* A hold an operator placed ends only by an operator's own release, as long as the door
\* runs (the conditional release of restart and start).
THEOREM HoldCorrect == SupervisorSpec => OperatorHoldKept
<1>1. SupervisorInv /\ [SupervisorNext]_supervisorVars => [OperatorEndsHold]_supervisorVars
  BY HoldStep DEF OperatorEndsHold
<1> QED BY <1>1, SupervisorAlways, PTL DEF SupervisorSpec, OperatorHoldKept

-----------------------------------------------------------------------------
(* A setting changed from the dashboard.                                   *)

DeskSpec == DeskInit /\ [][DeskNext]_deskVars

\* A value is none of what stands for no value.
DeskGiven == DeskValue # {} /\ NoValue \notin DeskValue

Known == DeskValue \cup {NoValue}
Code == {"none", "200", "400", "403", "408", "413"}
Reply == [expected : Known, value : Known, at : {"none", "body", "asked", "probing", "over"}, ended : BOOLEAN,
          open : BOOLEAN, reply : Code, acts : {0, 1}, was : Known]
DeskTyped ==
  /\ gate \in [value : DeskValue, past : SUBSET DeskValue, chain : Seq(Command)]
  /\ deskPage \in [Page -> [shown : Known, token : Nat, dirty : BOOLEAN, busy : Command \cup {DeskIdle}]]
  /\ session \in Nat
  /\ command \in [Command -> Reply]

\* A command acts when its body is whole, and before that nothing is known of it.
ActsOnce(cm) ==
  /\ cm.at = "none" => cm.acts = 0 /\ cm.reply = "none" /\ cm.was = NoValue
  /\ cm.at # "none" => cm.value \in DeskValue
  /\ cm.at = "body" => cm.acts = 0
  /\ cm.at \in {"body", "asked", "probing"} => cm.was = NoValue
  /\ cm.at \in {"asked", "probing"} => cm.acts = 1
  /\ cm.reply \in {"403", "408", "413"} => cm.acts = 0 /\ (cm.at = "over" \/ (cm.at = "body" /\ cm.ended))
Truthful(cm) ==
  /\ cm.was # NoValue => cm.acts = 1 /\ (kind = "toggle" \/ cm.was = cm.expected)
  /\ cm.reply = "200" => cm.was # NoValue

\* Only the command whose turn it is probes, and the value stays what it was checked against.
Checked(c) == command[c].at = "probing" => Turn(c) /\ command[c].expected = gate.value

DeskInv ==
  /\ DeskTyped
  /\ \A c \in Command : ActsOnce(command[c]) /\ Truthful(command[c]) /\ Checked(c)

LEMMA RepliedRecord ==
  ASSUME NEW cm \in Reply, NEW code \in Code
  PROVE  LET r == DeskReplied(cm, code)
         IN  /\ r \in Reply /\ r.expected = cm.expected /\ r.value = cm.value /\ r.at = cm.at
             /\ r.ended = cm.ended /\ r.acts = cm.acts /\ r.was = cm.was
             /\ r.reply = cm.reply \/ (r.reply = code /\ cm.reply = "none")
BY DEF DeskReplied, Reply

\* One command changes, and the gate with it.
LEMMA OneCommand ==
  ASSUME DeskInv, NEW c \in Command, NEW r \in Reply, command' = [command EXCEPT ![c] = r],
         UNCHANGED <<kind, session, deskPage>>,
         gate' \in [value : DeskValue, past : SUBSET DeskValue, chain : Seq(Command)],
         ActsOnce(r), Truthful(r), Checked(c)',
         \A d \in Command \ {c} : command[d].at = "probing" => Turn(d)' /\ gate'.value = gate.value
  PROVE  DeskInv'
<1>1. DeskTyped'
  BY DEF DeskInv, DeskTyped
<1>2. ASSUME NEW d \in Command PROVE ActsOnce(command'[d]) /\ Truthful(command'[d]) /\ Checked(d)'
  <2>1. CASE d = c
    BY <2>1 DEF DeskInv, DeskTyped
  <2>2. CASE d # c
    <3>1. command'[d] = command[d]
      BY <2>2 DEF DeskInv, DeskTyped
    <3>2. ActsOnce(command[d]) /\ Truthful(command[d]) /\ Checked(d)
      BY DEF DeskInv
    <3>3. Checked(d)'
      BY <2>2, <3>1, <3>2 DEF Checked
    <3> QED BY <3>1, <3>2, <3>3
  <2> QED BY <2>1, <2>2
<1>3. \A d \in Command : (ActsOnce(command[d]) /\ Truthful(command[d]) /\ Checked(d))'
  BY <1>2 DEF ActsOnce, Truthful
<1> QED BY <1>1, <1>3 DEF DeskInv

\* The same where the gate stays.
LEMMA OneReply ==
  ASSUME DeskInv, NEW c \in Command, NEW r \in Reply, command' = [command EXCEPT ![c] = r],
         UNCHANGED <<kind, session, deskPage, gate>>,
         ActsOnce(r), Truthful(r), r.at = "probing" => Turn(c) /\ r.expected = gate.value
  PROVE  DeskInv'
<1>1. gate' \in [value : DeskValue, past : SUBSET DeskValue, chain : Seq(Command)]
  BY DEF DeskInv, DeskTyped
<1>2. command'[c] = r
  BY DEF DeskInv, DeskTyped
<1>3. Checked(c)'
  BY <1>2 DEF Checked, Turn
<1>4. \A d \in Command \ {c} : command[d].at = "probing" => Turn(d)' /\ gate'.value = gate.value
  BY DEF DeskInv, Checked, Turn
<1> QED BY <1>1, <1>3, <1>4, OneCommand

\* Pages only read.
LEMMA PagesKeep ==
  ASSUME DeskInv, UNCHANGED <<kind, gate, command>>,
         deskPage' \in [Page -> [shown : Known, token : Nat, dirty : BOOLEAN, busy : Command \cup {DeskIdle}]],
         session' \in Nat
  PROVE  DeskInv'
BY DEF DeskInv, DeskTyped, ActsOnce, Truthful, Checked, Turn

\* A page that gives up, or whose dashboard restarts, leaves a command that acts to its end.
LEMMA AbortedRecord ==
  ASSUME NEW cm \in Reply, ActsOnce(cm), Truthful(cm)
  PROVE  LET r == Aborted(cm)
         IN  /\ r \in Reply /\ ActsOnce(r) /\ Truthful(r) /\ r.expected = cm.expected
             /\ r.at = "probing" => cm.at = "probing"
<1> DEFINE r == Aborted(cm)
<1>1. /\ r \in Reply /\ r.expected = cm.expected /\ r.value = cm.value /\ r.acts = cm.acts /\ r.was = cm.was
      /\ r.reply = cm.reply /\ r.at = IF cm.at = "body" THEN "over" ELSE cm.at
      /\ cm.ended => r.ended
  BY DEF Aborted, Reply
<1> HIDE DEF r
<1>2. ActsOnce(r) /\ Truthful(r)
  BY <1>1 DEF ActsOnce, Truthful
<1> QED BY <1>1, <1>2 DEF r

LEMMA DeskInitial == ASSUME DeskGiven PROVE DeskInit => DeskInv
<1> SUFFICES ASSUME DeskInit PROVE DeskInv
  OBVIOUS
<1> DEFINE v == CHOOSE v \in DeskValue : TRUE
<1>1. v \in DeskValue
  BY DEF DeskGiven
<1>2. /\ gate = [value |-> v, past |-> {v}, chain |-> <<>>]
      /\ deskPage = [p \in Page |-> PageLoaded(v)] /\ session = 1
      /\ command = [c \in Command |-> BlankReply]
  BY DEF DeskInit
<1> HIDE DEF v
<1>3. BlankReply \in Reply /\ ActsOnce(BlankReply) /\ Truthful(BlankReply) /\ BlankReply.at = "none"
  BY DEF BlankReply, Reply, Known, Code, ActsOnce, Truthful
<1>4. PageLoaded(v) \in [shown : Known, token : Nat, dirty : BOOLEAN, busy : Command \cup {DeskIdle}]
  BY <1>1 DEF PageLoaded, Known
<1>5. gate \in [value : DeskValue, past : SUBSET DeskValue, chain : Seq(Command)]
  <2> DEFINE e == <<>>
  <2>1. e \in Seq(Command) /\ gate = [value |-> v, past |-> {v}, chain |-> e]
    BY <1>2
  <2> HIDE DEF e
  <2> QED BY <1>1, <2>1
<1>6. DeskTyped
  BY <1>2, <1>3, <1>4, <1>5 DEF DeskTyped
<1>7. \A c \in Command : command[c] = BlankReply
  BY <1>2
<1> QED BY <1>3, <1>6, <1>7 DEF DeskInv, Checked

LEMMA PageStep ==
  ASSUME DeskInv, NEW p \in Page, LoadArrives(p) \/ LoadFails(p) \/ Types(p)
  PROVE  DeskInv'
<1> DEFINE Page1 == [shown : Known, token : Nat, dirty : BOOLEAN, busy : Command \cup {DeskIdle}]
<1>1. /\ deskPage \in [Page -> Page1] /\ session \in Nat /\ gate.past \subseteq DeskValue
      /\ UNCHANGED <<kind, gate, session, command>>
  BY DEF DeskInv, DeskTyped, LoadArrives, LoadFails, Types
<1>2. deskPage[p] \in Page1
  BY <1>1
<1>3. CASE LoadArrives(p)
  <2>1. PICK v \in gate.past, t \in 1..session :
          deskPage' = [deskPage EXCEPT ![p] = [@ EXCEPT !.token = t, !.shown = Shows(deskPage[p], v)]]
    BY <1>3 DEF LoadArrives
  <2>2. Shows(deskPage[p], v) \in Known
    BY <1>1, <1>2 DEF Shows, Known
  <2>3. t \in Nat
    BY <1>1
  <2>4. deskPage' \in [Page -> Page1]
    BY <1>1, <1>2, <2>1, <2>2, <2>3
  <2> QED BY <1>1, <2>4, PagesKeep
<1>4. CASE LoadFails(p) \/ Types(p)
  <2>1. PICK q \in Page1 : deskPage' = [deskPage EXCEPT ![p] = q]
    <3>1. CASE LoadFails(p)
      <4> DEFINE q == [deskPage[p] EXCEPT !.token = 0]
      <4>1. q \in Page1 /\ deskPage' = [deskPage EXCEPT ![p] = q]
        BY <1>2, <3>1 DEF LoadFails, NoToken
      <4> QED BY <4>1
    <3>2. CASE Types(p)
      <4> DEFINE q == [deskPage[p] EXCEPT !.dirty = TRUE]
      <4>1. q \in Page1 /\ deskPage' = [deskPage EXCEPT ![p] = q]
        BY <1>2, <3>2 DEF Types
      <4> QED BY <4>1
    <3> QED BY <1>4, <3>1, <3>2
  <2>2. deskPage' \in [Page -> Page1]
    BY <1>1, <2>1
  <2> QED BY <1>1, <2>2, PagesKeep
<1> QED BY <1>3, <1>4

LEMMA SubmitStep == ASSUME DeskInv, NEW p \in Page, Submits(p) PROVE DeskInv'
<1> DEFINE Page1 == [shown : Known, token : Nat, dirty : BOOLEAN, busy : Command \cup {DeskIdle}]
           valid == TokenValid(deskPage[p])
<1>1. PICK c \in Command, v \in Offered(deskPage[p]) :
        /\ command[c].at = "none"
        /\ deskPage' = [deskPage EXCEPT ![p].busy = c]
        /\ command' = [command EXCEPT ![c] =
               [BlankReply EXCEPT !.expected = deskPage[p].shown, !.value = v, !.open = TRUE,
                             !.at = IF valid THEN "body" ELSE "over",
                             !.reply = IF valid THEN "none" ELSE "403"]]
  BY DEF Submits
<1> HIDE DEF valid
<1>2. UNCHANGED <<kind, gate, session>>
  BY DEF Submits
<1>3. /\ deskPage \in [Page -> Page1] /\ session \in Nat /\ deskPage[p].shown \in Known
      /\ command \in [Command -> Reply]
  BY DEF DeskInv, DeskTyped
<1>4. v \in DeskValue
  BY DEF Offered
<1> DEFINE at == IF valid THEN "body" ELSE "over"
           reply == IF valid THEN "none" ELSE "403"
           r == [BlankReply EXCEPT !.expected = deskPage[p].shown, !.value = v, !.open = TRUE,
                                   !.at = at, !.reply = reply]
<1>5. command' = [command EXCEPT ![c] = r]
  BY <1>1
<1>6. r \in Reply /\ ActsOnce(r) /\ Truthful(r) /\ r.at # "probing"
  <2>1. \/ at = "body" /\ reply = "none"
        \/ at = "over" /\ reply = "403"
    OBVIOUS
  <2>2. at \in {"none", "body", "asked", "probing", "over"} /\ reply \in Code
    BY <2>1 DEF Code
  <2> HIDE DEF at, reply
  <2>3. BlankReply \in Reply /\ BlankReply.acts = 0 /\ BlankReply.was = NoValue
    BY DEF BlankReply, Reply, Known, Code
  <2>4. deskPage[p].shown \in Known /\ v \in Known
    BY <1>3, <1>4 DEF Known
  <2>5. r \in Reply /\ r.value = v /\ r.at = at /\ r.reply = reply /\ r.acts = 0 /\ r.was = NoValue
    BY <2>2, <2>3, <2>4 DEF Reply
  <2> HIDE DEF r
  <2>6. \/ r.at = "body" /\ r.reply = "none"
        \/ r.at = "over" /\ r.reply = "403"
    BY <2>1, <2>5
  <2>7. ActsOnce(r)
    BY <1>4, <2>5, <2>6 DEF ActsOnce
  <2>8. Truthful(r)
    BY <2>5, <2>6 DEF Truthful
  <2> QED BY <2>5, <2>6, <2>7, <2>8
<1> HIDE DEF r
<1>7. deskPage' \in [Page -> Page1]
  BY <1>1, <1>3
<1>8. DeskTyped'
  BY <1>2, <1>3, <1>5, <1>6, <1>7 DEF DeskTyped, DeskInv
<1>9. ASSUME NEW d \in Command PROVE (ActsOnce(command[d]) /\ Truthful(command[d]) /\ Checked(d))'
  <2>1. CASE d = c
    <3>1. command'[d] = r
      BY <1>3, <1>5, <2>1
    <3> QED BY <1>2, <1>6, <3>1 DEF ActsOnce, Truthful, Checked
  <2>2. CASE d # c
    <3>1. command'[d] = command[d]
      BY <1>3, <1>5, <2>2
    <3>2. ActsOnce(command[d]) /\ Truthful(command[d]) /\ Checked(d)
      BY DEF DeskInv
    <3> QED BY <1>2, <3>1, <3>2 DEF ActsOnce, Truthful, Checked, Turn
  <2> QED BY <2>1, <2>2
<1> QED BY <1>8, <1>9 DEF DeskInv

\* The answer reaches the page, or its patience ends, or its dashboard restarts.
LEMMA HearStep ==
  ASSUME DeskInv, DashboardRestarts \/ \E p \in Page : PageHears(p) \/ PageGivesUp(p)
  PROVE  DeskInv'
<1> DEFINE Page1 == [shown : Known, token : Nat, dirty : BOOLEAN, busy : Command \cup {DeskIdle}]
<1>1. /\ deskPage \in [Page -> Page1] /\ session \in Nat
      /\ command \in [Command -> Reply]
      /\ UNCHANGED <<kind, gate>>
  BY DEF DeskInv, DeskTyped, DashboardRestarts, PageHears, PageGivesUp
<1>2. ASSUME NEW d \in Command
      PROVE  /\ command[d] \in Reply /\ ActsOnce(command[d]) /\ Truthful(command[d]) /\ Checked(d)
             /\ Aborted(command[d]) \in Reply /\ ActsOnce(Aborted(command[d])) /\ Truthful(Aborted(command[d]))
             /\ Aborted(command[d]).expected = command[d].expected
             /\ Aborted(command[d]).at = "probing" => command[d].at = "probing"
  <2>1. command[d] \in Reply /\ ActsOnce(command[d]) /\ Truthful(command[d]) /\ Checked(d)
    BY DEF DeskInv, DeskTyped
  <2> QED BY <2>1, AbortedRecord
<1>3. ASSUME DeskTyped',
             \A d \in Command :
               /\ ActsOnce(command'[d]) /\ Truthful(command'[d]) /\ command'[d].expected = command[d].expected
               /\ command'[d].at = "probing" => command[d].at = "probing"
      PROVE  DeskInv'
  <2>1. ASSUME NEW d \in Command PROVE (ActsOnce(command[d]) /\ Truthful(command[d]) /\ Checked(d))'
    <3>1. Checked(d)
      BY <1>2
    <3> QED BY <1>1, <1>3, <3>1 DEF ActsOnce, Truthful, Checked, Turn
  <2> QED BY <1>3, <2>1 DEF DeskInv
<1>4. CASE DashboardRestarts
  <2>1. session' = session + 1 /\ command' = [c \in Command |-> Aborted(command[c])] /\ UNCHANGED deskPage
    BY <1>4 DEF DashboardRestarts
  <2>2. \A d \in Command : command'[d] = Aborted(command[d])
    BY <2>1
  <2>3. command' \in [Command -> Reply]
    BY <1>2, <2>1
  <2>4. DeskTyped'
    BY <1>1, <2>1, <2>3 DEF DeskInv, DeskTyped
  <2> QED BY <1>2, <1>3, <2>2, <2>4
<1>5. ASSUME NEW p \in Page, PageHears(p) PROVE DeskInv'
  <2> DEFINE c == deskPage[p].busy
             good == command[c].reply = "200"
  <2>1. /\ c \in Command /\ session' = session
        /\ command' = [command EXCEPT ![c].open = FALSE]
        /\ \E d \in (IF good THEN {FALSE} ELSE {deskPage[p].dirty, FALSE}) :
              deskPage' = [deskPage EXCEPT ![p] = [@ EXCEPT !.busy = DeskIdle, !.dirty = d,
                 !.shown = IF good /\ kind # "priority" THEN command[c].value ELSE deskPage[p].shown]]
    BY <1>1, <1>5 DEF PageHears
  <2>2. deskPage[p] \in Page1
    BY <1>1
  <2>3. c \in Command
    BY <2>1
  <2> HIDE DEF c
  <2>4. command[c].value \in Known
    BY <1>1, <2>3 DEF Reply
  <2>5. PICK u \in BOOLEAN, w \in Known :
          deskPage' = [deskPage EXCEPT ![p] = [deskPage[p] EXCEPT !.busy = DeskIdle, !.dirty = u, !.shown = w]]
    <3>1. PICK d \in (IF good THEN {FALSE} ELSE {deskPage[p].dirty, FALSE}) :
              deskPage' = [deskPage EXCEPT ![p] = [@ EXCEPT !.busy = DeskIdle, !.dirty = d,
                 !.shown = IF good /\ kind # "priority" THEN command[c].value ELSE deskPage[p].shown]]
      BY <2>1
    <3>2. d \in BOOLEAN
      BY <2>2
    <3> DEFINE s == IF good /\ kind # "priority" THEN command[c].value ELSE deskPage[p].shown
    <3>3. s \in Known
      BY <2>2, <2>4
    <3>4. deskPage' = [deskPage EXCEPT ![p] = [deskPage[p] EXCEPT !.busy = DeskIdle, !.dirty = d, !.shown = s]]
      BY <3>1
    <3> QED BY <3>2, <3>3, <3>4
  <2>6. deskPage' \in [Page -> Page1]
    BY <1>1, <2>2, <2>5
  <2> DEFINE r == [command[c] EXCEPT !.open = FALSE]
  <2>7. command' = [command EXCEPT ![c] = r]
    BY <2>1
  <2>8. /\ r \in Reply /\ r.expected = command[c].expected /\ r.value = command[c].value /\ r.at = command[c].at
        /\ r.ended = command[c].ended /\ r.reply = command[c].reply /\ r.acts = command[c].acts
        /\ r.was = command[c].was
    BY <1>1, <2>3 DEF Reply
  <2> HIDE DEF r
  <2>9. ActsOnce(r) /\ Truthful(r)
    BY <1>2, <2>3, <2>8 DEF ActsOnce, Truthful
  <2>10. DeskTyped'
    BY <1>1, <2>1, <2>3, <2>6, <2>7, <2>8 DEF DeskInv, DeskTyped
  <2>11. ASSUME NEW d \in Command
         PROVE  /\ ActsOnce(command'[d]) /\ Truthful(command'[d]) /\ command'[d].expected = command[d].expected
                /\ command'[d].at = "probing" => command[d].at = "probing"
    <3>1. CASE d = c
      BY <1>1, <2>3, <2>7, <2>8, <2>9, <3>1
    <3>2. CASE d # c
      <4>1. command'[d] = command[d]
        BY <1>1, <2>7, <3>2
      <4> QED BY <1>2, <4>1
    <3> QED BY <3>1, <3>2
  <2> QED BY <1>3, <2>10, <2>11
<1>6. ASSUME NEW p \in Page, PageGivesUp(p) PROVE DeskInv'
  <2> DEFINE c == deskPage[p].busy
  <2>1. /\ c \in Command /\ session' = session
        /\ command' = [command EXCEPT ![c] = Aborted(command[c])]
        /\ deskPage' = [deskPage EXCEPT ![p] = [deskPage[p] EXCEPT !.busy = DeskIdle]]
    BY <1>1, <1>6 DEF PageGivesUp
  <2>2. c \in Command
    BY <2>1
  <2> HIDE DEF c
  <2>3. deskPage[p] \in Page1
    BY <1>1
  <2>4. deskPage' \in [Page -> Page1]
    BY <1>1, <2>1, <2>3
  <2>5. DeskTyped'
    BY <1>1, <1>2, <2>1, <2>2, <2>4 DEF DeskInv, DeskTyped
  <2>6. ASSUME NEW d \in Command
        PROVE  /\ ActsOnce(command'[d]) /\ Truthful(command'[d]) /\ command'[d].expected = command[d].expected
               /\ command'[d].at = "probing" => command[d].at = "probing"
    <3>1. CASE d = c
      <4>1. command'[d] = Aborted(command[d])
        BY <1>1, <2>1, <3>1
      <4> QED BY <1>2, <4>1
    <3>2. CASE d # c
      <4>1. command'[d] = command[d]
        BY <1>1, <2>1, <3>2
      <4> QED BY <1>2, <4>1
    <3> QED BY <3>1, <3>2
  <2> QED BY <1>3, <2>5, <2>6
<1> QED BY <1>4, <1>5, <1>6

\* The dashboard: limits, the end of the body, its own patience.
LEMMA DashboardStep ==
  ASSUME DeskInv, NEW c \in Command, BodyLate(c) \/ BodyLarge(c) \/ BodyEnds(c) \/ ControlTimesOut(c)
  PROVE  DeskInv'
<1>1. /\ command \in [Command -> Reply] /\ command[c] \in Reply /\ ActsOnce(command[c]) /\ Truthful(command[c])
      /\ Checked(c)
      /\ gate \in [value : DeskValue, past : SUBSET DeskValue, chain : Seq(Command)]
  BY DEF DeskInv, DeskTyped
<1>2. CASE BodyLate(c) \/ BodyLarge(c)
  <2>1. PICK code \in {"408", "413"} :
          /\ command[c].at = "body" /\ ~command[c].ended
          /\ command' = [command EXCEPT ![c] = DeskReplied([command[c] EXCEPT !.ended = TRUE], code)]
          /\ UNCHANGED <<kind, gate, session, deskPage>>
    BY <1>2 DEF BodyLate, BodyLarge, CutsOff
  <2> DEFINE m == [command[c] EXCEPT !.ended = TRUE]
             r == DeskReplied(m, code)
  <2>2. /\ m \in Reply /\ m.expected = command[c].expected /\ m.value = command[c].value /\ m.at = "body"
        /\ m.ended /\ m.reply = command[c].reply /\ m.acts = command[c].acts /\ m.was = command[c].was
    BY <1>1, <2>1 DEF Reply
  <2> HIDE DEF m
  <2>3. /\ r \in Reply /\ r.expected = m.expected /\ r.value = m.value /\ r.at = m.at
        /\ r.ended = m.ended /\ r.acts = m.acts /\ r.was = m.was
        /\ r.reply = m.reply \/ (r.reply = code /\ m.reply = "none")
    <3>1. code \in Code
      BY DEF Code
    <3> QED BY <2>2, <3>1, RepliedRecord
  <2>4. command' = [command EXCEPT ![c] = r]
    BY <2>1 DEF m
  <2> HIDE DEF r
  <2>5. ActsOnce(r) /\ Truthful(r) /\ r.at # "probing"
    BY <1>1, <2>1, <2>2, <2>3 DEF ActsOnce, Truthful
  <2> QED BY <2>1, <2>3, <2>4, <2>5, OneReply
<1>3. CASE ControlTimesOut(c)
  <2>1. /\ command[c].at \in {"asked", "probing"}
        /\ command' = [command EXCEPT ![c] = DeskReplied(command[c], "400")]
        /\ UNCHANGED <<kind, gate, session, deskPage>>
    BY <1>3 DEF ControlTimesOut
  <2> DEFINE r == DeskReplied(command[c], "400")
  <2>2. /\ r \in Reply /\ r.expected = command[c].expected /\ r.value = command[c].value /\ r.at = command[c].at
        /\ r.ended = command[c].ended /\ r.acts = command[c].acts /\ r.was = command[c].was
        /\ r.reply = command[c].reply \/ (r.reply = "400" /\ command[c].reply = "none")
    BY <1>1, RepliedRecord DEF Code
  <2>3. command' = [command EXCEPT ![c] = r]
    BY <2>1
  <2> HIDE DEF r
  <2>4. ActsOnce(r) /\ Truthful(r)
    <3>1. r.reply = command[c].reply \/ r.reply = "400"
      BY <2>2
    <3>2. ActsOnce(r)
      BY <1>1, <2>1, <2>2, <3>1 DEF ActsOnce
    <3>3. Truthful(r)
      BY <1>1, <2>2, <3>1 DEF Truthful
    <3> QED BY <3>2, <3>3
  <2>5. r.at = "probing" => Turn(c) /\ r.expected = gate.value
    BY <1>1, <2>2 DEF Checked
  <2> QED BY <2>1, <2>2, <2>3, <2>4, <2>5, OneReply
<1>4. CASE BodyEnds(c) /\ UNCHANGED gate
  <2>1. PICK r \in Reply :
          /\ command[c].at = "body" /\ command' = [command EXCEPT ![c] = r] /\ r.at = "over"
          /\ r.expected = command[c].expected /\ r.value = command[c].value
          /\ r.acts = command[c].acts /\ r.was = command[c].was
          /\ r.reply \in {command[c].reply, "400"}
    <3>1. CASE command' = [command EXCEPT ![c] = DeskReplied([command[c] EXCEPT !.at = "over", !.ended = TRUE], "400")]
      <4> DEFINE m == [command[c] EXCEPT !.at = "over", !.ended = TRUE]
      <4>1. /\ m \in Reply /\ m.expected = command[c].expected /\ m.value = command[c].value /\ m.at = "over"
            /\ m.reply = command[c].reply /\ m.acts = command[c].acts /\ m.was = command[c].was
        BY <1>1 DEF Reply
      <4>2. command' = [command EXCEPT ![c] = DeskReplied(m, "400")]
        BY <3>1
      <4> HIDE DEF m
      <4> DEFINE r == DeskReplied(m, "400")
      <4>3. /\ r \in Reply /\ r.expected = m.expected /\ r.value = m.value /\ r.at = m.at
            /\ r.acts = m.acts /\ r.was = m.was /\ r.reply \in {m.reply, "400"}
        BY <4>1, RepliedRecord DEF Code
      <4> HIDE DEF r
      <4>4. command[c].at = "body" /\ command' = [command EXCEPT ![c] = r]
        BY <1>4, <4>2 DEF BodyEnds, r
      <4> QED BY <4>1, <4>3, <4>4
    <3>2. CASE command' = [command EXCEPT ![c].at = "over"]
      <4> DEFINE m == [command[c] EXCEPT !.at = "over"]
      <4>1. /\ m \in Reply /\ m.expected = command[c].expected /\ m.value = command[c].value /\ m.at = "over"
            /\ m.reply = command[c].reply /\ m.acts = command[c].acts /\ m.was = command[c].was
        BY <1>1 DEF Reply
      <4>2. command[c].at = "body" /\ command' = [command EXCEPT ![c] = m]
        BY <1>4, <3>2 DEF BodyEnds
      <4> HIDE DEF m
      <4> QED BY <4>1, <4>2
    <3>3. gate'.chain # Append(gate.chain, c)
      <4>1. gate.chain \in Seq(Command) /\ gate'.chain = gate.chain
        BY <1>1, <1>4
      <4>2. Len(Append(gate.chain, c)) = Len(gate.chain) + 1 /\ Len(gate.chain) \in Nat
        BY <4>1, AppendProperties, LenProperties
      <4> QED BY <4>1, <4>2
    <3>4. gate' # [gate EXCEPT !.chain = Append(@, c)]
      BY <1>1, <3>3
    <3> QED BY <1>4, <3>1, <3>2, <3>4 DEF BodyEnds
  <2>2. ActsOnce(r) /\ Truthful(r)
    <3> DEFINE old == command[c]
    <3>0. ActsOnce(old) /\ old.at = "body"
      BY <1>1, <2>1
    <3> HIDE DEF old
    <3>1. ActsOnce(r)
      <4>1. old.acts = 0 /\ old.value \in DeskValue
        BY <3>0 DEF ActsOnce
      <4>2. r.at = "over" /\ r.acts = 0 /\ r.value \in DeskValue
        BY <2>1, <4>1 DEF old
      <4> QED BY <4>2 DEF ActsOnce
    <3>2. Truthful(r)
      BY <1>1, <2>1 DEF Truthful
    <3> QED BY <3>1, <3>2
  <2>3. UNCHANGED <<kind, gate, session, deskPage>> /\ r.at # "probing"
    BY <1>4, <2>1 DEF BodyEnds
  <2> QED BY <2>1, <2>2, <2>3, OneReply
<1>5. CASE BodyEnds(c) /\ ~UNCHANGED gate
  <2>1. /\ command[c].at = "body" /\ ~command[c].ended
        /\ command' = [command EXCEPT ![c] = [command[c] EXCEPT !.at = "asked", !.ended = TRUE, !.acts = command[c].acts + 1]]
        /\ gate' = [gate EXCEPT !.chain = Append(gate.chain, c)]
        /\ UNCHANGED <<kind, session, deskPage>>
    BY <1>5 DEF BodyEnds, DeskActs
  <2>2. command[c].acts = 0 /\ command[c].acts + 1 = 1
    BY <1>1, <2>1 DEF ActsOnce
  <2> DEFINE r == [command[c] EXCEPT !.at = "asked", !.ended = TRUE, !.acts = 1]
  <2>3. /\ r \in Reply /\ r.expected = command[c].expected /\ r.value = command[c].value /\ r.at = "asked"
        /\ r.reply = command[c].reply /\ r.acts = 1 /\ r.was = command[c].was
    BY <1>1, <2>2 DEF Reply
  <2>4. command' = [command EXCEPT ![c] = r]
    BY <2>1, <2>2
  <2> HIDE DEF r
  <2>5. ActsOnce(r) /\ Truthful(r)
    BY <1>1, <2>1, <2>3 DEF ActsOnce, Truthful
  <2>6. /\ gate.chain \in Seq(Command) /\ Append(gate.chain, c) \in Seq(Command)
        /\ gate'.chain = Append(gate.chain, c) /\ gate'.value = gate.value
        /\ gate' \in [value : DeskValue, past : SUBSET DeskValue, chain : Seq(Command)]
    <3>1. gate.chain \in Seq(Command)
      BY <1>1
    <3>2. Append(gate.chain, c) \in Seq(Command)
      BY <3>1, AppendProperties
    <3> DEFINE q == Append(gate.chain, c)
    <3>3. q \in Seq(Command) /\ gate' = [gate EXCEPT !.chain = q]
      BY <2>1, <3>2
    <3> HIDE DEF q
    <3>4. gate'.chain = q /\ gate'.value = gate.value
          /\ gate' \in [value : DeskValue, past : SUBSET DeskValue, chain : Seq(Command)]
      BY <1>1, <3>3
    <3> QED BY <3>1, <3>2, <3>4 DEF q
  <2>7. ASSUME NEW d \in Command, Turn(d) PROVE Turn(d)'
    <3>1. gate.chain # << >> /\ Head(gate.chain) = d
      BY <2>7 DEF Turn
    <3>2. Head(Append(gate.chain, c)) = d /\ Append(gate.chain, c) # << >>
      <4>1. Len(gate.chain) \in Nat \ {0} /\ gate.chain[1] = d
        BY <2>6, <3>1, EmptySeq, LenProperties
      <4>2. /\ Append(gate.chain, c) # << >>
            /\ Append(gate.chain, c)[1] = gate.chain[1]
        BY <2>6, <4>1, AppendProperties
      <4> QED BY <2>6, <4>1, <4>2
    <3> QED BY <2>6, <3>2 DEF Turn
  <2>8. \A d \in Command \ {c} : command[d].at = "probing" => Turn(d)' /\ gate'.value = gate.value
    BY <2>6, <2>7 DEF DeskInv, Checked
  <2>9. Checked(c)'
    <3>1. command'[c] = r
      BY <1>1, <2>4
    <3> QED BY <2>3, <3>1 DEF Checked
  <2> QED BY <2>1, <2>3, <2>4, <2>5, <2>6, <2>8, <2>9, OneCommand
<1> QED BY <1>2, <1>3, <1>4, <1>5

\* The gate: only the first of its chain is worked on.
LEMMA GateStep ==
  ASSUME DeskGiven, DeskInv, NEW c \in Command, CoreRefuses(c) \/ CoreProbes(c) \/ CoreCommits(c)
  PROVE  DeskInv'
<1>1. /\ command \in [Command -> Reply] /\ command[c] \in Reply /\ ActsOnce(command[c]) /\ Truthful(command[c])
      /\ Checked(c) /\ gate.value \in DeskValue /\ gate.chain \in Seq(Command)
      /\ gate \in [value : DeskValue, past : SUBSET DeskValue, chain : Seq(Command)]
  BY DEF DeskInv, DeskTyped
<1>2. Turn(c) /\ UNCHANGED <<kind, session, deskPage>>
  BY DEF CoreRefuses, CoreProbes, CoreCommits
<1>3. \A d \in Command \ {c} : command[d].at # "probing"
  BY <1>2 DEF DeskInv, Checked, Turn
<1>4. Tail(gate.chain) \in Seq(Command)
  BY <1>1, <1>2, HeadTailProperties DEF Turn
<1> DEFINE rest == Tail(gate.chain)
<1>5. rest \in Seq(Command)
  BY <1>4
<1>6. CASE CoreProbes(c)
  <2>1. /\ command[c].at = "asked" /\ kind = "context" /\ Fenced(command[c])
        /\ command' = [command EXCEPT ![c] = [command[c] EXCEPT !.at = "probing"]]
        /\ UNCHANGED gate
    BY <1>6 DEF CoreProbes
  <2> DEFINE r == [command[c] EXCEPT !.at = "probing"]
  <2>2. /\ r \in Reply /\ r.expected = command[c].expected /\ r.value = command[c].value /\ r.at = "probing"
        /\ r.ended = command[c].ended /\ r.reply = command[c].reply /\ r.acts = command[c].acts
        /\ r.was = command[c].was
    BY <1>1 DEF Reply
  <2>3. command' = [command EXCEPT ![c] = r]
    BY <2>1
  <2> HIDE DEF r
  <2>4. ActsOnce(r) /\ Truthful(r)
    BY <1>1, <2>1, <2>2 DEF ActsOnce, Truthful
  <2>5. r.expected = gate.value
    BY <2>1, <2>2 DEF Fenced
  <2> QED BY <1>2, <2>1, <2>2, <2>3, <2>4, <2>5, OneReply
<1>7. CASE CoreRefuses(c)
  <2>1. /\ command[c].at \in {"asked", "probing"}
        /\ command' = [command EXCEPT ![c] = DeskReplied([command[c] EXCEPT !.at = "over"], "400")]
        /\ gate' = [gate EXCEPT !.chain = rest]
    BY <1>7 DEF CoreRefuses, Leaves
  <2> HIDE DEF rest
  <2>2. gate' \in [value : DeskValue, past : SUBSET DeskValue, chain : Seq(Command)]
    BY <1>1, <1>5, <2>1
  <2> DEFINE m == [command[c] EXCEPT !.at = "over"]
             r == DeskReplied(m, "400")
  <2>3. /\ m \in Reply /\ m.expected = command[c].expected /\ m.value = command[c].value /\ m.at = "over"
        /\ m.reply = command[c].reply /\ m.acts = command[c].acts /\ m.was = command[c].was
    BY <1>1 DEF Reply
  <2> HIDE DEF m
  <2>4. /\ r \in Reply /\ r.expected = m.expected /\ r.value = m.value /\ r.at = m.at
        /\ r.acts = m.acts /\ r.was = m.was /\ r.reply \in {m.reply, "400"}
    BY <2>3, RepliedRecord DEF Code
  <2>5. command' = [command EXCEPT ![c] = r]
    BY <2>1 DEF m
  <2> HIDE DEF r
  <2>6. ActsOnce(r) /\ Truthful(r)
    BY <1>1, <2>1, <2>3, <2>4 DEF ActsOnce, Truthful
  <2>7. Checked(c)'
    <3>1. command'[c] = r
      BY <1>1, <2>5
    <3> QED BY <2>3, <2>4, <3>1 DEF Checked
  <2> QED BY <1>2, <1>3, <2>2, <2>4, <2>5, <2>6, <2>7, OneCommand
<1>8. CASE CoreCommits(c)
  <2>1. /\ command[c].at \in {"asked", "probing"} /\ (kind = "toggle" \/ command[c].expected = gate.value)
        /\ command' = [command EXCEPT ![c] = DeskReplied([command[c] EXCEPT !.at = "over", !.was = gate.value], "200")]
        /\ gate' = [[gate EXCEPT !.chain = rest] EXCEPT !.value = command[c].value, !.past = @ \cup {command[c].value}]
    BY <1>1, <1>8 DEF CoreCommits, DeskCommitted, Leaves, Fenced, Checked
  <2> HIDE DEF rest
  <2>2. command[c].value \in DeskValue /\ command[c].acts = 1
    BY <1>1, <2>1 DEF ActsOnce
  <2>3. gate' \in [value : DeskValue, past : SUBSET DeskValue, chain : Seq(Command)]
    <3>1. [gate EXCEPT !.chain = rest] \in [value : DeskValue, past : SUBSET DeskValue, chain : Seq(Command)]
      BY <1>1, <1>5
    <3> QED BY <2>1, <2>2, <3>1
  <2> DEFINE m == [command[c] EXCEPT !.at = "over", !.was = gate.value]
             r == DeskReplied(m, "200")
  <2>4. /\ m \in Reply /\ m.expected = command[c].expected /\ m.value = command[c].value /\ m.at = "over"
        /\ m.reply = command[c].reply /\ m.acts = command[c].acts /\ m.was = gate.value
    BY <1>1 DEF Reply, Known
  <2> HIDE DEF m
  <2>5. /\ r \in Reply /\ r.expected = m.expected /\ r.value = m.value /\ r.at = m.at
        /\ r.acts = m.acts /\ r.was = m.was /\ r.reply \in {m.reply, "200"}
    BY <2>4, RepliedRecord DEF Code
  <2>6. command' = [command EXCEPT ![c] = r]
    BY <2>1 DEF m
  <2> HIDE DEF r
  <2>7. ActsOnce(r) /\ Truthful(r)
    BY <1>1, <2>1, <2>2, <2>4, <2>5 DEF ActsOnce, Truthful, DeskGiven
  <2>8. Checked(c)'
    <3>1. command'[c] = r
      BY <1>1, <2>6
    <3> QED BY <2>4, <2>5, <3>1 DEF Checked
  <2> QED BY <1>2, <1>3, <2>3, <2>5, <2>6, <2>7, <2>8, OneCommand
<1> QED BY <1>6, <1>7, <1>8

\* No change of another operator is lost, no command acts twice, none that was refused acts at
\* all, and only what was done is answered so, for any pages, values, restarts and commands
\* (gateway.mjs: the fences of the setters, and serialize).
THEOREM DeskCorrect == ASSUME DeskGiven PROVE DeskSpec => []DeskSound
<1>1. DeskInv /\ UNCHANGED deskVars => DeskInv'
  <2> SUFFICES ASSUME DeskInv, UNCHANGED deskVars PROVE DeskInv'
    OBVIOUS
  <2>1. UNCHANGED <<kind, gate, session, deskPage, command>>
    BY DEF deskVars
  <2> QED BY <2>1 DEF DeskInv, DeskTyped, ActsOnce, Truthful, Checked, Turn
<1>2. DeskInv /\ DeskNext => DeskInv'
  BY PageStep, SubmitStep, HearStep, DashboardStep, GateStep DEF DeskNext
<1>3. DeskInv => DeskSound
  BY DEF DeskInv, DeskTyped, DeskSound, ActsOnce, Truthful, Reply
<1> QED BY <1>1, <1>2, <1>3, DeskInitial, PTL DEF DeskSpec

-----------------------------------------------------------------------------
(* The evidence of requests, for any requests, workers, bounds and losses. *)

EvidenceSpec == EvidenceInit /\ [][EvidenceNext]_evidenceVars

\* A write takes a natural number of rows (dataset.mjs: the default is 32).
BatchGiven == Batch \in Nat

Life == [node : EvNode, moves : Seq(EvNode \X EvNode), step : {"queued", "dispatched", "finished"}]
Row == [kind : {"queue_relocation", "dispatch", "finish"}, request : EvRequest, node : EvNode,
        source : EvNode \cup {"none"}]
Joined == [request : EvRequest, source : EvNode \cup {"none"}, destination : EvNode,
           dispatch : BOOLEAN, finish : BOOLEAN]

\* What a row tells of its request is so, and stays so: a request is not moved after it
\* is dispatched, and the moves it made are not taken back.
RowTrue(row) == LET l == life[row.request] IN
  /\ row.kind = "queue_relocation" => \E i \in DOMAIN l.moves : l.moves[i] = <<row.source, row.node>>
  /\ row.kind = "dispatch" => l.node = row.node /\ l.step # "queued"
  /\ row.kind = "finish" => l.node = row.node /\ l.step = "finished"
TrueRows == {row \in Row : RowTrue(row)}

\* The same of a record of the join.
RecordTrue(j) == LET l == life[j.request] IN
  /\ \E i \in DOMAIN l.moves : l.moves[i] = <<j.source, j.destination>>
  /\ j.dispatch => l.node = j.destination /\ l.step # "queued"
  /\ j.finish => j.dispatch /\ l.step = "finished"
TrueRecords == {j \in Joined : RecordTrue(j)}

Dataset(S) == [queue : Seq(S), lines : Seq(S), writing : BOOLEAN, error : BOOLEAN, closed : BOOLEAN,
               recorded : Nat, written : Nat, dropped : Nat]

\* Every row is accounted for, and while any is held back a writer is at work.
Counted(d) == d.recorded = d.written + d.dropped + Len(d.queue) + Len(d.lines)
Served(d) == ~d.writing => d.queue = <<>> /\ d.lines = <<>>

EvidenceInv ==
  /\ life \in [EvRequest -> Life]
  /\ ds \in Dataset(TrueRows) /\ Counted(ds) /\ Served(ds)
  /\ stored \in Seq(TrueRows)
  /\ join \in [at : Nat, records : Seq(TrueRecords), rescans : Nat]

LEMMA SeqWider == ASSUME NEW S, NEW T, S \subseteq T, NEW s \in Seq(S) PROVE s \in Seq(T)
<1>1. /\ s \in [1..Len(s) -> S] /\ Len(s) \in Nat
  OBVIOUS
<1>2. s \in [1..Len(s) -> T]
  BY <1>1
<1> QED BY <1>1, <1>2

LEMMA SeqSlice ==
  ASSUME NEW S, NEW s \in Seq(S), NEW m \in 1..(Len(s) + 1), NEW n \in 0..Len(s)
  PROVE  /\ SubSeq(s, m, n) \in Seq(S)
         /\ Len(SubSeq(s, m, n)) = IF m <= n THEN n - m + 1 ELSE 0
<1>1. \A i \in m..n : s[i] \in S
  <2> TAKE i \in m..n
  <2>1. i \in 1..Len(s)
    OBVIOUS
  <2> QED BY <2>1
<1> QED BY <1>1, SubSeqProperties

LEMMA EvidenceInitial == EvidenceInit => EvidenceInv
<1> SUFFICES ASSUME EvidenceInit PROVE EvidenceInv
  OBVIOUS
<1> DEFINE e == <<>>
<1>1. e \in Seq(TrueRows) /\ e \in Seq(TrueRecords) /\ e \in Seq(EvNode \X EvNode) /\ Len(e) = 0
  OBVIOUS
<1>2. /\ life \in [EvRequest -> {[node |-> n, moves |-> e, step |-> "queued"] : n \in EvNode}]
      /\ ds = [queue |-> e, lines |-> e, writing |-> FALSE, error |-> FALSE, closed |-> FALSE,
               recorded |-> 0, written |-> 0, dropped |-> 0]
      /\ stored = e /\ join = [at |-> 0, records |-> e, rescans |-> 0]
  BY DEF EvidenceInit
<1>3. ds.queue = <<>> /\ ds.lines = <<>>
  BY <1>2
<1> HIDE DEF e
<1>4. life \in [EvRequest -> Life]
  <2>1. ASSUME NEW n \in EvNode PROVE [node |-> n, moves |-> e, step |-> "queued"] \in Life
    BY <1>1 DEF Life
  <2> QED BY <1>2, <2>1
<1>5. ds \in Dataset(TrueRows) /\ Counted(ds)
  BY <1>1, <1>2 DEF Dataset, Counted
<1>6. join \in [at : Nat, records : Seq(TrueRecords), rescans : Nat]
  BY <1>1, <1>2
<1> QED BY <1>1, <1>2, <1>3, <1>4, <1>5, <1>6 DEF EvidenceInv, Served

\* A row that is recorded waits, is dropped at the bound, or comes after the close.
LEMMA RecordedKept ==
  ASSUME NEW S, NEW row \in S, ds \in Dataset(S), Counted(ds), Served(ds), Recorded(row)
  PROVE  ds' \in Dataset(S) /\ Counted(ds') /\ Served(ds')
<1>1. CASE ds.closed
  BY <1>1 DEF Recorded
<1>2. CASE ~ds.closed /\ Len(ds.queue) >= MaxPending
  <2>1. ds' = [ds EXCEPT !.recorded = ds.recorded + 1, !.dropped = ds.dropped + 1]
    BY <1>2 DEF Recorded
  <2>2. ds' \in Dataset(S)
    <3>1. ds.recorded + 1 \in Nat /\ ds.dropped + 1 \in Nat
      BY DEF Dataset
    <3> QED BY <2>1, <3>1 DEF Dataset
  <2>3. /\ ds'.queue = ds.queue /\ ds'.lines = ds.lines /\ ds'.recorded = ds.recorded + 1
        /\ ds'.written = ds.written /\ ds'.dropped = ds.dropped + 1 /\ ds'.writing = ds.writing
    BY <2>1 DEF Dataset
  <2> QED BY <2>2, <2>3 DEF Dataset, Counted, Served
<1>3. CASE ~ds.closed /\ ~(Len(ds.queue) >= MaxPending)
  <2> DEFINE more == Append(ds.queue, row)
  <2>1. ds' = [ds EXCEPT !.recorded = ds.recorded + 1, !.queue = more, !.writing = TRUE]
    BY <1>3 DEF Recorded
  <2>2. more \in Seq(S) /\ Len(more) = Len(ds.queue) + 1
    BY DEF Dataset
  <2> HIDE DEF more
  <2>3. ds' \in Dataset(S)
    <3>1. ds.recorded + 1 \in Nat
      BY DEF Dataset
    <3> QED BY <2>1, <2>2, <3>1 DEF Dataset
  <2>4. /\ ds'.queue = more /\ ds'.lines = ds.lines /\ ds'.recorded = ds.recorded + 1
        /\ ds'.written = ds.written /\ ds'.dropped = ds.dropped /\ ds'.writing = TRUE
    BY <2>1 DEF Dataset
  <2>5. Counted(ds')
    BY <2>2, <2>4 DEF Dataset, Counted
  <2> QED BY <2>3, <2>4, <2>5 DEF Served
<1> QED BY <1>1, <1>2, <1>3

\* What is true of requests stays true as they go on.
LEMMA TruthLasts ==
  ASSUME life \in [EvRequest -> Life], NEW r \in EvRequest, NEW l \in Life,
         life' = [life EXCEPT ![r] = l],
         \/ /\ life[r].step = "queued"
            /\ \A i \in DOMAIN life[r].moves : i \in DOMAIN l.moves /\ l.moves[i] = life[r].moves[i]
         \/ /\ life[r].step = "dispatched" /\ l.step # "queued"
            /\ l.node = life[r].node /\ l.moves = life[r].moves
  PROVE  TrueRows \subseteq TrueRows' /\ TrueRecords \subseteq TrueRecords'
<1>1. life'[r] = l /\ \A q \in EvRequest \ {r} : life'[q] = life[q]
  OBVIOUS
<1>2. \A row \in Row : RowTrue(row) => RowTrue(row)'
  <2> TAKE row \in Row
  <2>1. CASE row.request # r
    BY <1>1, <2>1 DEF Row, RowTrue
  <2>2. CASE row.request = r
    <3>1. life'[row.request] = l /\ life[row.request] = life[r]
      BY <1>1, <2>2
    <3> QED BY <3>1 DEF Row, RowTrue
  <2> QED BY <2>1, <2>2
<1>3. \A j \in Joined : RecordTrue(j) => RecordTrue(j)'
  <2> TAKE j \in Joined
  <2>1. CASE j.request # r
    BY <1>1, <2>1 DEF Joined, RecordTrue
  <2>2. CASE j.request = r
    <3>1. life'[j.request] = l /\ life[j.request] = life[r]
      BY <1>1, <2>2
    <3> QED BY <3>1 DEF Joined, RecordTrue
  <2> QED BY <2>1, <2>2
<1>4. Row' = Row /\ Joined' = Joined
  BY DEF Row, Joined
<1> QED BY <1>2, <1>3, <1>4 DEF TrueRows, TrueRecords

\* A request goes on and a true row of it is recorded.
LEMMA LifeStep ==
  ASSUME EvidenceInv, NEW r \in EvRequest, NEW l \in Life, life' = [life EXCEPT ![r] = l],
         TrueRows \subseteq TrueRows', TrueRecords \subseteq TrueRecords',
         NEW row \in Row, RowTrue(row)', Recorded(row), UNCHANGED <<stored, join>>
  PROVE  EvidenceInv'
<1>1. life' \in [EvRequest -> Life]
  BY DEF EvidenceInv
<1>2. row \in TrueRows'
  BY DEF TrueRows, Row
<1>3. ds \in Dataset(TrueRows')
  <2>1. ds.queue \in Seq(TrueRows') /\ ds.lines \in Seq(TrueRows')
    BY SeqWider DEF EvidenceInv, Dataset
  <2> QED BY <2>1 DEF EvidenceInv, Dataset
<1>4. ds' \in Dataset(TrueRows') /\ Counted(ds') /\ Served(ds')
  BY <1>2, <1>3, RecordedKept DEF EvidenceInv
<1>5. stored' \in Seq(TrueRows')
  BY SeqWider DEF EvidenceInv
<1>6. join' \in [at : Nat, records : Seq(TrueRecords'), rescans : Nat]
  <2>1. join.records \in Seq(TrueRecords')
    BY SeqWider DEF EvidenceInv
  <2> QED BY <2>1 DEF EvidenceInv
<1>7. Life' = Life /\ EvRequest' = EvRequest
  BY DEF Life
<1> QED BY <1>1, <1>4, <1>5, <1>6, <1>7 DEF EvidenceInv, Dataset, Counted, Served, Life

LEMMA MoveStep ==
  ASSUME EvidenceInv, NEW r \in EvRequest, NEW to \in EvNode, MovesRequest(r, to)
  PROVE  EvidenceInv'
<1> DEFINE way == <<life[r].node, to>>
           more == Append(life[r].moves, way)
           l == [life[r] EXCEPT !.node = to, !.moves = more]
<1> PICK row : row = EvidenceRow("queue_relocation", r, to, life[r].node)
  OBVIOUS
<1>1. life \in [EvRequest -> Life] /\ life[r] \in Life
  BY DEF EvidenceInv
<1>2. /\ life[r].step = "queued" /\ life' = [life EXCEPT ![r] = l]
      /\ Recorded(row) /\ UNCHANGED <<stored, join>>
  BY <1>1 DEF MovesRequest
<1>3. /\ more \in Seq(EvNode \X EvNode) /\ Len(more) = Len(life[r].moves) + 1
      /\ more[Len(more)] = way /\ Len(more) \in DOMAIN more
      /\ \A i \in DOMAIN life[r].moves : i \in DOMAIN more /\ more[i] = life[r].moves[i]
  <2>1. way \in EvNode \X EvNode /\ life[r].moves \in Seq(EvNode \X EvNode)
    BY <1>1 DEF Life
  <2> HIDE DEF way
  <2> QED BY <2>1
<1>4. row \in Row /\ row.kind = "queue_relocation" /\ row.request = r /\ row.node = to /\ row.source = life[r].node
  BY <1>1 DEF EvidenceRow, Row, Life
<1> HIDE DEF more
<1>5. l \in Life /\ l.moves = more
  BY <1>1, <1>3 DEF Life
<1> HIDE DEF l
<1>6. TrueRows \subseteq TrueRows' /\ TrueRecords \subseteq TrueRecords'
  BY <1>1, <1>2, <1>3, <1>5, TruthLasts
<1>7. RowTrue(row)'
  <2>1. life'[r] = l
    BY <1>1, <1>2
  <2> PICK i : i = Len(more)
    OBVIOUS
  <2>2. l.moves[i] = <<row.source, row.node>> /\ i \in DOMAIN l.moves
    BY <1>3, <1>4, <1>5
  <2> QED BY <1>4, <2>1, <2>2 DEF RowTrue
<1> QED BY <1>2, <1>4, <1>5, <1>6, <1>7, LifeStep

LEMMA DispatchedStep == ASSUME EvidenceInv, NEW r \in EvRequest, DispatchesRequest(r) PROVE EvidenceInv'
<1> DEFINE l == [life[r] EXCEPT !.step = "dispatched"]
<1> PICK row : row = EvidenceRow("dispatch", r, life[r].node, "none")
  OBVIOUS
<1>1. life \in [EvRequest -> Life] /\ life[r] \in Life
  BY DEF EvidenceInv
<1>2. /\ life[r].step = "queued" /\ life' = [life EXCEPT ![r] = l]
      /\ Recorded(row) /\ UNCHANGED <<stored, join>>
  BY <1>1 DEF DispatchesRequest
<1>3. row \in Row /\ row.kind = "dispatch" /\ row.request = r /\ row.node = life[r].node
  BY <1>1 DEF EvidenceRow, Row, Life
<1>4. l \in Life /\ l.moves = life[r].moves /\ l.node = life[r].node /\ l.step = "dispatched"
  BY <1>1 DEF Life
<1> HIDE DEF l
<1>5. TrueRows \subseteq TrueRows' /\ TrueRecords \subseteq TrueRecords'
  BY <1>1, <1>2, <1>4, TruthLasts
<1>6. RowTrue(row)'
  <2>1. life'[r] = l
    BY <1>1, <1>2
  <2> QED BY <1>3, <1>4, <2>1 DEF RowTrue
<1> QED BY <1>2, <1>3, <1>4, <1>5, <1>6, LifeStep

LEMMA FinishedStep == ASSUME EvidenceInv, NEW r \in EvRequest, FinishesRequest(r) PROVE EvidenceInv'
<1> DEFINE l == [life[r] EXCEPT !.step = "finished"]
<1> PICK row : row = EvidenceRow("finish", r, life[r].node, "none")
  OBVIOUS
<1>1. life \in [EvRequest -> Life] /\ life[r] \in Life
  BY DEF EvidenceInv
<1>2. /\ life[r].step = "dispatched" /\ life' = [life EXCEPT ![r] = l]
      /\ Recorded(row) /\ UNCHANGED <<stored, join>>
  BY <1>1 DEF FinishesRequest
<1>3. row \in Row /\ row.kind = "finish" /\ row.request = r /\ row.node = life[r].node
  BY <1>1 DEF EvidenceRow, Row, Life
<1>4. l \in Life /\ l.moves = life[r].moves /\ l.node = life[r].node /\ l.step = "finished"
  BY <1>1 DEF Life
<1> HIDE DEF l
<1>5. TrueRows \subseteq TrueRows' /\ TrueRecords \subseteq TrueRecords'
  BY <1>1, <1>2, <1>4, TruthLasts
<1>6. RowTrue(row)'
  <2>1. life'[r] = l
    BY <1>1, <1>2
  <2> QED BY <1>3, <1>4, <2>1 DEF RowTrue
<1> QED BY <1>2, <1>3, <1>4, <1>5, <1>6, LifeStep

\* A step of the dataset's writer or of its reader leaves the requests alone.
LEMMA RowsStay == ASSUME life' = life PROVE TrueRows' = TrueRows /\ TrueRecords' = TrueRecords
BY DEF TrueRows, TrueRecords, RowTrue, RecordTrue, Row, Joined

LEMMA Smallest == ASSUME NEW a \in Nat, NEW b \in Nat PROVE Min({a, b}) \in {a, b} /\ Min({a, b}) <= b
<1>1. \E x \in {a, b} : \A y \in {a, b} : x <= y
  OBVIOUS
<1>2. /\ Min({a, b}) \in {a, b} /\ \A y \in {a, b} : Min({a, b}) <= y
  BY <1>1 DEF Min
<1> QED BY <1>2

LEMMA TakeStep == ASSUME BatchGiven, EvidenceInv, TakesBatch PROVE EvidenceInv'
<1> DEFINE n == Min({Batch, Len(ds.queue)})
           rest == SubSeq(ds.queue, n + 1, Len(ds.queue))
           taken == SubSeq(ds.queue, 1, n)
<1>1. /\ ds \in Dataset(TrueRows) /\ ds.queue \in Seq(TrueRows) /\ Len(ds.queue) \in Nat
  BY DEF EvidenceInv, Dataset
<1>2. n \in 0..Len(ds.queue)
  BY <1>1, Smallest DEF BatchGiven
<1>3. /\ ds.writing /\ ds.lines = <<>>
      /\ \/ ds' = [ds EXCEPT !.queue = rest, !.error = TRUE, !.dropped = ds.dropped + n]
         \/ ds' = [ds EXCEPT !.queue = rest, !.lines = taken]
      /\ UNCHANGED <<life, stored, join>>
  BY DEF TakesBatch
<1> HIDE DEF n
<1>4. /\ rest \in Seq(TrueRows) /\ Len(rest) = Len(ds.queue) - n
      /\ taken \in Seq(TrueRows) /\ Len(taken) = n
  BY <1>1, <1>2, SeqSlice
<1>5. Len(ds.lines) = 0
  BY <1>3
<1> HIDE DEF rest, taken
<1>6. ds' \in Dataset(TrueRows) /\ Counted(ds') /\ Served(ds')
  <2>1. CASE ds' = [ds EXCEPT !.queue = rest, !.error = TRUE, !.dropped = ds.dropped + n]
    <3>1. ds' \in Dataset(TrueRows)
      <4>1. ds.dropped + n \in Nat
        BY <1>1, <1>2 DEF Dataset
      <4> QED BY <1>1, <1>4, <2>1, <4>1 DEF Dataset
    <3>2. /\ ds'.queue = rest /\ ds'.lines = ds.lines /\ ds'.recorded = ds.recorded
          /\ ds'.written = ds.written /\ ds'.dropped = ds.dropped + n /\ ds'.writing = ds.writing
      BY <1>1, <2>1 DEF Dataset
    <3> QED BY <1>1, <1>2, <1>3, <1>4, <1>5, <3>1, <3>2 DEF EvidenceInv, Dataset, Counted, Served
  <2>2. CASE ds' = [ds EXCEPT !.queue = rest, !.lines = taken]
    <3>1. ds' \in Dataset(TrueRows)
      BY <1>1, <1>4, <2>2 DEF Dataset
    <3>2. /\ ds'.queue = rest /\ ds'.lines = taken /\ ds'.recorded = ds.recorded
          /\ ds'.written = ds.written /\ ds'.dropped = ds.dropped /\ ds'.writing = ds.writing
      BY <1>1, <2>2 DEF Dataset
    <3> QED BY <1>1, <1>2, <1>3, <1>4, <1>5, <3>1, <3>2 DEF EvidenceInv, Dataset, Counted, Served
  <2> QED BY <1>3, <2>1, <2>2
<1> QED BY <1>3, <1>6, RowsStay DEF EvidenceInv, Dataset, Life

\* A batch that is over, written or not, is counted.
LEMMA LinesOver ==
  ASSUME EvidenceInv, ds.lines # <<>>, NEW w \in Nat, NEW x \in Nat,
         ds.recorded = w + x + Len(ds.queue),
         ds' \in Dataset(TrueRows), ds'.queue = ds.queue, ds'.lines = <<>>, ds'.recorded = ds.recorded,
         ds'.written = w, ds'.dropped = x, ds'.writing = ds.writing
  PROVE  Counted(ds') /\ Served(ds')
<1>1. ds \in Dataset(TrueRows) /\ ds.writing
  BY DEF EvidenceInv, Served, Dataset
<1>2. Len(ds'.lines) = 0
  OBVIOUS
<1>3. Len(ds.queue) \in Nat
  BY <1>1 DEF Dataset
<1>4. Counted(ds')
  BY <1>2, <1>3 DEF Counted
<1> QED BY <1>1, <1>4 DEF Served

LEMMA WriteStep == ASSUME EvidenceInv, WritesBatch PROVE EvidenceInv'
<1> DEFINE e == <<>>
<1>1. ds \in Dataset(TrueRows) /\ ds.lines \in Seq(TrueRows) /\ stored \in Seq(TrueRows)
  BY DEF EvidenceInv, Dataset
<1>2. PICK w : w = ds.written + Len(ds.lines)
  OBVIOUS
<1>3. /\ ds.lines # <<>> /\ stored' = stored \o ds.lines /\ UNCHANGED <<life, join>>
      /\ ds' = [ds EXCEPT !.lines = e, !.written = w]
  BY <1>2 DEF WritesBatch
<1>4. e \in Seq(TrueRows) /\ e = <<>>
  OBVIOUS
<1> HIDE DEF e
<1>5. w \in Nat /\ ds.dropped \in Nat /\ ds.recorded = w + ds.dropped + Len(ds.queue)
  BY <1>1, <1>2 DEF EvidenceInv, Dataset, Counted
<1>6. /\ ds' \in Dataset(TrueRows)
      /\ ds'.queue = ds.queue /\ ds'.lines = e /\ ds'.recorded = ds.recorded
      /\ ds'.written = w /\ ds'.dropped = ds.dropped /\ ds'.writing = ds.writing
  BY <1>1, <1>3, <1>4, <1>5 DEF Dataset
<1>7. Counted(ds') /\ Served(ds')
  BY <1>3, <1>4, <1>5, <1>6, LinesOver
<1>8. stored' \in Seq(TrueRows)
  BY <1>1, <1>3
<1> QED BY <1>3, <1>6, <1>7, <1>8, RowsStay DEF EvidenceInv, Dataset, Life

LEMMA FailStep == ASSUME EvidenceInv, BatchFails PROVE EvidenceInv'
<1> DEFINE e == <<>>
<1>1. ds \in Dataset(TrueRows) /\ ds.lines \in Seq(TrueRows) /\ stored \in Seq(TrueRows)
  BY DEF EvidenceInv, Dataset
<1>2. PICK x : x = ds.dropped + Len(ds.lines)
  OBVIOUS
<1>3. /\ ds.lines # <<>> /\ UNCHANGED <<life, join>>
      /\ ds' = [ds EXCEPT !.lines = e, !.error = TRUE, !.dropped = x]
  BY <1>2 DEF BatchFails
<1>4. PICK n \in 0..Len(ds.lines) : stored' = stored \o SubSeq(ds.lines, 1, n)
  BY DEF BatchFails
<1>5. e \in Seq(TrueRows) /\ e = <<>>
  OBVIOUS
<1> HIDE DEF e
<1>6. x \in Nat /\ ds.written \in Nat /\ ds.recorded = ds.written + x + Len(ds.queue)
  <2>1. ds.dropped \in Nat /\ ds.written \in Nat /\ ds.queue \in Seq(TrueRows)
    BY <1>1 DEF Dataset
  <2>2. Len(ds.lines) \in Nat /\ Len(ds.queue) \in Nat
    BY <1>1, <2>1
  <2>3. Counted(ds)
    BY DEF EvidenceInv
  <2> QED BY <1>2, <2>1, <2>2, <2>3 DEF Counted
<1>7. /\ ds' \in Dataset(TrueRows)
      /\ ds'.queue = ds.queue /\ ds'.lines = e /\ ds'.recorded = ds.recorded
      /\ ds'.written = ds.written /\ ds'.dropped = x /\ ds'.writing = ds.writing
  BY <1>1, <1>3, <1>5, <1>6 DEF Dataset
<1>8. Counted(ds') /\ Served(ds')
  BY <1>3, <1>5, <1>6, <1>7, LinesOver
<1>9. stored' \in Seq(TrueRows)
  <2>1. SubSeq(ds.lines, 1, n) \in Seq(TrueRows)
    BY <1>1, <1>4, SeqSlice
  <2> QED BY <1>1, <1>4, <2>1
<1> QED BY <1>3, <1>7, <1>8, <1>9, RowsStay DEF EvidenceInv, Dataset, Life

LEMMA EndStep == ASSUME EvidenceInv, WriterEnds \/ ClosesDataset PROVE EvidenceInv'
<1>1. ds \in Dataset(TrueRows)
  BY DEF EvidenceInv
<1>2. UNCHANGED <<life, stored, join>>
  BY DEF WriterEnds, ClosesDataset
<1>3. ds' \in Dataset(TrueRows) /\ Counted(ds') /\ Served(ds')
  <2>1. CASE WriterEnds
    BY <1>1, <2>1 DEF EvidenceInv, WriterEnds, Dataset, Counted, Served
  <2>2. CASE ClosesDataset
    BY <1>1, <2>2 DEF EvidenceInv, ClosesDataset, Dataset, Counted, Served
  <2> QED BY <2>1, <2>2
<1> QED BY <1>2, <1>3, RowsStay DEF EvidenceInv, Dataset, Life

\* What the join makes of a true row is true, whatever rows it has missed.
LEMMA OpenedTrue ==
  ASSUME NEW js \in Seq(TrueRecords), NEW row \in TrueRows, row.kind = "queue_relocation"
  PROVE  Opened(js, row) \in Seq(TrueRecords)
<1> DEFINE j == [request |-> row.request, source |-> row.source, destination |-> row.node,
                 dispatch |-> FALSE, finish |-> FALSE]
           more == Append(js, j)
<1>1. j \in TrueRecords
  <2>1. j \in Joined
    BY DEF TrueRows, Row, Joined
  <2>2. RecordTrue(j)
    BY DEF TrueRows, RowTrue, RecordTrue
  <2> QED BY <2>1, <2>2 DEF TrueRecords
<1>2. Opened(js, row) \in {js, more, Tail(more)}
  BY DEF Opened
<1> HIDE DEF j
<1>3. more \in Seq(TrueRecords) /\ Len(more) = Len(js) + 1
  BY <1>1
<1>4. Tail(more) \in Seq(TrueRecords)
  <2>1. more # <<>>
    BY <1>3, EmptySeq
  <2> HIDE DEF more
  <2> QED BY <1>3, <2>1
<1> QED BY <1>2, <1>3, <1>4

LEMMA AcceptedTrue ==
  ASSUME NEW js \in Seq(TrueRecords), NEW row \in TrueRows
  PROVE  Accepts(js, row) \in Seq(TrueRecords)
<1>1. CASE row.kind = "queue_relocation"
  BY <1>1, OpenedTrue DEF Accepts
<1>2. CASE row.kind # "queue_relocation"
  <2> DEFINE fits(j) == j.destination = row.node /\ ~j.finish /\ (j.dispatch = (row.kind = "finish"))
             given == {i \in RecordOf(js, row.request) : ~fits(js[i])}
  <2>1. Accepts(js, row) = IF given # {} THEN RemoveAt(js, CHOOSE i \in given : TRUE)
                           ELSE [i \in 1..Len(js) |-> IF js[i].request # row.request THEN js[i]
                                                      ELSE [js[i] EXCEPT ![row.kind] = TRUE]]
    BY <1>2 DEF Accepts
  <2>2. CASE given # {}
    <3> DEFINE k == CHOOSE i \in given : TRUE
    <3>1. k \in 1..Len(js)
      <4>1. k \in given
        BY <2>2
      <4> QED BY <4>1 DEF RecordOf
    <3> HIDE DEF k
    <3>2. SubSeq(js, 1, k - 1) \in Seq(TrueRecords) /\ SubSeq(js, k + 1, Len(js)) \in Seq(TrueRecords)
      BY <3>1, SeqSlice
    <3>3. RemoveAt(js, k) \in Seq(TrueRecords)
      BY <3>2 DEF RemoveAt
    <3> QED BY <2>1, <2>2, <3>3 DEF k
  <2>3. CASE given = {}
    <3> DEFINE done(i) == IF js[i].request # row.request THEN js[i] ELSE [js[i] EXCEPT ![row.kind] = TRUE]
    <3>1. ASSUME NEW i \in 1..Len(js) PROVE done(i) \in TrueRecords
      <4>1. js[i] \in TrueRecords /\ js[i] \in Joined /\ RecordTrue(js[i])
        BY DEF TrueRecords
      <4>2. CASE js[i].request # row.request
        BY <4>1, <4>2
      <4>3. CASE js[i].request = row.request
        <5>1. fits(js[i])
          BY <2>3, <4>3 DEF RecordOf
        <5> DEFINE b == js[i]
                   m == [b EXCEPT ![row.kind] = TRUE]
        <5>2. done(i) = m
          BY <4>3
        <5>3. /\ b \in Joined /\ RecordTrue(b) /\ b.request = row.request /\ b.destination = row.node
              /\ ~b.finish /\ (b.dispatch <=> row.kind = "finish")
          BY <4>1, <4>3, <5>1 DEF Joined
        <5> HIDE DEF b
        <5>4. row \in Row /\ RowTrue(row) /\ row.kind \in {"dispatch", "finish"}
          BY <1>2 DEF TrueRows, Row
        <5>5. m \in TrueRecords
          <6>1. CASE row.kind = "dispatch"
            <7>1. m = [b EXCEPT !.dispatch = TRUE]
              BY <6>1
            <7>2. /\ m \in Joined /\ m.request = b.request /\ m.source = b.source
                  /\ m.destination = b.destination /\ m.dispatch = TRUE /\ m.finish = b.finish
              BY <5>3, <7>1 DEF Joined
            <7> HIDE DEF m
            <7>3. RecordTrue(m)
              BY <5>3, <5>4, <6>1, <7>2 DEF RowTrue, RecordTrue
            <7> QED BY <7>2, <7>3 DEF TrueRecords
          <6>2. CASE row.kind = "finish"
            <7>1. m = [b EXCEPT !.finish = TRUE]
              BY <6>2
            <7>2. /\ m \in Joined /\ m.request = b.request /\ m.source = b.source
                  /\ m.destination = b.destination /\ m.dispatch = b.dispatch /\ m.finish = TRUE
              BY <5>3, <7>1 DEF Joined
            <7> HIDE DEF m
            <7>3. RecordTrue(m)
              BY <5>3, <5>4, <6>2, <7>2 DEF RowTrue, RecordTrue
            <7> QED BY <7>2, <7>3 DEF TrueRecords
          <6> QED BY <5>4, <6>1, <6>2
        <5> QED BY <5>2, <5>5
      <4> QED BY <4>2, <4>3
    <3>2. [i \in 1..Len(js) |-> done(i)] \in Seq(TrueRecords)
      <4>1. Len(js) \in Nat
        OBVIOUS
      <4> HIDE DEF done
      <4> QED BY <3>1, <4>1
    <3> QED BY <2>1, <2>3, <3>2
  <2> QED BY <2>2, <2>3
<1> QED BY <1>1, <1>2

LEMMA ReadStep == ASSUME EvidenceInv, ReadsRow PROVE EvidenceInv'
<1> DEFINE js == Accepts(join.records, stored[join.at + 1])
<1>1. /\ join.at \in Nat /\ join.records \in Seq(TrueRecords) /\ stored \in Seq(TrueRows)
      /\ join \in [at : Nat, records : Seq(TrueRecords), rescans : Nat]
  BY DEF EvidenceInv
<1>2. /\ join.at < Len(stored) /\ join' = [join EXCEPT !.at = join.at + 1, !.records = js]
      /\ UNCHANGED <<life, ds, stored>>
  BY DEF ReadsRow
<1>3. stored[join.at + 1] \in TrueRows
  <2>1. join.at + 1 \in 1..Len(stored)
    BY <1>1, <1>2
  <2> QED BY <1>1, <2>1
<1>4. js \in Seq(TrueRecords)
  BY <1>1, <1>3, AcceptedTrue
<1> HIDE DEF js
<1>5. join' \in [at : Nat, records : Seq(TrueRecords), rescans : Nat]
  <2>1. join.at + 1 \in Nat
    BY <1>1
  <2> QED BY <1>1, <1>2, <1>4, <2>1
<1> QED BY <1>2, <1>5, RowsStay DEF EvidenceInv, Dataset, Life, Counted, Served

LEMMA RescanStep == ASSUME EvidenceInv, Rescans PROVE EvidenceInv'
<1> DEFINE e == <<>>
<1>1. PICK from \in 0..Len(stored) : join' = [at |-> from, records |-> e, rescans |-> join.rescans + 1]
  BY DEF Rescans
<1>2. UNCHANGED <<life, ds, stored>>
  BY DEF Rescans
<1>3. e \in Seq(TrueRecords)
  OBVIOUS
<1> HIDE DEF e
<1>4. join.rescans + 1 \in Nat /\ from \in Nat
  BY DEF EvidenceInv
<1>5. join' \in [at : Nat, records : Seq(TrueRecords), rescans : Nat]
  BY <1>1, <1>3, <1>4
<1> QED BY <1>2, <1>5, RowsStay DEF EvidenceInv, Dataset, Life, Counted, Served

\* Every row is stored, waiting, being written or counted as dropped, a closed dataset whose
\* writer has ended holds nothing back, and a record of the join tells of a move that was made
\* and of a dispatch and an end only where they happened after it, for any requests, workers
\* and bounds, whatever writes fail (dataset.mjs: record, flush; request-history.mjs:
\* HandoverEvidence.accept).
THEOREM EvidenceCorrect == ASSUME BatchGiven PROVE EvidenceSpec => []EvidenceSound
<1>1. EvidenceInv /\ UNCHANGED evidenceVars => EvidenceInv'
  <2> SUFFICES ASSUME EvidenceInv, UNCHANGED evidenceVars PROVE EvidenceInv'
    OBVIOUS
  <2>1. UNCHANGED <<life, ds, stored, join>>
    BY DEF evidenceVars
  <2> QED BY <2>1, RowsStay DEF EvidenceInv, Dataset, Life, Counted, Served
<1>2. EvidenceInv /\ EvidenceNext => EvidenceInv'
  <2> SUFFICES ASSUME EvidenceInv, EvidenceNext PROVE EvidenceInv'
    OBVIOUS
  <2>1. CASE \E r \in EvRequest : \/ DispatchesRequest(r) \/ FinishesRequest(r)
                                  \/ \E n \in EvNode : MovesRequest(r, n)
    BY <2>1, DispatchedStep, FinishedStep, MoveStep
  <2>2. CASE TakesBatch \/ WritesBatch \/ BatchFails
    BY <2>2, TakeStep, WriteStep, FailStep
  <2>3. CASE WriterEnds \/ ClosesDataset \/ ReadsRow \/ Rescans
    BY <2>3, EndStep, ReadStep, RescanStep
  <2> QED BY <2>1, <2>2, <2>3 DEF EvidenceNext
<1>3. EvidenceInv => EvidenceSound
  <2> SUFFICES ASSUME EvidenceInv PROVE EvidenceSound
    OBVIOUS
  <2>1. ASSUME NEW j \in Range(join.records)
        PROVE  /\ <<j.source, j.destination>> \in Range(life[j.request].moves)
               /\ j.dispatch => life[j.request].node = j.destination /\ life[j.request].step # "queued"
               /\ j.finish => j.dispatch /\ life[j.request].step = "finished"
    <3>1. join.records \in Seq(TrueRecords)
      BY DEF EvidenceInv
    <3>2. j \in TrueRecords
      <4>1. PICK i \in DOMAIN join.records : j = join.records[i]
        BY DEF Range
      <4> QED BY <3>1, <4>1
    <3> QED BY <3>2 DEF TrueRecords, RecordTrue, Range
  <2> QED BY <2>1 DEF EvidenceSound, EvidenceInv, Counted, Served
<1> QED BY <1>1, <1>2, <1>3, EvidenceInitial, PTL DEF EvidenceSpec

==============================================================================
