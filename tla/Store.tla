------------------------------- MODULE Store --------------------------------
(***************************************************************************)
(* AffinityStore (gateway.mjs): the lock file that selects the gateway     *)
(* which owns the state, and the replacement of the state file by a        *)
(* synchronised temporary file, over crashes of the gateway and of the     *)
(* machine.  The content of the state is a version number.                 *)
(***************************************************************************)
EXTENDS Integers, FiniteSets

CONSTANTS Pid,         \* process IDs a gateway, or any other program, may get
          MaxVersion,  \* bound: saves
          MaxStarted,  \* bound: processes started
          OverlappingStarts  \* two gateways may start at the same time

StoreGiven ==
  /\ MaxVersion \in Nat /\ MaxStarted \in Nat /\ OverlappingStarts \in BOOLEAN
  /\ "none" \notin Pid /\ "unwritten" \notin Pid

VARIABLES proc,        \* process of a PID: its kind, start time and place in the code
          lock,        \* the lock file
          disk,        \* version the state file holds
          durable,     \* version it holds after a power loss
          memory,      \* this.data of the owner with the PID
          acked,       \* history: version of the last save that returned
          clock        \* start times given out

storeVars == <<proc, lock, disk, durable, memory, acked, clock>>

NoProcess == [kind |-> "none", started |-> 0, pc |-> "none"]
NoLock == [pid |-> "none", started |-> 0]
EmptyLock == [pid |-> "unwritten", started |-> 0]

StoreInit ==
  /\ proc = [p \in Pid |-> NoProcess]
  /\ lock = NoLock
  /\ disk = 0 /\ durable = 0 /\ acked = 0
  /\ memory = [p \in Pid |-> 0]
  /\ clock = 0

At(p, pc) == proc[p].pc = pc
Goto(p, pc) == proc' = [proc EXCEPT ![p].pc = pc]

\* A process gets a free PID: a gateway, or an unrelated program.
ProcessStarts(p) ==
  /\ proc[p].kind = "none" /\ clock < MaxStarted
  /\ clock' = clock + 1
  /\ \E kind \in {"gateway", "other"} :
       proc' = [proc EXCEPT ![p] = [kind |-> kind, started |-> clock', pc |-> "starting"]]
  /\ UNCHANGED <<lock, disk, durable, memory, acked>>

\* Mutation: a lock is stale unless it is the starting gateway's own.
StaleForeign(p) == lock.started # proc[p].started

\* processStartedAt: the lock's process is gone, or its PID belongs to another.
Stale(p) == proc[lock.pid].kind = "none" \/ proc[lock.pid].started # lock.started

\* The constructor: an exclusive creation, or the inspection of the lock that is
\* there.  A live owner, or a lock nobody has written yet, ends the start.
Acquire(p) ==
  /\ proc[p].kind = "gateway" /\ At(p, "starting")
  /\ OverlappingStarts \/ \A q \in Pid : ~At(q, "reclaiming")
  /\ \/ /\ lock = NoLock
        /\ lock' = EmptyLock /\ Goto(p, "writing")
     \/ /\ lock.pid \in Pid /\ Stale(p)
        /\ Goto(p, "reclaiming") /\ UNCHANGED lock
     \/ /\ lock = EmptyLock \/ (lock.pid \in Pid /\ ~Stale(p))
        /\ proc' = [proc EXCEPT ![p] = NoProcess] /\ UNCHANGED lock
  /\ UNCHANGED <<disk, durable, memory, acked, clock>>

\* unlinkSync and the second acquire.
Reclaim(p) ==
  /\ At(p, "reclaiming")
  /\ IF lock = NoLock THEN proc' = [proc EXCEPT ![p] = NoProcess] /\ UNCHANGED lock
     ELSE lock' = EmptyLock /\ Goto(p, "writing")
  /\ UNCHANGED <<disk, durable, memory, acked, clock>>

\* The lock is written and the state loaded: whatever the crash, it is a whole one.
Load(p) ==
  /\ At(p, "writing")
  /\ lock' = [pid |-> p, started |-> proc[p].started]
  /\ memory' = [memory EXCEPT ![p] = disk]
  /\ Goto(p, "owner")
  /\ UNCHANGED <<disk, durable, acked, clock>>

\* save: the temporary file is complete and synchronised before the rename.
SaveRenames(p) ==
  /\ At(p, "owner") /\ memory[p] < MaxVersion
  /\ disk' = memory[p] + 1
  /\ Goto(p, "renamed")
  /\ UNCHANGED <<lock, durable, memory, acked, clock>>

\* Mutation: the save returns without synchronising the directory.
SaveReturnsUnsynced(p) ==
  /\ At(p, "renamed")
  /\ memory' = [memory EXCEPT ![p] = @ + 1]
  /\ acked' = memory'[p]
  /\ Goto(p, "owner")
  /\ UNCHANGED <<lock, disk, durable, clock>>

SaveReturns(p) ==
  /\ At(p, "renamed")
  /\ durable' = disk
  /\ memory' = [memory EXCEPT ![p] = @ + 1]
  /\ acked' = memory'[p]
  /\ Goto(p, "owner")
  /\ UNCHANGED <<lock, disk, clock>>

\* The directory cannot be synchronised: the caller sees a failure and the memory
\* keeps the old state, the file has the new one.
SaveFails(p) ==
  /\ At(p, "renamed")
  /\ Goto(p, "owner")
  /\ UNCHANGED <<lock, disk, durable, memory, acked, clock>>

\* close
Close(p) ==
  /\ At(p, "owner")
  /\ lock' = NoLock
  /\ proc' = [proc EXCEPT ![p] = NoProcess]
  /\ UNCHANGED <<disk, durable, memory, acked, clock>>

\* A process dies anywhere; a power loss takes all of them and the changes of the
\* directory nobody synchronised.
ProcessDies(p) ==
  /\ proc[p].kind # "none"
  /\ proc' = [proc EXCEPT ![p] = NoProcess]
  /\ UNCHANGED <<lock, disk, durable, memory, acked, clock>>

PowerLoss ==
  /\ proc' = [p \in Pid |-> NoProcess]
  /\ disk' \in {disk, durable}
  /\ durable' = disk'
  /\ UNCHANGED <<lock, memory, acked, clock>>

StoreNext ==
  \/ \E p \in Pid :
       ProcessStarts(p) \/ Acquire(p) \/ Reclaim(p) \/ Load(p) \/ SaveRenames(p)
         \/ SaveReturns(p) \/ SaveFails(p) \/ Close(p) \/ ProcessDies(p)
  \/ PowerLoss

-----------------------------------------------------------------------------
Owns(p) == proc[p].pc \in {"owner", "renamed"}

\* No two gateways own the state: a lock outlives its owner, and is replaced only
\* when the PID in it is free or was given to another program.
SoleOwner == \A p, q \in Pid : (Owns(p) /\ Owns(q)) => p = q

\* What a save returned for is what the next gateway loads, over crashes and failures
\* in the middle of the next save and over power losses; beyond what its owner
\* knows, the state file holds at most the save that is under way or has failed.
SavedSurvives ==
  /\ acked <= disk /\ acked <= durable
  /\ \A p \in Pid : Owns(p) => disk \in {memory[p], memory[p] + 1}

\* One owner of the state, and nothing it has saved is lost.
StoreSafe == SoleOwner /\ SavedSurvives
=============================================================================
