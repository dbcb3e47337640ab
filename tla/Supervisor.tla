---------------------------- MODULE Supervisor ------------------------------
(***************************************************************************)
(* service-control.mjs and lifecycle.mjs: the operator commands start,     *)
(* stop, restart and park on the gateway core and the continuity door.     *)
(* One command runs at a time and may be interrupted anywhere; meanwhile   *)
(* clients arrive through the door and directly, and operators hold and    *)
(* release the door by hand.                                               *)
(***************************************************************************)
EXTENDS Integers, Sequences

CONSTANTS MaxCommands,  \* bound: operator commands
          MaxHolds      \* bound: manual holds

VARIABLES core,      \* the gateway core: its life, its admission fence, its requests
          signals,   \* SIGUSR1 and SIGUSR2 on their way to it
          door,      \* the door: whether it runs and the hold in force
          cmd,       \* the operator command
          commands,  \* commands begun
          holds      \* receipts given out

supervisorVars == <<core, signals, door, cmd, commands, holds>>

Source == {"door", "direct"}
NoHold == [kind |-> "none", reason |-> "none", id |-> 0]
Over == {"none", "done", "refused", "busy", "failed", "died"}

SupervisorInit ==
  /\ core = [life |-> "ready", draining |-> FALSE, active |-> {}]
  /\ signals = <<>>
  /\ door = [up |-> TRUE, hold |-> NoHold]
  /\ cmd = [name |-> "none", all |-> FALSE, interrupt |-> FALSE, pc |-> "none",
            receipt |-> 0, fenced |-> FALSE, before |-> FALSE]
  /\ commands = 0 /\ holds = 0

To(pc) == cmd' = [cmd EXCEPT !.pc = pc]
Loaded == core.life # "off"
Answers == core.life \in {"ready", "starting"}
Ready == core.life = "ready"
Healthy == Ready /\ ~core.draining
IsPark == door.hold.kind = "manual" /\ door.hold.reason = "park"

------------------------------------------------------------------------------
\* The gateway core and the door.

\* The core admits a request unless it drains; the door forwards unless it holds.
RequestArrives(s) ==
  /\ Healthy /\ s \notin core.active
  /\ s = "door" => door.up /\ door.hold.kind = "none"
  /\ core' = [core EXCEPT !.active = @ \cup {s}]
  /\ UNCHANGED <<signals, door, cmd, commands, holds>>

RequestEnds(s) ==
  /\ s \in core.active
  /\ core' = [core EXCEPT !.active = @ \ {s}]
  /\ UNCHANGED <<signals, door, cmd, commands, holds>>

\* The handlers of SIGUSR1 and SIGUSR2, in the order of the signals.
SignalHandled ==
  /\ signals # <<>>
  /\ core' = [core EXCEPT !.draining = Head(signals) = "USR1"]
  /\ signals' = Tail(signals)
  /\ UNCHANGED <<door, cmd, commands, holds>>

StartupCompletes ==
  /\ core.life = "starting"
  /\ core' = [core EXCEPT !.life = "ready"]
  /\ UNCHANGED <<signals, door, cmd, commands, holds>>

\* SIGTERM closes the core when its last request is over.
CoreExits ==
  /\ core.life = "stopping" /\ core.active = {}
  /\ core' = [life |-> "off", draining |-> FALSE, active |-> {}]
  /\ signals' = <<>>
  /\ UNCHANGED <<door, cmd, commands, holds>>

\* The door's probe: an automatic hold for a core that is not ready, and its end.
DoorProbes ==
  /\ door.up
  /\ door' = [door EXCEPT !.hold =
       IF Healthy THEN (IF @.kind = "automatic" THEN NoHold ELSE @)
       ELSE (IF @.kind = "none" THEN [kind |-> "automatic", reason |-> "core", id |-> 0] ELSE @)]
  /\ door' # door
  /\ UNCHANGED <<core, signals, cmd, commands, holds>>

\* An operator holds, or releases whatever hold there is, at the control socket.
OperatorHolds ==
  /\ door.up /\ holds < MaxHolds
  /\ holds' = holds + 1
  /\ door' = [door EXCEPT !.hold = [kind |-> "manual", reason |-> "operator", id |-> holds']]
  /\ UNCHANGED <<core, signals, cmd, commands>>

OperatorReleases ==
  /\ door.up /\ Healthy /\ door.hold.kind = "manual"
  /\ door' = [door EXCEPT !.hold = NoHold]
  /\ UNCHANGED <<core, signals, cmd, commands, holds>>

\* An operator drains the core, or lifts the drain, between two commands; how the last
\* one left it no longer shows.
OperatorDrains ==
  /\ cmd.pc \in Over /\ Ready /\ signals = <<>>
  /\ core' = [core EXCEPT !.draining = ~@]
  /\ To("none")
  /\ UNCHANGED <<signals, door, commands, holds>>

------------------------------------------------------------------------------
\* The commands.

\* serviceCommand: the command line selects the path.  A restart is coordinated
\* when it may not interrupt and both services are loaded.  Signals are handled long
\* before an operator enters the next command.
CommandBegins ==
  /\ cmd.pc \in Over /\ commands < MaxCommands /\ signals = <<>>
  /\ commands' = commands + 1
  /\ \E name \in {"start", "stop", "restart", "park"}, all, interrupt \in BOOLEAN :
       /\ all => name # "park"
       /\ interrupt => name \in {"stop", "restart"}
       /\ cmd' = [name |-> name, all |-> all, interrupt |-> interrupt, receipt |-> 0,
                  fenced |-> FALSE, before |-> FALSE,
                  pc |-> CASE name = "park" -> "park"
                           [] name = "start" -> "boot"
                           [] name = "restart" /\ ~interrupt /\ Loaded /\ door.up -> "hold"
                           [] OTHER -> "check"]
  /\ UNCHANGED <<core, signals, door, holds>>

CommandDies ==
  /\ cmd.pc \notin Over
  /\ To("died")
  /\ UNCHANGED <<core, signals, door, commands, holds>>

\* The door's /hold with if_unheld; the command keeps the receipt.
PlacesHold(reason) ==
  IF door.up /\ door.hold.kind = "none"
  THEN /\ holds < MaxHolds
       /\ holds' = holds + 1
       /\ door' = [door EXCEPT !.hold = [kind |-> "manual", reason |-> reason, id |-> holds']]
       /\ cmd' = [cmd EXCEPT !.receipt = holds', !.pc = "wait"]
  ELSE To("failed") /\ UNCHANGED <<door, holds>>

\* coordinatedCoreRestart, up to its hold.
RestartHolds ==
  /\ cmd.pc = "hold"
  /\ PlacesHold("restart")
  /\ UNCHANGED <<core, signals, commands>>

\* park reads the door once; a hold of its own stands, any other one refuses it.
ParkReadsDoor ==
  /\ cmd.pc = "park"
  /\ To(CASE ~door.up -> "failed"
             [] ~Loaded -> IF IsPark THEN "done" ELSE "failed"
             [] door.hold.kind = "none" -> "parkhold"
             [] IsPark -> "wait"
             [] OTHER -> "failed")
  /\ UNCHANGED <<core, signals, door, commands, holds>>

ParkHolds ==
  /\ cmd.pc = "parkhold"
  /\ PlacesHold("park")
  /\ UNCHANGED <<core, signals, commands>>

\* The wait for an idle core: an idle answer, a failed read or the allowance ends it.
CoordinatedWaits ==
  /\ cmd.pc = "wait"
  /\ \/ Answers /\ core.active = {} /\ To("fence")
     \/ To("failed")
  /\ UNCHANGED <<core, signals, door, commands, holds>>

\* The stop callback of restart and park fences admission.
CoordinatedFences ==
  /\ cmd.pc = "fence"
  /\ signals' = IF Loaded THEN Append(signals, "USR1") ELSE signals
  /\ To("ack")
  /\ UNCHANGED <<core, door, commands, holds>>

\* Behind the fence a stop of everything asks the dashboard once more.
AfterFence == IF cmd.all /\ cmd.receipt = 0 THEN "dashboard" ELSE "unload"

\* A plain stop looks at the core and, when they are to stop too, at the door and the
\* dashboard, whose reports may not be preserved.
StopChecks ==
  /\ cmd.pc = "check"
  /\ LET idle == /\ Loaded => Answers /\ core.active = {}
                 /\ cmd.all /\ door.up => door.hold.kind = "none" /\ "door" \notin core.active
     IN \/ To(CASE cmd.interrupt \/ (idle /\ ~Loaded) -> AfterFence
                   [] idle -> "stopfence"
                   [] OTHER -> "failed")
        \/ cmd.all /\ To("failed")
  /\ UNCHANGED <<core, signals, door, commands, holds>>

\* It remembers whether the fence is its own.
StopFences ==
  /\ cmd.pc = "stopfence"
  /\ \/ /\ Answers
        /\ cmd' = [cmd EXCEPT !.pc = "ack", !.before = core.draining, !.fenced = ~core.draining]
        /\ signals' = IF core.draining THEN signals ELSE Append(signals, "USR1")
     \/ ~Answers /\ To("failed") /\ UNCHANGED signals
  /\ UNCHANGED <<core, door, commands, holds>>

\* Mutation: the idle answer before the fence is enough.
FenceAcknowledgedBlindly ==
  /\ cmd.pc = "ack"
  /\ To(AfterFence)
  /\ UNCHANGED <<core, signals, door, commands, holds>>

\* Under the acknowledged fence the core must still be idle.
FenceAcknowledged ==
  /\ cmd.pc = "ack" /\ Answers /\ core.draining /\ core.active = {}
  /\ To(AfterFence)
  /\ UNCHANGED <<core, signals, door, commands, holds>>

\* Mutation: a refused stop leaves its fence.
StopRefusedFenced ==
  /\ cmd.pc = "ack"
  /\ To(IF cmd.name \in {"stop", "restart"} /\ cmd.receipt = 0 THEN "refused" ELSE "failed")
  /\ UNCHANGED <<core, signals, door, commands, holds>>

\* Otherwise a plain stop restores its own fence; restart and park leave theirs,
\* behind the hold.
StopRefused ==
  /\ cmd.pc = "ack" /\ ~(core.draining /\ core.active = {})
  /\ To(IF cmd.name \in {"stop", "restart"} /\ cmd.receipt = 0 THEN "refused" ELSE "failed")
  /\ signals' = IF cmd.fenced THEN Append(signals, "USR2") ELSE signals
  /\ UNCHANGED <<core, door, commands, holds>>

\* assertDashboardIdle: without --interrupt a Genie at work, or a dashboard that does not
\* answer, refuses the stop here.  Nothing restores the fence any more.
DashboardChecked ==
  /\ cmd.pc = "dashboard"
  /\ To("unload") \/ (~cmd.interrupt /\ To("busy"))
  /\ UNCHANGED <<core, signals, door, commands, holds>>

\* The removal of the dashboard or of the door, which closes, is not confirmed: the core
\* is not reached.
UnloadStops ==
  /\ cmd.pc = "unload" /\ cmd.all /\ cmd.receipt = 0
  /\ door' \in {door, [up |-> FALSE, hold |-> NoHold]}
  /\ To("failed")
  /\ UNCHANGED <<core, signals, commands, holds>>

\* unloadService: the door first when everything stops, then the core; --interrupt
\* kills, otherwise launchd sends SIGTERM.
Unloads ==
  /\ cmd.pc = "unload"
  /\ door' = IF cmd.all /\ cmd.receipt = 0 THEN [up |-> FALSE, hold |-> NoHold] ELSE door
  /\ core' = CASE ~Loaded -> core
               [] cmd.interrupt -> [life |-> "off", draining |-> FALSE, active |-> {}]
               [] OTHER -> [core EXCEPT !.life = "stopping", !.draining = TRUE]
  /\ signals' = <<>>
  /\ To("unloading")
  /\ UNCHANGED <<commands, holds>>

\* launchd's removal is confirmed, or not within the deadline.
UnloadConfirmed ==
  /\ cmd.pc = "unloading"
  /\ \/ ~Loaded /\ To(IF cmd.name \in {"stop", "park"} THEN "done" ELSE "boot")
     \/ Loaded /\ To("failed")
  /\ UNCHANGED <<core, signals, door, commands, holds>>

\* bootstrap of what is not loaded; a start of everything brings the door up.
Boots ==
  /\ cmd.pc = "boot"
  /\ core' = IF Loaded THEN core ELSE [life |-> "starting", draining |-> FALSE, active |-> {}]
  /\ door' = IF cmd.all /\ ~door.up THEN [up |-> TRUE, hold |-> NoHold] ELSE door
  /\ To("ready")
  /\ UNCHANGED <<signals, commands, holds>>

\* The polls for a complete start-up end with it, or the command fails.
BootReady ==
  /\ cmd.pc = "ready"
  /\ \/ Ready /\ To(CASE cmd.name = "start" /\ door.up -> "receipt"
                         [] cmd.receipt # 0 -> "clean"
                         [] OTHER -> "done")
     \/ To("failed")
  /\ UNCHANGED <<core, signals, door, commands, holds>>

\* releaseParkedCore: only a park hold is released, with the receipt just read.
StartReadsDoor ==
  /\ cmd.pc = "receipt"
  /\ cmd' = IF IsPark THEN [cmd EXCEPT !.receipt = door.hold.id, !.pc = "clean"]
            ELSE [cmd EXCEPT !.pc = "done"]
  /\ UNCHANGED <<core, signals, door, commands, holds>>

\* The replacement must be complete and idle before the door opens.
CoreClean ==
  /\ cmd.pc = "clean"
  /\ To(IF Ready /\ core.active = {} THEN "release" ELSE "failed")
  /\ UNCHANGED <<core, signals, door, commands, holds>>

\* Mutation: the release names no receipt.
ReleasesUnconditionally ==
  /\ cmd.pc = "release"
  /\ IF door.up /\ Healthy
     THEN To("done") /\ door' = [door EXCEPT !.hold = NoHold]
     ELSE To("failed") /\ UNCHANGED door
  /\ UNCHANGED <<core, signals, commands, holds>>

\* The conditional release of the exact hold.
Releases ==
  /\ cmd.pc = "release"
  /\ IF door.up /\ Healthy /\ door.hold.id = cmd.receipt
     THEN To("done") /\ door' = [door EXCEPT !.hold = NoHold]
     ELSE To("failed") /\ UNCHANGED door
  /\ UNCHANGED <<core, signals, commands, holds>>

SupervisorNext ==
  \/ \E s \in Source : RequestArrives(s) \/ RequestEnds(s)
  \/ SignalHandled \/ StartupCompletes \/ CoreExits \/ DoorProbes
  \/ OperatorHolds \/ OperatorReleases \/ OperatorDrains
  \/ CommandBegins \/ CommandDies
  \/ RestartHolds \/ ParkReadsDoor \/ ParkHolds
  \/ CoordinatedWaits \/ CoordinatedFences
  \/ StopChecks \/ StopFences \/ FenceAcknowledged \/ StopRefused
  \/ DashboardChecked \/ UnloadStops \/ Unloads \/ UnloadConfirmed \/ Boots \/ BootReady
  \/ StartReadsDoor \/ CoreClean \/ Releases

------------------------------------------------------------------------------
\* A core that a command stops without --interrupt has no request at work: the check
\* under the fence catches what arrived after the idle snapshot, through the door or
\* around it (service-control.mjs, the comment above the fence).
StopsIdle == core.life = "stopping" => core.active = {}

\* While the door runs, a hold an operator placed ends only by an operator's own
\* release: a restart or start that finishes late names its receipt, and leaves a hold
\* that has replaced its own.
OperatorEndsHold ==
  door.up /\ door'.up /\ door.hold.reason = "operator" /\ door'.hold # door.hold
    => OperatorHolds \/ OperatorReleases

OperatorHoldKept == [][OperatorEndsHold]_supervisorVars

\* A stop that is refused under its fence, by a core that does not acknowledge it or has
\* taken a request meanwhile, leaves admission as it found it once its signals are handled
\* (service-control.mjs:198-202).
FenceRestored == cmd.pc = "refused" /\ signals = <<>> /\ Ready => core.draining = cmd.before

\* The fence of a stop: behind it the core is idle when it is stopped, and a stop that
\* is refused under it takes its own fence away.
StopsFenced == StopsIdle /\ FenceRestored

\* The comment above the fence (service-control.mjs:195) says it of every refused stop:
\* whoever refuses it, the core or the dashboard, admission is as the stop found it.
RefusedStopRestores ==
  cmd.pc \in {"refused", "busy"} /\ signals = <<>> /\ Ready => core.draining = cmd.before
=============================================================================
