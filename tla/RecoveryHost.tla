---------------------------- MODULE RecoveryHost ----------------------------
(***************************************************************************)
(* The recovery helpers on the model hosts (recovery-systemd.py,           *)
(* recovery-launchd.py, recovery-docker.py, recovery-omlx.py) and the      *)
(* ssh transport that calls them (recovery-transport.mjs).                 *)
(*                                                                         *)
(* A helper is a process per call.  Under a file lock it looks the action  *)
(* up in its journal, inspects the service, saves a receipt with state     *)
(* "intent", runs the service manager and saves "issued".  It may die      *)
(* between any two of these, and its caller may give up on it and call     *)
(* again over another ssh target while it still runs.                      *)
(*                                                                         *)
(* Digests (machine, definition, static profile) are what they are         *)
(* compared for: an instance number, a running profile, a stopped epoch.   *)
(***************************************************************************)
EXTENDS Naturals, Sequences, FiniteSets

CONSTANTS Worker, Id,
          MaxEvents,    \* bound: what may go wrong, happen unasked, or be changed
          Targets       \* sshTargets: the host and its fallbacks

VARIABLES
    adapter,    \* the enrolled helper of a worker's host
    svc,        \* the service as its manager has it
    journal,    \* the helper's receipts, on the host's disk
    calls,      \* helper processes that are running or on their way
    commands,   \* history: the commands given to the service managers
    events

hostVars == <<adapter, svc, journal, calls, commands, events>>

Adapter == {"systemd", "launchd", "docker", "omlx"}
Profile == {"enrolled", "other"}
Act == {"restart", "start", "bootstrap"}

Service == [kind : {"running", "stopped", "absent"},
            inst : Nat,                    \* the instance; the last one, if stopped
            profile : Profile,             \* of its command line, environment, files
            fault : BOOLEAN,               \* a fatal accelerator error, nothing after it
            disabled : BOOLEAN,            \* launchd's own disable override
            caller : {"none", "loginwindow", "launchctl"},  \* who removed the job
            due : {"none", "up"}]          \* a command the manager has yet to do

(* What the gateway asks for: the action identifier, and the instance and  *)
(* profile that were seen.                                                 *)
Call == [id : Id, w : Worker, act : Act, inst : Nat, profile : Profile,
         canary : BOOLEAN, n : Nat, at : {"sent", "intent"}]
Receipt == [id : Id, act : Act, inst : Nat, st : {"intent", "issued"}]
Command == [id : Id, w : Worker, act : Act, inst : Nat]

Settled == [kind |-> "running", inst |-> 1, profile |-> "enrolled", fault |-> FALSE,
            disabled |-> FALSE, caller |-> "none", due |-> "none"]

HostInit == /\ adapter \in [Worker -> Adapter]
            /\ svc = [w \in Worker |-> Settled]
            /\ journal = [w \in Worker |-> {}]
            /\ calls = {} /\ commands = <<>> /\ events = 0

----------------------------------------------------------------------------
(* inspect, per helper: the service, or an answer that identifies nothing. *)
(* A call that fails altogether is the caller's NoAnswer.                  *)
Unverified == [Settled EXCEPT !.kind = "absent", !.inst = 0]

SystemdInspect(s) == {s}
DockerInspect(s) == {s}
LaunchState(s) == {s, Unverified}                 \* unfamiliar output of launchctl
LaunchdInspect(s) == LaunchState(s)               \* its process, listener and log agree
OmlxInspect(s) == {[s EXCEPT !.fault = FALSE]}    \* it has no fatal-log classifier

Inspect(w) == CASE adapter[w] = "systemd" -> SystemdInspect(svc[w])
                [] adapter[w] = "docker" -> DockerInspect(svc[w])
                [] adapter[w] = "launchd" -> LaunchdInspect(svc[w])
                [] OTHER -> OmlxInspect(svc[w])

(* inspect_removal and audit_native_removal: the native log names who      *)
(* removed exactly the instance p; it may be unreadable.                   *)
InspectRemoval(w, p) ==
    {"none"} \cup IF svc[w].kind = "absent" /\ svc[w].inst = p
                  THEN {svc[w].caller} ELSE {}

(* boot, machine, static profile, retained definition and a free port.     *)
BootstrapIdentity(c) == svc[c.w].kind = "absent" /\ ~svc[c.w].disabled

----------------------------------------------------------------------------
(* What a helper requires under its lock before it commits to an action.   *)
LiveMatch(c) == LET s == svc[c.w] IN
    s.kind = "running" /\ s.inst = c.inst /\ s.profile = c.profile
StoppedMatch(c) == LET s == svc[c.w] IN s.kind = "stopped" /\ s.inst = c.inst

Attempted(c) == \E r \in journal[c.w] : r.act = c.act /\ r.inst = c.inst

SystemdAdmits(c) ==
    /\ ~Attempted(c)
    /\ \/ c.act = "restart" /\ LiveMatch(c) /\ (c.canary \/ svc[c.w].fault)
       \/ c.act = "start" /\ StoppedMatch(c)

DockerAdmits(c) == /\ c.act = "restart" /\ LiveMatch(c) /\ ~Attempted(c)
                   /\ (c.canary \/ svc[c.w].fault)

(* A drill on an idle server, or a start.                                  *)
OmlxAdmits(c) ==
    /\ ~Attempted(c)
    /\ \/ c.act = "restart" /\ c.canary /\ LiveMatch(c)
       \/ c.act = "start" /\ StoppedMatch(c)

LaunchdBootstraps(c) ==
    /\ c.act = "bootstrap" /\ ~Attempted(c)
    /\ svc[c.w].inst = c.inst
    /\ \/ svc[c.w].caller = "loginwindow"
       \/ c.canary /\ svc[c.w].caller = "launchctl"
    /\ BootstrapIdentity(c)
LaunchdAdmits(c) ==
    \/ LaunchdBootstraps(c)
    \/ SystemdAdmits(c) /\ ~svc[c.w].disabled

Admits(c) == CASE adapter[c.w] = "systemd" -> SystemdAdmits(c)
               [] adapter[c.w] = "docker" -> DockerAdmits(c)
               [] adapter[c.w] = "launchd" -> LaunchdAdmits(c)
               [] OTHER -> OmlxAdmits(c)

(* Checked again after the intent is on disk.                              *)
LaunchdStill(c) == ~svc[c.w].disabled /\ (c.act = "bootstrap" => BootstrapIdentity(c))
OmlxStill(c) == IF c.act = "restart" THEN LiveMatch(c) ELSE StoppedMatch(c)
StillAdmits(c) == /\ adapter[c.w] = "launchd" => LaunchdStill(c)
                  /\ adapter[c.w] = "omlx" => OmlxStill(c)

----------------------------------------------------------------------------
LockFree(w) == \A c \in calls : c.w = w => c.at = "sent"
Previous(c) == {r \in journal[c.w] : r.id = c.id}
Move(c, at) == calls' = (calls \ {c}) \cup {[c EXCEPT !.at = at]}

(* atomic_save: temporary file, fsync, rename, fsync of the directory.     *)
Save(w, r) == journal' = [journal EXCEPT ![w] = {q \in @ : q.id # r.id} \cup {r}]

(* Mutant: a receipt for an action that only exists as an intent is        *)
(* treated as no receipt, and the action is taken again.                   *)
HelperIntendsAgain(c) ==
    /\ c.at = "sent" /\ LockFree(c.w)
    /\ \A r \in Previous(c) : r.st = "intent"
    /\ LiveMatch(c) \/ StoppedMatch(c)
    /\ Save(c.w, [id |-> c.id, act |-> c.act, inst |-> c.inst, st |-> "intent"])
    /\ Move(c, "intent")
    /\ UNCHANGED <<adapter, svc, commands, events>>

(* handle, up to the durable intent.                                       *)
HelperIntends(c) ==
    /\ c.at = "sent" /\ LockFree(c.w)
    /\ Previous(c) = {} /\ Admits(c)
    /\ Save(c.w, [id |-> c.id, act |-> c.act, inst |-> c.inst, st |-> "intent"])
    /\ Move(c, "intent")
    /\ UNCHANGED <<adapter, svc, commands, events>>

(* It runs the service manager, which takes its time (--no-block), and     *)
(* notes that it did, unless it dies first.                                *)
Runs(c) == /\ c.at = "intent" /\ StillAdmits(c)
           /\ commands' = Append(commands, [id |-> c.id, w |-> c.w, act |-> c.act, inst |-> c.inst])
           /\ calls' = calls \ {c}
Issued(c) == Save(c.w, [id |-> c.id, act |-> c.act, inst |-> c.inst, st |-> "issued"])
HelperRuns(c, ok) ==
    /\ Runs(c)
    /\ svc' = [svc EXCEPT ![c.w].due = "up"]
    /\ IF ok THEN Issued(c) ELSE UNCHANGED journal
    /\ UNCHANGED <<adapter, events>>

(* oMLX has no service manager: its helper stops the server itself, and    *)
(* gives up when the process lingers or another takes its port.            *)
OmlxLeavesStopped(c) ==
    /\ adapter[c.w] = "omlx" /\ c.act = "restart" /\ Runs(c)
    /\ svc' = [svc EXCEPT ![c.w].kind = "stopped", ![c.w].fault = FALSE]
    /\ UNCHANGED <<adapter, journal, events>>

(* Without a command: the receipt of an earlier call with the identifier,  *)
(* or an error, because it does not admit the action, cannot inspect the   *)
(* service, or the manager fails.                                          *)
HelperDeclines(c, ok) ==
    /\ \/ c.at = "sent" /\ LockFree(c.w) /\ (ok <=> Previous(c) # {})
       \/ c.at = "intent" /\ ~ok
    /\ calls' = calls \ {c}
    /\ UNCHANGED <<adapter, svc, journal, commands, events>>
HelperEnds(c, ok) == HelperRuns(c, ok) \/ HelperDeclines(c, ok)

(* It is killed, or never reached.                                         *)
Event == events < MaxEvents /\ events' = events + 1
HelperDies(c) ==
    /\ Event
    /\ calls' = calls \ {c}
    /\ UNCHANGED <<adapter, svc, journal, commands>>

----------------------------------------------------------------------------
(* The service managers: what was ordered comes about, or fails; and what  *)
(* nobody ordered.                                                         *)
Lands(w) ==
    /\ svc[w].due = "up"
    /\ \E k \in {"running", "stopped"} :
         svc' = [svc EXCEPT ![w] = [Settled EXCEPT !.kind = k, !.inst = svc[w].inst + 1,
                                      !.profile = svc[w].profile, !.disabled = svc[w].disabled]]
    /\ UNCHANGED <<adapter, journal, calls, commands, events>>

Unasked(w, s) ==
    /\ Event
    /\ svc' = [svc EXCEPT ![w] = s]
    /\ UNCHANGED <<adapter, journal, calls, commands>>

Faults(w) == svc[w].kind = "running" /\ ~svc[w].fault /\ Unasked(w, [svc[w] EXCEPT !.fault = TRUE])
Stops(w) == svc[w].kind = "running" /\ Unasked(w, [svc[w] EXCEPT !.kind = "stopped", !.fault = FALSE])
Restarts(w) == \E p \in Profile :
    Unasked(w, [svc[w] EXCEPT !.kind = "running", !.inst = @ + 1, !.profile = p, !.fault = FALSE, !.caller = "none"])
Removed(w) ==
    /\ adapter[w] = "launchd" /\ svc[w].kind # "absent"
    /\ \E who \in {"loginwindow", "launchctl"} :
         Unasked(w, [svc[w] EXCEPT !.kind = "absent", !.fault = FALSE, !.caller = who])
Disabled(w) == adapter[w] = "launchd" /\ Unasked(w, [svc[w] EXCEPT !.disabled = ~@])

HostNext == \E w \in Worker :
    Lands(w) \/ Faults(w) \/ Stops(w) \/ Restarts(w) \/ Removed(w) \/ Disabled(w)

=============================================================================
