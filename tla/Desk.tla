-------------------------------- MODULE Desk --------------------------------
(***************************************************************************)
(* A setting changed from the dashboard: the operator's pages              *)
(* (ui/ui.js, ui/current-jobs.js), the command handlers of the dashboard   *)
(* (dashboard.mjs: /api/workers, /api/lan-sharing, /api/testing), its      *)
(* control client (worker-client.mjs) and the setters of the gate          *)
(* (gateway.mjs), which a chain of promises runs one after another.  A     *)
(* behaviour is about one setting of one kind:                             *)
(*   number    queue allowance, turns, capacity, SSH routes: the command   *)
(*             names the value it replaces                                 *)
(*   context   the same, but servers are probed between check and commit   *)
(*   priority  the same for a waiting request, from Current Jobs           *)
(*   toggle    a switch, which names only its new position                 *)
(***************************************************************************)
EXTENDS Naturals, Sequences

CONSTANTS Page,
          DeskValue,
          MaxDesk,          \* bound: commands
          MaxDeskRestarts   \* bound: restarts of the dashboard

VARIABLES kind,
          gate,      \* the value, those it had, and serialize's chain
          session,   \* the process of the dashboard, which its csrf token names
          deskPage,
          command
deskVars == <<kind, gate, session, deskPage, command>>

Command == 1..MaxDesk
NoValue == "none"
DeskIdle == 0
BlankReply == [expected |-> NoValue, value |-> NoValue, at |-> "none", ended |-> FALSE,
          open |-> FALSE, reply |-> "none", acts |-> 0, was |-> NoValue]
NoToken == 0
PageLoaded(v) == [shown |-> v, token |-> 1, dirty |-> FALSE, busy |-> DeskIdle]

DeskInit ==
    /\ kind \in {"number", "context", "priority", "toggle"}
    /\ LET v == CHOOSE v \in DeskValue : TRUE IN
         /\ gate = [value |-> v, past |-> {v}, chain |-> <<>>]
         /\ deskPage = [p \in Page |-> PageLoaded(v)]
    /\ session = 1
    /\ command = [c \in Command |-> BlankReply]

----------------------------------------------------------------------------
(* loadWorkers, load, loadTesting, loadLanSharing: a read that may have    *)
(* been under way for long arrives, or fails.  A field in which an operator*)
(* types is left alone, and so are jobs while one is changed.              *)
Shows(pg, v) == IF pg.dirty \/ (kind = "priority" /\ pg.busy # DeskIdle) THEN pg.shown ELSE v
LoadArrives(p) ==
    /\ \E v \in gate.past, t \in 1..session :
         deskPage' = [deskPage EXCEPT ![p] = [@ EXCEPT !.token = t, !.shown = Shows(deskPage[p], v)]]
    /\ UNCHANGED <<kind, gate, session, command>>
LoadFails(p) ==
    /\ kind # "priority"
    /\ deskPage' = [deskPage EXCEPT ![p].token = NoToken]
    /\ UNCHANGED <<kind, gate, session, command>>
Types(p) ==
    /\ kind \in {"number", "context"} /\ ~deskPage[p].dirty
    /\ deskPage' = [deskPage EXCEPT ![p].dirty = TRUE]
    /\ UNCHANGED <<kind, gate, session, command>>

(* workerAction, changePriority, toggleTesting: the command goes out.  A   *)
(* token of an earlier dashboard is refused before the body is read.       *)
TokenValid(pg) == pg.token = session
Offered(pg) == IF kind = "toggle" THEN DeskValue \ {pg.shown} ELSE DeskValue
Submits(p) ==
    /\ deskPage[p].busy = DeskIdle /\ deskPage[p].token # NoToken
    /\ \E c \in Command, v \in Offered(deskPage[p]) :
         /\ command[c].at = "none" /\ \A d \in 1..(c - 1) : command[d].at # "none"
         /\ deskPage' = [deskPage EXCEPT ![p].busy = c]
         /\ command' = [command EXCEPT ![c] =
                [BlankReply EXCEPT !.expected = deskPage[p].shown, !.value = v, !.open = TRUE,
                              !.at = IF TokenValid(deskPage[p]) THEN "body" ELSE "over",
                              !.reply = IF TokenValid(deskPage[p]) THEN "none" ELSE "403"]]
    /\ UNCHANGED <<kind, gate, session>>

(* The answer, or the end of the page's patience, which closes the         *)
(* connection.                                                             *)
PageHears(p) == LET c == deskPage[p].busy IN
    /\ c # DeskIdle /\ command[c].reply # "none" /\ command[c].open
    /\ LET good == command[c].reply = "200" IN
       \E d \in (IF good THEN {FALSE} ELSE {deskPage[p].dirty, FALSE}) :
         deskPage' = [deskPage EXCEPT ![p] = [@ EXCEPT !.busy = DeskIdle, !.dirty = d,
             !.shown = IF good /\ kind # "priority" THEN command[c].value ELSE deskPage[p].shown]]
    /\ command' = [command EXCEPT ![c].open = FALSE]
    /\ UNCHANGED <<kind, gate, session>>
Aborted(cm) == [cm EXCEPT !.open = FALSE, !.ended = @ \/ cm.at = "body",
                          !.at = IF @ = "body" THEN "over" ELSE @]
PageGivesUp(p) == LET c == deskPage[p].busy IN
    /\ c # DeskIdle
    /\ deskPage' = [deskPage EXCEPT ![p] = [@ EXCEPT !.busy = DeskIdle]]
    /\ command' = [command EXCEPT ![c] = Aborted(@)]
    /\ UNCHANGED <<kind, gate, session>>

----------------------------------------------------------------------------
(* The dashboard collects the body.  reply() answers once.                 *)
DeskReplied(cm, code) == IF cm.open /\ cm.reply = "none" THEN [cm EXCEPT !.reply = code] ELSE cm
CutsOff(c, code) ==
    /\ command[c].at = "body" /\ ~command[c].ended
    /\ command' = [command EXCEPT ![c] = DeskReplied([@ EXCEPT !.ended = TRUE], code)]
    /\ UNCHANGED <<kind, gate, session, deskPage>>
BodyLate(c) == CutsOff(c, "408")
BodyLarge(c) == CutsOff(c, "413")

(* The end of the body, unless a limit came first: parsed, and acted on.   *)
ActsUnended(cm) == cm.at = "body"                                  \* mutant
DeskActs(cm) == cm.at = "body" /\ ~cm.ended
BodyEnds(c) ==
    /\ command[c].at = "body"
    /\ IF DeskActs(command[c])
       THEN \/ /\ command' = [command EXCEPT ![c] =
                      DeskReplied([@ EXCEPT !.at = "over", !.ended = TRUE], "400")]   \* invalid JSON
               /\ UNCHANGED gate
            \/ /\ command' = [command EXCEPT ![c].at = "asked", ![c].ended = TRUE, ![c].acts = @ + 1]
               /\ gate' = [gate EXCEPT !.chain = Append(@, c)]
       ELSE command' = [command EXCEPT ![c].at = "over"] /\ UNCHANGED gate
    /\ UNCHANGED <<kind, session, deskPage>>

(* workerControl's patience is shorter than the gate may take.             *)
ControlTimesOut(c) ==
    /\ command[c].at \in {"asked", "probing"} /\ command[c].reply = "none" /\ command[c].open
    /\ command' = [command EXCEPT ![c] = DeskReplied(@, "400")]
    /\ UNCHANGED <<kind, gate, session, deskPage>>

DashboardRestarts ==
    /\ session <= MaxDeskRestarts
    /\ session' = session + 1
    /\ command' = [c \in Command |-> Aborted(command[c])]
    /\ UNCHANGED <<kind, gate, deskPage>>

----------------------------------------------------------------------------
(* The gate: serialize runs one command to its end, then the next.         *)
TurnAny(c) == \E i \in 1..Len(gate.chain) : gate.chain[i] = c         \* mutant
Turn(c) == gate.chain # <<>> /\ Head(gate.chain) = c
Leaves(c) == [gate EXCEPT !.chain = Tail(@)]

Fenced(cm) == kind = "toggle" \/ cm.expected = gate.value

(* Refused: draining, an unknown target, a worker in use, a failed save.   *)
CoreRefuses(c) ==
    /\ Turn(c) /\ command[c].at \in {"asked", "probing"}
    /\ command' = [command EXCEPT ![c] = DeskReplied([@ EXCEPT !.at = "over"], "400")]
    /\ gate' = Leaves(c)
    /\ UNCHANGED <<kind, session, deskPage>>
CoreProbes(c) ==
    /\ Turn(c) /\ command[c].at = "asked" /\ kind = "context" /\ Fenced(command[c])
    /\ command' = [command EXCEPT ![c].at = "probing"]
    /\ UNCHANGED <<kind, gate, session, deskPage>>
DeskCommitted(c) == [Leaves(c) EXCEPT !.value = command[c].value, !.past = @ \cup {command[c].value}]
CoreCommits(c) ==
    /\ Turn(c)
    /\ IF kind = "context" THEN command[c].at = "probing"
       ELSE command[c].at = "asked" /\ Fenced(command[c])
    /\ command' = [command EXCEPT ![c] =
           DeskReplied([@ EXCEPT !.at = "over", !.was = gate.value], "200")]
    /\ gate' = DeskCommitted(c)
    /\ UNCHANGED <<kind, session, deskPage>>

DeskNext ==
    \/ DashboardRestarts
    \/ \E p \in Page : \/ LoadArrives(p) \/ LoadFails(p)
                       \/ Types(p) \/ Submits(p) \/ PageHears(p) \/ PageGivesUp(p)
    \/ \E c \in Command : \/ BodyLate(c) \/ BodyLarge(c) \/ BodyEnds(c) \/ ControlTimesOut(c)
                          \/ CoreRefuses(c) \/ CoreProbes(c) \/ CoreCommits(c)

----------------------------------------------------------------------------
(* However pages, reads, restarts and time limits interleave: a change     *)
(* replaces the value its operator saw, so no other operator's change is   *)
(* lost; a command that was refused, cut off or too late before its body   *)
(* was whole changes nothing, and none acts twice; and "applied" is said   *)
(* only of a command that was.                                             *)
DeskSound == \A c \in Command : LET cm == command[c] IN
    /\ cm.was # NoValue => cm.acts = 1 /\ (kind = "toggle" \/ cm.was = cm.expected)
    /\ cm.reply = "200" => cm.was # NoValue
    /\ cm.acts <= 1
    /\ cm.reply \in {"403", "408", "413"} => cm.acts = 0
=============================================================================
