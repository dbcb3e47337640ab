----------------------------- MODULE DoorStart ------------------------------
(***************************************************************************)
(* The start and the close of continuity doors (door.mjs): the claim of    *)
(* the control socket, which a crash leaves behind and a duplicate         *)
(* launcher finds in use, and of the client port.                          *)
(***************************************************************************)
EXTENDS Integers, FiniteSets

CONSTANTS Launcher,   \* door processes
          MaxSockets  \* bound: sockets created

VARIABLES path,     \* the socket file's identity, 0 when there is none
          claim,    \* per process: its place, its own socket, the identity it saw
          port,     \* the process that listens on the client port
          sockets   \* identities given out

doorStartVars == <<path, claim, port, sockets>>

DoorStartInit ==
  /\ path = 0 /\ sockets = 0 /\ port = "none"
  /\ claim = [p \in Launcher |-> [pc |-> "off", own |-> 0, before |-> 0]]

Owner == {p \in Launcher : claim[p].own # 0 /\ claim[p].own = path}

\* listen(control, path): the process gets a socket of its own at the path.
Binds(p) ==
  /\ sockets < MaxSockets
  /\ sockets' = sockets + 1 /\ path' = sockets'
  /\ claim' = [claim EXCEPT ![p] = [@ EXCEPT !.pc = "bound", !.own = sockets']]

\* start(): the first look at the path.
DoorLaunches(p) ==
  /\ claim[p].pc = "off"
  /\ \/ path = 0 /\ Binds(p)
     \/ /\ path # 0
        /\ claim' = [claim EXCEPT ![p] = [@ EXCEPT !.pc = "probing", !.before = path]]
        /\ UNCHANGED <<path, sockets>>
  /\ UNCHANGED port

\* The connection: an owner answers, a path without one refuses, and a timeout decides
\* nothing.
DoorConnects(p) ==
  /\ claim[p].pc = "probing"
  /\ \E to \in {IF Owner # {} THEN "failing" ELSE IF path = 0 THEN "absent" ELSE "refused", "failing"} :
       claim' = [claim EXCEPT ![p].pc = to]
  /\ UNCHANGED <<path, port, sockets>>

\* Mutation: a refused connection is enough to take the path.
DoorClaimsUnchecked(p) ==
  /\ claim[p].pc \in {"refused", "absent"}
  /\ Binds(p)
  /\ UNCHANGED port

\* The second look: only the very socket that refused is removed, and the path bound
\* without a pause.
DoorClaims(p) ==
  /\ claim[p].pc \in {"refused", "absent"}
  /\ LET same == claim[p].pc = "refused" /\ path = claim[p].before
     IN \/ (path = 0 \/ same) /\ Binds(p)
        \/ /\ path # 0 /\ ~same
           /\ claim' = [claim EXCEPT ![p].pc = "failing"]
           /\ UNCHANGED <<path, sockets>>
  /\ UNCHANGED port

\* The client port decides the rest of the start.
DoorListens(p) ==
  /\ claim[p].pc = "bound"
  /\ \/ port = "none" /\ port' = p /\ claim' = [claim EXCEPT ![p].pc = "serving"]
     \/ port # "none" /\ claim' = [claim EXCEPT ![p].pc = "failing"] /\ UNCHANGED port
  /\ UNCHANGED <<path, sockets>>

\* close(), and a start that fails: the listeners close, and with the control listener
\* goes its path.
DoorCloses(p) ==
  /\ claim[p].pc \in {"serving", "failing"}
  /\ path' = IF claim[p].own # 0 THEN 0 ELSE path
  /\ port' = IF port = p THEN "none" ELSE port
  /\ claim' = [claim EXCEPT ![p] = [pc |-> "off", own |-> 0, before |-> 0]]
  /\ UNCHANGED sockets

\* A crash leaves the path behind.
DoorCrashes(p) ==
  /\ claim[p].pc # "off"
  /\ port' = IF port = p THEN "none" ELSE port
  /\ claim' = [claim EXCEPT ![p] = [pc |-> "off", own |-> 0, before |-> 0]]
  /\ UNCHANGED <<path, sockets>>

DoorStartNext ==
  \E p \in Launcher : \/ DoorLaunches(p) \/ DoorConnects(p) \/ DoorClaims(p)
                      \/ DoorListens(p) \/ DoorCloses(p) \/ DoorCrashes(p)

\* A door that serves keeps its maintenance path: no duplicate launcher, and no launcher
\* that found the remains of an earlier door, takes the socket of a running one.
ControlPathKept == \A p \in Launcher : claim[p].own # 0 => claim[p].own = path
=============================================================================
