----------------------------- MODULE MCRestarts -----------------------------
(***************************************************************************)
(* Three components through which a request, a command or an approval      *)
(* passes once, whatever restarts on its way: the door with two requests,  *)
(* recovery with two operations, and the approvals and runners of          *)
(* Operations.  They share no state: a behaviour follows one part, chosen  *)
(* at its start, and the parts take turns in using the variables x1 to     *)
(* x18; those a part does not use stay empty.                              *)
(***************************************************************************)
EXTENDS Naturals, Sequences

CONSTANTS Request, Class, Limit, HealthFailures, MaxSends, MaxStops,
          Worker, Id, MaxEvents, Certified, Targets, OperationId, MaxMishaps

VARIABLES part, x1, x2, x3, x4, x5, x6, x7, x8, x9,
          x10, x11, x12, x13, x14, x15, x16, x17, x18
vars == <<part, x1, x2, x3, x4, x5, x6, x7, x8, x9,
          x10, x11, x12, x13, x14, x15, x16, x17, x18>>

Dr == INSTANCE Door WITH kind <- x1, holdId <- x2, receipt <- x3, testing <- x4,
               closing <- x5, probe <- x6, fails <- x7, waiters <- x8, asked <- x9,
               rq <- x10, sends <- x11, cut <- x12, copy <- x13, ran <- x14,
               coreUp <- x15, stops <- x16
Rc == INSTANCE Recovery WITH adapter <- x1, svc <- x2, journal <- x3, calls <- x4,
               commands <- x5, events <- x6, ops <- x7, automatic <- x8,
               effective <- x9, prior <- x10, drained <- x11, quarantine <- x12,
               task <- x13, recovering <- x14, work <- x15, stopping <- x16,
               closed <- x17, asked <- x18
Os == INSTANCE Operations WITH Op <- OperationId,
               store <- x1, up <- x2, files <- x3, rec <- x4,
               reviewed <- x5, preparing <- x6, launching <- x7, changing <- x8,
               runner <- x9, returner <- x10, flock <- x11, outcome <- x12,
               returned <- x13, row <- x14, review <- x15, execs <- x16, mishaps <- x17

NormalAndTest == [r \in Request |-> IF r = "t" THEN "test" ELSE "normal"]

ASSUME RestartsGiven == Dr!DoorGiven /\ Rc!RecoveryGiven /\ Os!OperationsGiven

(* A bound of recovery: all that systemd's and docker's helpers and their  *)
(* services do, launchd's do as well, with the same checks.                *)
SmallerHost == x1["w1"] \in {"systemd", "docker"} => x6' <= 1

Init ==
    \/ part = "door" /\ Dr!Init /\ x17 = <<>> /\ x18 = <<>>
    \/ part = "recovery" /\ Rc!Init
    \/ part = "operations" /\ Os!OperationsInit /\ x18 = <<>>

Next ==
    /\ UNCHANGED part
    /\ \/ part = "door" /\ Dr!Next /\ UNCHANGED <<x17, x18>>
       \/ part = "recovery" /\ Rc!Next /\ SmallerHost
       \/ part = "operations" /\ Os!OperationsNext /\ UNCHANGED x18

Spec == Init /\ [][Next]_vars

(* What tells two states of the door apart here.  Receipts are compared    *)
(* with that of the hold in force only, a new one is nobody's, a release   *)
(* that names its hold does nothing beside one that names none, and with a *)
(* HealthFailures of 1 the failures before the next do not count.          *)
Asking == IF 0 \in x8 THEN "any" ELSE IF x2 \in x8 THEN "this" ELSE "none"
View == IF part = "door"
        THEN <<x1, x2 = 0, x2 = x3, x4, x5, x6, Asking, x9, x10, x11, x12, x13, x14, x15, x16>>
        ELSE vars

----------------------------------------------------------------------------
(* Of the door: its types and receipts, the requests it holds, and the end *)
(* of a hold.                                                              *)
TypeOK == part = "door" => Dr!TypeOK
ExecutedAtMostOnce == part = "door" => Dr!ExecutedAtMostOnce
NoneStranded == part = "door" => Dr!NoneStranded
ReleaseFenced == [][part = "door" => Dr!FencedEnd]_vars

(* Of recovery: its commands, its outcomes and the operator's pauses.      *)
CommandedOnce == part = "recovery" => Rc!CommandedOnce
EndsRespected == [][part = "recovery" => Rc!DefiniteEnds /\ Rc!PauseWins]_vars

(* Of approved operations: they run as approved, alone and once.           *)
ExecutedAlone == part = "operations" => Os!ExecutedAlone
=============================================================================
