---------------------------- MODULE MCStandalone ----------------------------
(***************************************************************************)
(* Twenty-one components that share no state with the scheduler or with    *)
(* each other, for TLC.  Of the gateway: the media queue, the state file   *)
(* and its lock, the operator's service commands, the observer of streamed *)
(* answers, a conversation with Genie, his reviews and studies, the start  *)
(* of the door.  At its edges: uploads that wait, clients that watch, the  *)
(* operator's desk, refused images.  Observation: engine telemetry, tailed *)
(* files, the journal of a host, the attribution of engine rows, the       *)
(* request history.  Genie's tools: an admission, his journals, a new      *)
(* host, the power switches.  A behaviour follows one part, chosen at its  *)
(* start: the parts take turns in using the variables x1 to x10, and those *)
(* a part does not use stay empty.                                         *)
(***************************************************************************)
EXTENDS Naturals, Sequences

CONSTANTS MediaJob, Urgent, Host, MaxDeaths, Pid, MaxVersion, MaxStarted,
          OverlappingStarts, MaxCommands, MaxHolds, Letter, MaxStream, MaxLine,
          Question, MaxText, MaxFaults, Asker, MaxRevision, MaxSlips, Launcher,
          MaxSockets,
          Upload, MaxSize, BodyLimit, BodyBudget, WatchId, WatchedRequest, OfWatch,
          MaxWatched, MaxBeats, Page, DeskValue, MaxDesk, MaxDeskRestarts,
          MaxMessages, MaxBlocks, ImageLimit, Definition, MaxClock, MaxCount,
          MaxUpsets, MaxLogLines, MaxTurnovers, MaxRecords, MaxReconnects,
          AttrRequest, AttrStart, MaxOddRows, AttrTruth, EvRequest, EvNode,
          MaxMoves, MaxPending, Batch, MaxStored, MaxJoined, MaxRescans, Endpoint,
          MaxProposals, MaxFailures, Keeper, NoteId, ReceiptId, MaxRows,
          MaxMisfortunes, MaxSetbacks, PowerWorker, Machine, machineGroup,
          PowerCall, MaxWear

VARIABLES part, x1, x2, x3, x4, x5, x6, x7, x8, x9, x10
vars == <<part, x1, x2, x3, x4, x5, x6, x7, x8, x9, x10>>

Me == INSTANCE MediaQueue WITH queued <- x1, assigned <- x2, op <- x3, sent <- x4,
               deaths <- x5
St == INSTANCE Store WITH proc <- x1, lock <- x2, disk <- x3, durable <- x4,
               memory <- x5, acked <- x6, clock <- x7
Su == INSTANCE Supervisor WITH core <- x1, signals <- x2, door <- x3, cmd <- x4,
               commands <- x5, holds <- x6
Sm == INSTANCE Stream WITH route <- x1, bytes <- x2, seen <- x3
Ch == INSTANCE Chat WITH conv <- x1, saved <- x2, checkpoint <- x3, turn <- x4,
               alive <- x5, suspended <- x6, faults <- x7, accepted <- x8,
               asked <- x9, uncertain <- x10
Ge == INSTANCE Genie WITH switch <- x1, underTest <- x2, assessing <- x3, receipt <- x4,
               held <- x5, micro <- x6, chatting <- x7, received <- x8,
               revoked <- x9, spoke <- x10
Sy == INSTANCE Study WITH plan <- x1, page <- x2, study <- x3, blocked <- x4,
               starting <- x5, slips <- x6, periods <- x7, automatic <- x8
Ds == INSTANCE DoorStart WITH path <- x1, claim <- x2, port <- x3, sockets <- x4
Up == INSTANCE Uploads WITH intake <- x1
Wt == INSTANCE Watch WITH watch <- x1, beats <- x2, watchStage <- x3
Dk == INSTANCE Desk WITH kind <- x1, gate <- x2, session <- x3, deskPage <-
               x4, command <- x5
Im == INSTANCE Images WITH original <- x1, passedOn <- x2, repair <- x3,
               verdict <- x4, reason <- x5, unread <- x6, converter <- x7
Te == INSTANCE Telemetry WITH tick <- x1, upsets <- x2, engine <- x3, meter
               <- x4, probe <- x5, notebook <- x6
Rd == INSTANCE Readers WITH style <- x1, logFiles <- x2, written <- x3,
               turnovers <- x4, reader <- x5, journal <- x1, vacuumed <- x2,
               link <- x3, devices <- x4, ended <- x5
At == INSTANCE Attribution WITH windows <- x1, starts <- x2, latest <- x3,
               owners <- x4, rivals <- x5, truth <- x6, oddRows <- x7
Ev == INSTANCE Evidence WITH life <- x1, ds <- x2, stored <- x3, join <- x4
Ad == INSTANCE Admission WITH fleet <- x1, draft <- x2, completed <- x3,
               stageRun <- x4, look <- x5, effect <- x6, failures <- x7
No == INSTANCE Notebook WITH file <- x1, memo <- x2, promised <- x3,
               misfortunes <- x4
Sp == INSTANCE Spark WITH host <- x1, request <- x2, tickStep <- x3, prompt
               <- x4, call <- x5, enlisted <- x6, worker <- x7, adds <- x8,
               setbacks <- x9
Po == INSTANCE Power WITH models <- x1, atWork <- x2, power <- x3, running
               <- x4, told <- x5, wear <- x6

ASSUME StandaloneGiven == Me!MediaGiven /\ St!StoreGiven /\ Sy!StudyGiven /\ Ch!ChatGiven

(* Both requests of the client watch belong to the first client.           *)
Watched == <<"a", "a">>
(* Two requests to attribute and a third that is on its way at the same    *)
(* time, with or without rows of its own at the engine.                    *)
Truths == {<<[sent |-> 1, done |-> 2, usage |-> 1], [sent |-> 2, done |-> 5, usage |-> 1], r>> :
             r \in {[sent |-> 2, done |-> 2, usage |-> 0], [sent |-> 1, done |-> 5, usage |-> 2]}}
(* Two models of two machines each, with one machine in common.            *)
Machines == [w \in PowerWorker |-> IF w = "g" THEN {1, 2} ELSE {2, 3}]

(* Bounds of this run.  The dashboard restarts while a switch or a waiting *)
(* request is changed; how a number and a context are changed differs in   *)
(* the gate, which outlives it.  Of two definitions of a worker, of two    *)
(* workers of the first request, one may come first: they are              *)
(* interchangeable.  And the second endpoint of an admission is there to   *)
(* be inspected and named beside the first: its worker is enrolled by an   *)
(* admission only, and its health stays as it is.                          *)
DeskBound == x1 \in {"number", "context"} => UNCHANGED x3
FirstDefinition == x2' = 0 => x4'.key # 2
FirstWorker == x1[1].node = "a"
FirstEndpoint == x1[<<"b", 0>>] = "absent"
OtherStays == x1' # x1 => \A c \in DOMAIN x1 :
                  (c[1] = "b" /\ x1[c] # "absent") => x1'[c] = x1[c]

(* The variables from one on are not used.                                 *)
From10 == x10 = <<>>
From9 == x9 = <<>> /\ From10
From8 == x8 = <<>> /\ From9
From7 == x7 = <<>> /\ From8
From6 == x6 = <<>> /\ From7
From5 == x5 = <<>> /\ From6
From4 == x4 = <<>> /\ From5
From3 == x3 = <<>> /\ From4
From2 == x2 = <<>> /\ From3
Kept10 == UNCHANGED x10
Kept9 == UNCHANGED x9 /\ Kept10
Kept8 == UNCHANGED x8 /\ Kept9
Kept7 == UNCHANGED x7 /\ Kept8
Kept6 == UNCHANGED x6 /\ Kept7
Kept5 == UNCHANGED x5 /\ Kept6
Kept4 == UNCHANGED x4 /\ Kept5
Kept3 == UNCHANGED x3 /\ Kept4
Kept2 == UNCHANGED x2 /\ Kept3

Init ==
    \/ part = "media" /\ Me!MediaInit /\ From6
    \/ part = "store" /\ St!StoreInit /\ From8
    \/ part = "supervisor" /\ Su!SupervisorInit /\ From7
    \/ part = "stream" /\ Sm!StreamInit /\ From4
    \/ part = "chat" /\ Ch!ChatInit
    \/ part = "genie" /\ Ge!GenieInit
    \/ part = "study" /\ Sy!StudyInit /\ From9
    \/ part = "doorstart" /\ Ds!DoorStartInit /\ From5
    \/ part = "uploads" /\ Up!UploadsInit /\ From2
    \/ part = "watch" /\ Wt!WatchInit /\ From4
    \/ part = "desk" /\ Dk!DeskInit /\ From6
    \/ part = "images" /\ Im!ImagesInit /\ From8
    \/ part = "telemetry" /\ Te!TelemetryInit /\ From7
    \/ part = "tails" /\ Rd!TailsInit /\ From6
    \/ part = "journal" /\ Rd!JournalInit /\ From6
    \/ part = "attribution" /\ At!AttributionInit /\ From8
    \/ part = "evidence" /\ Ev!EvidenceInit /\ FirstWorker /\ From5
    \/ part = "admission" /\ Ad!AdmissionInit /\ FirstEndpoint /\ From8
    \/ part = "notebook" /\ No!NotebookInit /\ From5
    \/ part = "spark" /\ Sp!SparkInit /\ From10
    \/ part = "power" /\ Po!PowerInit /\ From7

Next ==
    /\ UNCHANGED part
    /\ \/ part = "media" /\ Me!MediaNext /\ Kept6
       \/ part = "store" /\ St!StoreNext /\ Kept8
       \/ part = "supervisor" /\ Su!SupervisorNext /\ Kept7
       \/ part = "stream" /\ Sm!StreamNext /\ Kept4
       \/ part = "chat" /\ Ch!ChatNext
       \/ part = "genie" /\ Ge!GenieNext
       \/ part = "study" /\ Sy!StudyNext /\ Kept9
       \/ part = "doorstart" /\ Ds!DoorStartNext /\ Kept5
       \/ part = "uploads" /\ Up!UploadsNext /\ Kept2
       \/ part = "watch" /\ Wt!WatchNext /\ Kept4
       \/ part = "desk" /\ Dk!DeskNext /\ DeskBound /\ Kept6
       \/ part = "images" /\ Im!ImagesNext /\ Kept8
       \/ part = "telemetry" /\ Te!TelemetryNext /\ FirstDefinition /\ Kept7
       \/ part = "tails" /\ Rd!TailsNext /\ Kept6
       \/ part = "journal" /\ Rd!JournalNext /\ Kept6
       \/ part = "attribution" /\ At!AttributionNext /\ Kept8
       \/ part = "evidence" /\ Ev!EvidenceNext /\ Kept5
       \/ part = "admission" /\ Ad!AdmissionNext /\ OtherStays /\ Kept8
       \/ part = "notebook" /\ No!NotebookNext /\ Kept5
       \/ part = "spark" /\ Sp!SparkNext /\ Kept10
       \/ part = "power" /\ Po!PowerNext /\ Kept7

Spec == Init /\ [][Next]_vars

----------------------------------------------------------------------------
(* The properties of the parts of the gateway, each of its own part.       *)
MediaOnce == part = "media" => Me!MediaOnce
StoreSafe == part = "store" => St!StoreSafe
StopsFenced == part = "supervisor" => Su!StopsFenced
OperatorHoldKept == [][part = "supervisor" => Su!OperatorEndsHold]_vars
StreamUnderstood == part = "stream" => Sm!StreamUnderstood
AskedByOwner == part = "chat" => Ch!AskedByOwner
CrashRespected == [][part = "chat" => Ch!OwnerDecides /\ Ch!PartialKept]_vars
GenieSound == part = "genie" => Ge!GenieSound
StudyOnce == part = "study" => Sy!StudyOnce
ControlPathKept == part = "doorstart" => Ds!ControlPathKept

(* What the edges of the gateway promise: an upload that waits keeps its   *)
(* bytes within the budget and in order, a client that watches is told of  *)
(* its own latest request, an operator's change is applied once and is what*)
(* his page shows, and a repaired image request loses only its images.     *)
EdgesSound ==
    /\ part = "uploads" => Up!UploadsSound
    /\ part = "watch" => Wt!WatchSound
    /\ part = "desk" => Dk!DeskSound
    /\ part = "images" => Im!ImagesSound

(* What observation promises: no rate over a restart of an engine, every   *)
(* line of a tailed file at most once, no journal record twice, no engine  *)
(* row given to a request it may not belong to, no handover that was not.  *)
ObservationSound ==
    /\ part = "telemetry" => Te!TelemetrySound
    /\ part = "tails" => Rd!TailsSound
    /\ part = "journal" => Rd!JournalSound
    /\ part = "attribution" => At!AttributionSound
    /\ part = "evidence" => Ev!EvidenceSound

(* What Genie's own tools promise: stages in the approved order and only on*)
(* what was approved, journals whose acknowledged rows stay, one worker for*)
(* a new host, and one change of power at a time on shared hardware.       *)
ToolsSound ==
    /\ part = "admission" => Ad!AdmissionSound
    /\ part = "notebook" => No!NotebookSound
    /\ part = "spark" => Sp!SparkSound
    /\ part = "power" => Po!PowerSound
=============================================================================
