SPECIFICATION Spec
CONSTANTS
    MediaJob = {"i", "j", "k"}
    Urgent = {"k"}
    Host = {"u", "v"}
    MaxDeaths = 1
    Pid = {"p", "q"}
    MaxVersion = 3
    MaxStarted = 4
    OverlappingStarts = FALSE
    MaxCommands = 3
    MaxHolds = 3
    Letter = {"F", "C", "U", "E", "D", "S", "sp", "CR", "LF"}
    MaxStream = 5
    MaxLine = 2
    Question = {"q", "r"}
    MaxText = 2
    MaxFaults = 3
    Asker = {"c", "d"}
    MaxRevision = 5
    MaxSlips = 2
    Launcher = {"x", "y", "z"}
    MaxSockets = 4
    Upload = {"a", "b"}
    MaxSize = 3
    BodyLimit = 2
    BodyBudget = 3
    WatchId = {"a", "b"}
    WatchedRequest = {1, 2}
    OfWatch <- Watched
    MaxWatched = 1
    MaxBeats = 2
    Page = {"p", "q"}
    DeskValue = {"v", "w"}
    MaxDesk = 2
    MaxDeskRestarts = 1
    MaxMessages = 2
    MaxBlocks = 2
    ImageLimit = 2
    Definition = {1, 2}
    MaxClock = 2
    MaxCount = 1
    MaxUpsets = 2
    MaxLogLines = 4
    MaxTurnovers = 2
    MaxRecords = 4
    MaxReconnects = 1
    AttrRequest = {1, 2, 3}
    AttrStart = {1, 2}
    MaxOddRows = 1
    AttrTruth <- Truths
    EvRequest = {1, 2}
    EvNode = {"a", "b"}
    MaxMoves = 2
    MaxPending = 2
    Batch = 2
    MaxStored = 3
    MaxJoined = 1
    MaxRescans = 1
    MaxProposals = 2
    MaxFailures = 1
    Endpoint = {"a", "b"}
    Keeper = {"p", "q"}
    NoteId = {"n"}
    ReceiptId = {"r"}
    MaxRows = 3
    MaxMisfortunes = 2
    MaxSetbacks = 2
    PowerWorker = {"g", "d"}
    Machine = {1, 2, 3}
    machineGroup <- Machines
    PowerCall = {"x", "y"}
    MaxWear = 1
INVARIANTS
    MediaOnce
    StoreSafe
    StopsFenced
    StreamUnderstood
    AskedByOwner
    GenieSound
    StudyOnce
    ControlPathKept
    EdgesSound
    ObservationSound
    ToolsSound
PROPERTIES
    OperatorHoldKept
    CrashRespected
CHECK_DEADLOCK FALSE
