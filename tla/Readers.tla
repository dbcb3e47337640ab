------------------------------- MODULE Readers ------------------------------
(***************************************************************************)
(* The dashboard's readers of what grows while they read: the files of the *)
(* machine, here, and the journal of another, below.                       *)
(*                                                                         *)
(* The readers of files are one protocol in several classes.  A behaviour  *)
(* follows one of them:                                                    *)
(*   log      an engine's log (file-telemetry.mjs FileLogReader)           *)
(*   events   the gateway's log (dashboard.mjs readEvents) and the samples *)
(*            of a hardware collector (hardware-telemetry.mjs FileSource)  *)
(*   history  routing evidence by day (request-history.mjs)                *)
(*   metrics  metric rows by day (fleet-speed.mjs, performance-lights.mjs, *)
(*            rate-peaks.mjs)                                              *)
(* A poll is one step: it is synchronous.  A file is a sequence of units; a*)
(* line is one unit with its number, or two when it is too long, and a     *)
(* newline.  A line of the log may announce a new process of the engine.   *)
(***************************************************************************)
EXTENDS Naturals, Sequences
LOCAL INSTANCE FiniteSetsExt
LOCAL INSTANCE SequencesExt

CONSTANTS MaxLogLines,     \* bound: lines written
          MaxTurnovers     \* bound: rotations and truncations

LineUnits == 1             \* LINE_BYTES
ReadUnits == 2             \* READ_BYTES
TailUnits == 3             \* TAIL_BYTES, and READ_BYTES after a reset
AnchorUnits == 2

VARIABLES style, logFiles, turnovers, reader,
          written      \* how many lines were begun, and those written whole and not too long
tailVars == <<style, logFiles, written, turnovers, reader>>

Daily == style \in {"history", "metrics"}     \* one file a day, the last two are read
Anchored == style # "events"
Tailed == style # "metrics"

NL == [line |-> 0, mark |-> FALSE]
NewFile(name, id) == [name |-> name, id |-> id, body |-> <<>>]
NoEpoch == [line |-> 0, at |-> 0]
Cursor(id, size) == LET from == IF Tailed /\ size > TailUnits THEN size - TailUnits ELSE 0 IN
    [id |-> id, offset |-> from, from |-> from, anchor |-> <<>>, fragment |-> <<>>,
     skipping |-> from > 0, epoch |-> NoEpoch]
NoReader == [names |-> {}, cursor |-> <<>>, rows |-> <<>>]

TailsInit ==
    /\ style \in {"log", "events", "history", "metrics"}
    /\ logFiles = <<NewFile(1, 1)>> /\ written = [begun |-> 0, whole |-> {}] /\ turnovers = 0 /\ reader = NoReader

----------------------------------------------------------------------------
(* The writer, of which a poll may see any prefix of a line.               *)
Tail1 == Len(logFiles)
Body == logFiles[Tail1].body
MidLine == Body # <<>> /\ Last(Body) # NL
Long == Len(Body) > 1 /\ Body[Len(Body) - 1] = Last(Body)
Puts(u) == logFiles' = [logFiles EXCEPT ![Tail1].body = Append(@, u)]
BeginsLine ==
    /\ ~MidLine /\ written.begun < MaxLogLines /\ written' = [written EXCEPT !.begun = @ + 1]
    /\ \E m \in {FALSE, style = "log"} : Puts([line |-> written.begun + 1, mark |-> m])
    /\ UNCHANGED <<style, turnovers, reader>>
GoesOn ==
    /\ MidLine /\ ~Long /\ Puts(Last(Body))
    /\ UNCHANGED <<style, turnovers, reader, written>>
EndsLine ==
    /\ MidLine /\ Puts(NL)
    /\ written' = IF Long THEN written ELSE [written EXCEPT !.whole = @ \cup {Last(Body).line}]
    /\ UNCHANGED <<style, turnovers, reader>>

(* A new file: under the next day's name, or in the place of the old one.  *)
NextFile ==
    /\ turnovers < MaxTurnovers /\ turnovers' = turnovers + 1
    /\ LET l == logFiles[Tail1] IN
       logFiles' = IF Daily THEN Append(logFiles, NewFile(l.name + 1, l.id + 1)) ELSE <<NewFile(l.name, l.id + 1)>>
    /\ UNCHANGED <<style, written, reader>>
(* Copied and truncated; gateway.log is not treated so.                    *)
Truncated ==
    /\ style # "events" /\ turnovers < MaxTurnovers /\ turnovers' = turnovers + 1
    /\ logFiles' = [logFiles EXCEPT ![Tail1].body = <<>>]
    /\ UNCHANGED <<style, written, reader>>

----------------------------------------------------------------------------
(* accept, of a whole line at position at: FileLogReader adds the process. *)
Attributed(c, u, at) == IF style = "log" /\ ~u.mark /\ c.epoch.line # 0 /\ at > c.epoch.at
                        THEN c.epoch.line ELSE 0
AcceptLine(s, u, at) ==
    [c |-> IF u.mark THEN [s.c EXCEPT !.epoch = [line |-> u.line, at |-> at]] ELSE s.c,
     rows |-> IF \E r \in Range(s.rows) : r.line = u.line THEN s.rows     \* seen
              ELSE Append(s.rows, [line |-> u.line, mark |-> u.mark, id |-> s.c.id,
                                   epoch |-> Attributed(s.c, u, at)])]

(* One unit of the buffer: a newline ends a line, which is dropped if it   *)
(* began before the reading or is too long.                                *)
Unit(s, u, at) ==
    IF u # NL THEN [s EXCEPT !.c.fragment = Append(@, u)]
    ELSE LET whole == ~s.c.skipping /\ Len(s.c.fragment) \in 1..LineUnits
             t == IF whole THEN AcceptLine(s, s.c.fragment[1], at - Len(s.c.fragment)) ELSE s IN
         [t EXCEPT !.c.fragment = <<>>, !.c.skipping = FALSE]

Bounded(c) == IF c.skipping \/ Len(c.fragment) > LineUnits
              THEN [c EXCEPT !.fragment = <<>>, !.skipping = TRUE] ELSE c

ReadOn(s, body) ==
    LET n == Min({ReadUnits, Len(body) - s.c.offset})
        from == s.c.offset
        end == from + n
        t == FoldLeftDomain(LAMBDA acc, i : Unit(acc, body[from + i], from + i),
                            [s EXCEPT !.c.offset = end], SubSeq(body, from + 1, end))
        keep == Min({AnchorUnits, end}) IN
    [t EXCEPT !.c = [Bounded(t.c) EXCEPT !.anchor = SubSeq(body, end - keep + 1, end)]]

ChangedUnanchored(c, f) == c.id # f.id \/ Len(f.body) < c.offset          \* mutant
FileChanged(c, f) ==
    \/ c.id # f.id \/ Len(f.body) < c.offset
    \/ Anchored /\ SubSeq(f.body, c.offset - Len(c.anchor) + 1, c.offset) # c.anchor

(* scanEpoch: the last process announced in the file.                      *)
Marks(body) == {i \in 1..Len(body) : /\ body[i].mark /\ i < Len(body) /\ body[i + 1] = NL
                                     /\ (i = 1 \/ body[i - 1] = NL)}
Scanned(s, body) == IF style # "log" \/ Marks(body) = {} THEN s
                    ELSE LET i == Max(Marks(body)) IN AcceptLine(s, body[i], i)

(* poll of log and events: a changed file is begun anew, from its tail.    *)
PollsOne == LET f == logFiles[1]
                c == IF reader.names # {} /\ ~FileChanged(reader.cursor[1], f) THEN reader.cursor[1]
                     ELSE Cursor(f.id, Len(f.body))
                s == [c |-> c, rows |-> reader.rows]
                t == ReadOn(IF reader.names # {} /\ c = reader.cursor[1] THEN s ELSE Scanned(s, f.body),
                            f.body) IN
    /\ ~Daily
    /\ reader' = [names |-> {1}, cursor |-> <<t.c>>, rows |-> t.rows]
    /\ UNCHANGED <<style, logFiles, written, turnovers>>

(* poll of history and metrics: when a file left the window or changed,    *)
(* all is forgotten and the next poll begins anew.  The older file is      *)
(* finished before the newer one is opened.                                *)
TailWindow == {i \in 1..Len(logFiles) : i > Len(logFiles) - 2}
Gone == \E m \in reader.names : \A i \in TailWindow : logFiles[i].name # m
ChangedFile(i) == logFiles[i].name \in reader.names /\ FileChanged(reader.cursor[logFiles[i].name], logFiles[i])
CursorOf(r, i) == IF logFiles[i].name \in r.names THEN r.cursor[logFiles[i].name]
                  ELSE Cursor(logFiles[i].id, Len(logFiles[i].body))
ReadFile(r, i) == LET t == ReadOn([c |-> CursorOf(r, i), rows |-> r.rows], logFiles[i].body)
                      name == logFiles[i].name IN
    [names |-> r.names \cup {name}, rows |-> t.rows,
     cursor |-> [m \in r.names \cup {name} |-> IF m = name THEN t.c ELSE r.cursor[m]]]
BacklogIgnored(r, i) == FALSE                                            \* mutant
Backlog(r, i) == r.cursor[logFiles[i].name].offset < Len(logFiles[i].body)
PollsDaily == LET i == Min(TailWindow)
                  r == ReadFile(reader, i) IN
    /\ Daily
    /\ reader' = CASE Gone \/ ChangedFile(i) -> NoReader
                   [] ~Gone /\ ~ChangedFile(i) /\ (i = Tail1 \/ Backlog(r, i)) -> r
                   [] OTHER -> IF ChangedFile(Tail1) THEN NoReader ELSE ReadFile(r, Tail1)
    /\ UNCHANGED <<style, logFiles, written, turnovers>>

TailsNext == BeginsLine \/ GoesOn \/ EndsLine \/ NextFile \/ Truncated \/ PollsOne \/ PollsDaily

----------------------------------------------------------------------------
(* What reading the files at once gives: the lines of at most LineUnits    *)
(* whose end was reached and which begin after the first newline that was  *)
(* read, or at the beginning of the file.                                  *)
WholeIn(body, from, to) == {body[i].line : i \in {i \in (from + 1)..(to - 1) :
    /\ body[i] # NL /\ body[i + 1] = NL
    /\ IF i = 1 THEN from = 0 ELSE body[i - 1] = NL /\ (from = 0 \/ i - 1 > from)}}
Shown == {r.line : r \in {x \in Range(reader.rows) : ~x.mark}}
TailReadable == UNION {LET f == logFiles[i]  c == reader.cursor[f.name] IN
    WholeIn(f.body, c.from, c.offset) : i \in {i \in TailWindow : logFiles[i].name \in reader.names}}
Unchanged == ~Gone /\ \A i \in TailWindow : ~ChangedFile(i)

(* Whatever is written, rotated, truncated and regrown between polls:      *)
(* every row is a line that was written whole, rows come in the order they *)
(* were written and once, and as long as no file has changed under the     *)
(* reader, reading it piece by piece has given what reading it at once     *)
(* gives.  A process is put to a row only if it is the last one announced  *)
(* before it in the same file.                                             *)
TailsSound ==
    /\ \A r \in Range(reader.rows) : r.line \in written.whole
    /\ \A i, j \in 1..Len(reader.rows) : i < j => \/ reader.rows[i].line < reader.rows[j].line
                                                  \/ reader.rows[i].mark \* announced by the scan
    /\ (Unchanged /\ Daily) => Shown = TailReadable
    /\ (Unchanged /\ reader.names # {}) => TailReadable \subseteq {r.line : r \in Range(reader.rows)}
    /\ \A r \in Range(reader.rows) : r.epoch # 0 =>
         /\ r.epoch < r.line
         /\ \A x \in Range(reader.rows) : (x.mark /\ x.id = r.id) => ~(r.epoch < x.line /\ x.line < r.line)
         /\ \E x \in Range(reader.rows) : x.mark /\ x.line = r.epoch /\ x.id = r.id

----------------------------------------------------------------------------
(***************************************************************************)
(* Following an engine's journal over SSH: follow and syncDevices of       *)
(* ds4-gateway/dashboard.mjs, JournalReader and DeviceTelemetry of         *)
(* telemetry.mjs.  A connection replays a bounded part of the journal and  *)
(* goes on with what is new; it may end at any record, the journal may     *)
(* have dropped the record the reader stopped at, and the worker's         *)
(* definition may change while an old connection is still delivering.      *)
(***************************************************************************)
CONSTANTS MaxRecords,      \* bound: journal records
          MaxReconnects    \* bound: connections that ended

ReplayRecords == 2         \* journalctl -n 2000
SeenRecords == 3           \* seen: 5000 cursors

VARIABLES journal,     \* the process of each record (0 if the journal gives none)
          vacuumed,    \* how many of the oldest the journal has dropped
          link,        \* the SSH child: which reader, next record, and exit
          devices,     \* JournalReader and DeviceTelemetry of the present and earlier definitions
          ended
journalVars == <<journal, vacuumed, link, devices, ended>>

NoLink == [up |-> FALSE, owner |-> 0, next |-> 0, retry |-> "none"]
FreshDevice == [cursor |-> 0, time |-> 0, seen |-> <<>>, epoch |-> 0, counted |-> <<>>, floor |-> 0]

JournalInit ==
    /\ journal = <<>> /\ vacuumed = 0 /\ ended = 0
    /\ devices = <<FreshDevice>> /\ link = [n \in 1..2 |-> NoLink]

Device == Len(devices)              \* readers.get(node.id)
Second(i) == (i + 1) \div 2         \* two records a second

(* The engine writes; a record may carry no process identity.              *)
Logs ==
    /\ Len(journal) < MaxRecords
    /\ LET p == Max({1} \cup Range(journal)) IN
       \E q \in {0, p, p + 1} : journal' = Append(journal, q)
    /\ UNCHANGED <<vacuumed, link, devices, ended>>
Vacuums ==
    /\ vacuumed < Len(journal) /\ vacuumed' = vacuumed + 1
    /\ UNCHANGED <<journal, link, devices, ended>>

----------------------------------------------------------------------------
(* follow: after the cursor, since the last time seen, or the last minutes;*)
(* never more than ReplayRecords of the past.                              *)
Floor == Max({vacuumed} \cup {Len(journal) - ReplayRecords : x \in {1} \cap 1..(Len(journal) - ReplayRecords)})
Resumed(d, reset) ==
    LET wanted == {i \in (Floor + 1)..Len(journal) :
                     IF d.cursor # 0 /\ ~reset THEN i > d.cursor ELSE Second(i) >= d.time} IN
    Min(wanted \cup {Len(journal) + 1})
FreeLinks == {n \in 1..2 : ~link[n].up /\ link[n].retry = "none"}
Connects(n, reset) ==
    /\ link' = [link EXCEPT ![n] = [up |-> TRUE, owner |-> Device,
                   next |-> Resumed(devices[Device], reset), retry |-> "none"]]
    /\ devices' = [devices EXCEPT ![Device].floor = Floor]

(* syncDevices: the first connection of a reader, and another definition,  *)
(* whose reader and device are new; the old child is killed.               *)
JournalFollows ==
    /\ FreeLinks # {} /\ \A n \in 1..2 : link[n].owner # Device
    /\ Connects(Min(FreeLinks), FALSE)
    /\ UNCHANGED <<journal, vacuumed, ended>>
Redefined ==
    /\ Device = 1
    /\ devices' = Append(devices, FreshDevice)
    /\ UNCHANGED <<journal, vacuumed, link, ended>>

(* The connection ends.  An exit code of journalctl itself, as for a cursor*)
(* the journal no longer has, makes the reader go by time.                 *)
LinkEnds(n) ==
    /\ link[n].up /\ ended < MaxReconnects /\ ended' = ended + 1
    /\ \E code \in {"lost", "refused"} :
         link' = [link EXCEPT ![n] = IF link[n].owner = Device
                    THEN [NoLink EXCEPT !.owner = Device, !.retry = code] ELSE NoLink]
    /\ UNCHANGED <<journal, vacuumed, devices>>
Reconnects(n) ==
    /\ link[n].retry # "none"
    /\ IF link[n].owner = Device THEN Connects(n, link[n].retry = "refused")
       ELSE link' = [link EXCEPT ![n] = NoLink] /\ UNCHANGED devices
    /\ UNCHANGED <<journal, vacuumed, ended>>

----------------------------------------------------------------------------
(* observeEpoch: a new process forgets what was counted of the old one.  A *)
(* record without a process is not counted.                                *)
Observed(d, i) == LET p == journal[i] IN
    CASE p = 0 -> d
      [] p # 0 /\ p = d.epoch -> [d EXCEPT !.counted = Append(@, i)]
      [] OTHER -> [d EXCEPT !.epoch = p, !.counted = <<i>>]
(* accept of JournalReader: known cursors are dropped, of the last ones.   *)
SeenShort(s) == IF s = <<>> THEN s ELSE <<Last(s)>>                      \* mutant
SeenKept(s) == IF Len(s) > SeenRecords THEN Tail(s) ELSE s
Accepted(d, i) ==
    IF Contains(d.seen, i) THEN d
    ELSE Observed([d EXCEPT !.cursor = i, !.time = Second(i), !.seen = SeenKept(Append(@, i))], i)
Delivers(n) == LET l == link[n] IN
    /\ l.up /\ l.next <= Len(journal)
    /\ l.next > vacuumed
    /\ devices' = [devices EXCEPT ![l.owner] = Accepted(@, l.next)]
    /\ link' = [link EXCEPT ![n].next = @ + 1]
    /\ UNCHANGED <<journal, vacuumed, ended>>

JournalNext ==
    \/ Logs \/ Vacuums \/ JournalFollows \/ Redefined
    \/ \E n \in 1..2 : LinkEnds(n) \/ Reconnects(n) \/ Delivers(n)

----------------------------------------------------------------------------
(* However connections end and resume: what a device counts are records of *)
(* one process of the engine, each once and in order, and none of that     *)
(* process is left out since the first, but for those the journal had      *)
(* dropped or the replay was too short for.                                *)
JournalSound == \A k \in 1..Len(devices) : LET d == devices[k] IN
    /\ \A i \in 1..Len(d.counted) : journal[d.counted[i]] = d.epoch
    /\ \A i \in 2..Len(d.counted) : d.counted[i - 1] < d.counted[i]
    /\ d.counted # <<>> => \A i \in d.counted[1]..d.cursor :
         journal[i] = d.epoch => Contains(d.counted, i) \/ i <= d.floor
=============================================================================
