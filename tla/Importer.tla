------------------------------- MODULE Importer -------------------------------
(***************************************************************************)
(* The transcript importer beside the program that writes the transcript   *)
(* and the writer that commits what it sends: collect/sessions/mod.rs,     *)
(* with import.rs and derive.rs as the operators of Deriver and            *)
(* writer/inserts.rs as Apply.  The write path is the log OrderedLog       *)
(* promises: records are committed in the order sent, and a process that   *)
(* dies loses a suffix of them.                                            *)
(*                                                                         *)
(* One transcript is modelled: passes handle files one after another and   *)
(* share nothing between them but the connection.                          *)
(***************************************************************************)
EXTENDS Derivation

CONSTANTS
  CoarseTimes,  \* whether an append may leave the modification time as it was
  MaxWire,      \* bound: records on their way when a file is read
  MaxFailures,  \* bound: reads and rows that fail
  MaxRestarts,  \* bound: times the importer, or the whole process, is started again
  MaxMoves      \* bound: times the file leaves its directory

ASSUME ImporterAssumption ==
  /\ CoarseTimes \in BOOLEAN
  /\ MaxWire \in Nat
  /\ {MaxFailures, MaxRestarts, MaxMoves} \subseteq Nat

\* rows, of Derivation, are the whole lines of the transcript.
VARIABLES
  torn,       \* the file ends in a line that is not whole
  mtime,      \* the modification time a scan reads
  quiet,      \* that time is more than two poll intervals ago
  place,      \* whether a scan finds the file, and whether exists() does
  pc,         \* where the importer stands in its pass
  scanned,    \* what discovery::scan read of the file
  position,   \* <<>> or the Position kept in memory
  wire,       \* records sent and not yet committed
  db,         \* the tables the importer feeds, and the rows refused there (history)
  failures,   \* reads and rows that failed
  panics,     \* starts of the importer by its supervisor
  crashes,    \* starts of the process after the first
  moves       \* times the file left

file == <<rows, torn, mtime, quiet, place, moves>>
importer == <<pc, scanned, position, failures, panics, crashes>>
vars == <<rows, torn, mtime, quiet, place, pc, scanned, position, wire, db,
          failures, panics, crashes, moves>>

\* listed: in its directory.  unlisted: the directory cannot be listed, but the
\* file can be asked about.  gone: it cannot.
Places == {"listed", "unlisted", "gone"}

Size == End(rows) + (IF torn THEN 1 ELSE 0)

EmptyTables == [turns |-> {}, tools |-> {}, versions |-> {}, mark |-> <<>>, refused |-> {}]

Init ==
  /\ Empty /\ torn = FALSE /\ mtime = 0 /\ quiet = FALSE
  /\ place = "listed" /\ moves = 0
  /\ pc = "load" /\ scanned = <<>> /\ position = <<>>
  /\ failures = 0 /\ panics = 0 /\ crashes = 0
  /\ wire = <<>> /\ db = EmptyTables

-----------------------------------------------------------------------------
(* Claude Code, the file system and time.                                  *)

\* An append moves the time a scan reads, unless the clock of the file system
\* is too coarse or the directory entry lags behind.
Touched ==
  \/ mtime' = mtime + 1 /\ quiet' = FALSE
  \/ CoarseTimes /\ UNCHANGED <<mtime, quiet>>

BeginLine ==
  /\ ~torn
  /\ Len(rows) < MaxRows
  /\ torn' = TRUE
  /\ Touched
  /\ UNCHANGED <<rows, place, moves, importer, wire, db>>

FinishLine ==
  /\ torn
  /\ Write
  /\ torn' = FALSE
  /\ Touched
  /\ UNCHANGED <<place, moves, importer, wire, db>>

Age ==
  /\ ~quiet
  /\ quiet' = TRUE
  /\ UNCHANGED <<rows, torn, mtime, place, moves, importer, wire, db>>

Leave ==
  /\ place = "listed"
  /\ moves < MaxMoves
  /\ place' \in {"unlisted", "gone"}
  /\ moves' = moves + 1
  /\ UNCHANGED <<rows, torn, mtime, quiet, importer, wire, db>>

Return ==
  /\ place # "listed"
  /\ place' = "listed"
  /\ UNCHANGED <<rows, torn, mtime, quiet, moves, importer, wire, db>>

-----------------------------------------------------------------------------
(* The importer.                                                           *)

Matches(p, t) == p.complete /\ p.mtime = t.mtime /\ p.size = t.size

\* load_positions: what is committed is all a fresh start knows.
Load ==
  /\ pc = "load"
  /\ position' = [i \in DOMAIN db.mark |->
       [offset |-> db.mark[i].offset, size |-> db.mark[i].offset,
        mtime |-> db.mark[i].mtime, complete |-> TRUE]]
  /\ pc' = "scan"
  /\ UNCHANGED <<file, scanned, wire, db, failures, panics, crashes>>

\* The positions cannot be read: said, and the body returns.
LoadFails ==
  /\ pc = "load"
  /\ pc' = "ended"
  /\ UNCHANGED <<file, scanned, position, wire, db, failures, panics, crashes>>

\* The supervisor takes a body that returns for one that panics, and starts it again.
StartAgain ==
  /\ pc = "ended"
  /\ pc' = "load"
  /\ UNCHANGED <<file, scanned, position, wire, db, failures, panics, crashes>>

\* forget_departed: the position of a file that cannot be found is dropped, here
\* and in the database.
Departed == place = "gone" /\ position # <<>>

\* Mutant: the position is dropped in memory only.
ForgettingInMemory(sent) == sent

Forgetting(sent) == Append(sent, [what |-> "forget"])

\* Every poll interval: scan, and read the file unless it looks exactly like what was read before.
Scan ==
  /\ pc = "scan"
  /\ position' = IF Departed THEN <<>> ELSE position
  /\ wire' = IF Departed THEN Forgetting(wire) ELSE wire
  /\ LET seen == [size |-> Size, mtime |-> mtime, old |-> quiet]
     IN  IF place = "listed" /\ ~(position # <<>> /\ Matches(position[1], seen))
           THEN pc' = "read" /\ scanned' = <<seen>>
           ELSE UNCHANGED <<pc, scanned>>
  /\ UNCHANGED <<file, db, failures, panics, crashes>>

\* How old the scanned time is when the file's turn comes: time has passed, and
\* a long backfill may have been read, since the scan.
Settled ==
  IF scanned[1].mtime = mtime THEN {quiet}
  ELSE IF scanned[1].old THEN {TRUE} ELSE BOOLEAN

\* Mutant: the mark goes first, and its rows follow.
SentMarkFirst(imported, mark) == <<mark>> \o imported.records

\* The rows, and last the mark that says they have been read.
Sent(imported, mark) == Append(imported.records, mark)

\* Mutant: a position is complete once every byte has been accounted for.
CompletedAnyhow(settled, offset) == TRUE

\* Whether reading the same bytes again could add anything.
Completed(settled, offset) == settled \/ offset >= scanned[1].size

ResumeAt == IF position = <<>> THEN 0 ELSE position[1].offset

Read ==
  /\ pc = "read"
  /\ place # "gone"
  /\ Len(wire) <= MaxWire
  /\ \E settled \in Settled :
       LET imported == Import(rows, torn, ResumeAt, settled)
           mark == [what |-> "mark", offset |-> imported.offset, mtime |-> scanned[1].mtime]
       IN  /\ wire' = wire \o Sent(imported, mark)
           /\ position' = <<[offset |-> imported.offset, size |-> scanned[1].size,
                             mtime |-> scanned[1].mtime,
                             complete |-> Completed(settled, imported.offset)]>>
  /\ pc' = "scan"
  /\ scanned' = <<>>
  /\ UNCHANGED <<file, db, failures, panics, crashes>>

\* Opening, seeking or reading fails: said, and tried again by the next pass.
ReadFails ==
  /\ pc = "read"
  /\ place = "gone" \/ failures < MaxFailures
  /\ failures' = IF place = "gone" THEN failures ELSE failures + 1
  /\ pc' = "scan"
  /\ scanned' = <<>>
  /\ UNCHANGED <<file, position, wire, db, panics, crashes>>

\* The body panics and the supervisor starts it again; what it sent is on its
\* way.
Panic ==
  /\ panics + crashes < MaxRestarts
  /\ pc \in {"scan", "read"}
  /\ pc' = "load"
  /\ scanned' = <<>> /\ position' = <<>>
  /\ panics' = panics + 1
  /\ UNCHANGED <<file, wire, db, failures, crashes>>

\* The process dies, with what was not committed, and is started again.
Crash ==
  /\ panics + crashes < MaxRestarts
  /\ pc' = "load"
  /\ scanned' = <<>> /\ position' = <<>> /\ wire' = <<>>
  /\ crashes' = crashes + 1
  /\ UNCHANGED <<file, db, failures, panics>>

-----------------------------------------------------------------------------
(* The writer, one record at a time: every prefix may be what a crash finds. *)

\* Mutant: the later turn of a request replaces the earlier one.
ApplyReplacing(t, r) ==
  CASE r.what = "turn" -> [t EXCEPT !.turns = {x \in @ : x.req # r.req} \cup {r}]
    [] r.what = "tool" -> [t EXCEPT !.tools = {x \in @ : x.uuid # r.uuid} \cup {r}]
    [] r.what = "version" -> [t EXCEPT !.versions = @ \cup {r}]
    [] r.what = "mark" -> [t EXCEPT !.mark = <<r>>]
    [] r.what = "forget" -> [t EXCEPT !.mark = <<>>]

\* A turn is unique on its row and on its request, a call on its result row, and
\* whichever came first stays; of a version the earliest sighting is kept; the
\* mark is overwritten, or deleted.
Apply(t, r) ==
  CASE r.what = "turn" ->
         IF \E x \in t.turns : x.req = r.req \/ x.uuid = r.uuid
           THEN t ELSE [t EXCEPT !.turns = @ \cup {r}]
    [] r.what = "tool" ->
         IF \E x \in t.tools : x.uuid = r.uuid THEN t ELSE [t EXCEPT !.tools = @ \cup {r}]
    [] r.what = "version" ->
         [t EXCEPT !.versions =
            LET same == {x \in @ \cup {r} : x.version = r.version}
            IN  (@ \ same) \cup {CHOOSE x \in same : \A y \in same : x.ts <= y.ts}]
    [] r.what = "mark" -> [t EXCEPT !.mark = <<r>>]
    [] r.what = "forget" -> [t EXCEPT !.mark = <<>>]

Commit ==
  /\ wire # <<>>
  /\ db' = Apply(db, Head(wire))
  /\ wire' = Tail(wire)
  /\ UNCHANGED <<file, importer>>

\* A row the database does not take is counted and skipped; what is behind it, the mark
\* that says it was read included, is committed all the same.
Refuse ==
  /\ wire # <<>>
  /\ failures < MaxFailures
  /\ failures' = failures + 1
  /\ db' = [db EXCEPT !.refused = @ \cup {Head(wire)}]
  /\ wire' = Tail(wire)
  /\ UNCHANGED <<file, pc, scanned, position, panics, crashes>>

-----------------------------------------------------------------------------
Next ==
  \/ BeginLine \/ FinishLine \/ Age \/ Leave \/ Return
  \/ Load \/ LoadFails \/ StartAgain \/ Scan \/ Read \/ ReadFails \/ Panic \/ Crash
  \/ Commit \/ Refuse

Spec == Init /\ [][Next]_vars

\* The importer and the writer are scheduled, the positions can be read some time, a read
\* of the file that was begun ends, and time passes.  Claude Code owes nothing.
Fairness ==
  /\ WF_vars(StartAgain) /\ SF_vars(Load)
  /\ WF_vars(Scan) /\ []<>(pc # "read")
  /\ WF_vars(Commit)
  /\ WF_vars(Age)

FairSpec == Spec /\ Fairness

-----------------------------------------------------------------------------
(* Safety.                                                                 *)

\* Each variable stays in its type.  A mark in memory, on its way or committed is
\* where a line of the file begins, fragments, panics, crashes and budgets regardless.
Marks == {position[i].offset : i \in DOMAIN position}
         \cup {wire[i].offset : i \in {j \in DOMAIN wire : wire[j].what = "mark"}}
         \cup {db.mark[i].offset : i \in DOMAIN db.mark}

TypeOK ==
  /\ Len(rows) <= MaxRows
  /\ \A i \in DOMAIN rows : rows[i] \in Row
  /\ torn \in BOOLEAN
  /\ mtime \in 0..(2 * MaxRows)
  /\ quiet \in BOOLEAN
  /\ place \in Places
  /\ pc \in {"load", "scan", "read", "ended"}
  /\ Len(scanned) = IF pc = "read" THEN 1 ELSE 0
  /\ \A offset \in Marks : offset \in {Start(k) : k \in 1..(Len(rows) + 1)}

MarkOffset == IF db.mark = <<>> THEN 0 ELSE db.mark[1].offset

\* What the database refused and only said so: a turn of the request, the call of the row.
TurnRefused(tables, r) == \E t \in tables.refused : t.what = "turn" /\ t.req = r
CallRefused(tables, u) == \E t \in tables.refused : t.what = "tool" /\ t.uuid = u

\* A committed mark has nothing unrecorded behind it but what the database refused: every
\* real request that opens, and every plausible answer that lies, before it is in the
\* database, whatever was lost with a crash on the way.
NoHole ==
  /\ \A r \in Measurable(rows) :
       Start(Opening(rows, r)) < MarkOffset
         => TurnRefused(db, r) \/ \E t \in db.turns : t.req = r
  /\ \A c \in TimedCalls(rows) :
       Start(c.uuid) < MarkOffset
         => CallRefused(db, c.uuid) \/ \E t \in db.tools : t.uuid = c.uuid

\* A span that is recorded is the whole span of a response that has ended, and a
\* wait is the wait behind it; a call has the time between its two rows.  None
\* is ever what a poll happened to catch.  (Where the turn of a request was refused, a
\* later pass over its last rows may record those in its place.)
NothingTruncated ==
  /\ \A t \in db.turns :
       ~TurnRefused(db, t.req) =>
         /\ t.uuid = Opening(rows, t.req)
         /\ t.gen # Absent => Proven(rows, t.req) /\ t.gen = Span(rows, t.req)
         /\ t.first \in {Absent, TrueFirst(rows, t.req)}
  /\ db.tools \subseteq TimedCalls(rows)

-----------------------------------------------------------------------------
(* Liveness.                                                               *)

Unrecorded ==
  \/ \E r \in Measurable(rows) : ~ (TurnRefused(db, r) \/ \E t \in db.turns : t.req = r)
  \/ \E c \in TimedCalls(rows) :
       ~ (CallRefused(db, c.uuid) \/ \E t \in db.tools : t.uuid = c.uuid)

\* Every request and every answered call of the file that the database does not refuse is
\* recorded in the end, the response a session stopped at included, although each pass
\* withholds what may still grow and the file's last modification is the last there is: as
\* long as a line that was begun is finished and the file stays where it can be found.
EverythingRecorded ==
  []<>~torn /\ <>[](place = "listed") => []<>~Unrecorded

\* The mark of a file that is gone for good is deleted, a crash between memory and
\* database notwithstanding: the table does not grow with every session ever held.
\* (A body that panics with a mark on its way starts from the one before; a deletion the
\* database refuses is not sent again.)
MarksDepart ==
  /\ [](panics = 0 /\ \A t \in db.refused : t.what # "forget")
  /\ <>[](place = "gone")
  => <>[](db.mark = <<>>)

=============================================================================
