------------------------------ MODULE DataDir ------------------------------
(***************************************************************************)
(* The processes that share one data directory: daemons starting, stopping *)
(* and dying (watch/mod.rs run_with, watch/store/mod.rs Store::open), the  *)
(* screens that ask whether one is running and may erase what it collected *)
(* (is_running, reset_collected_data), and the bench runs that mark        *)
(* themselves in its database (watch/marker.rs).                           *)
(*                                                                         *)
(* They share two files: the lock, whose holder the operating system drops *)
(* when a process dies, and the database with its write-ahead log.  A file *)
(* removed while it is open goes on existing for whoever opened it, so     *)
(* databases are numbered in the order they are created, `path` is the one *)
(* the name reaches and `wal` the one whose log lies beside it.            *)
(* MaxFiles bounds how many are ever created.                              *)
(***************************************************************************)
EXTENDS Naturals

CONSTANTS Daemons, Screens, Benches,
          Target,    \* migrations::target_version of this build
          MaxFiles,
          Nobody

NoFile == 0
Files == 1..MaxFiles
Writers == Daemons \cup Benches       \* the processes that open a database to write

ASSUME DataDirAssumption ==
    /\ Target \in Nat \ {0} /\ MaxFiles \in Nat \ {0}
    /\ Nobody \notin Daemons \cup Screens \cup Benches
    /\ Daemons \cap Screens = {} /\ Daemons \cap Benches = {} /\ Screens \cap Benches = {}

VARIABLES lock,      \* the process whose InstanceLock holds the lock file
          daemon,    \* where run_with is, for each daemon
          writing,   \* the daemons whose writer thread is alive
          screen,    \* what each screen is doing
          bench,     \* each run's marking: where it is, and in which of its two writes
          conn,      \* the database each writer has open
          path, wal, db, made

vars == <<lock, daemon, writing, screen, bench, conn, path, wal, db, made>>
procs == <<daemon, writing, screen, bench>>
disk == <<path, wal, db, made>>

Empty == [version |-> 0, machine |-> FALSE, marks |-> {}, ended |-> {}]

\* No data directory yet, or a database left by an earlier daemon of this build or of one
\* whose schema counter is ahead (0.6.x reached 5; a newer build would too).
Init == /\ lock = Nobody
        /\ daemon = [d \in Daemons |-> "off"]
        /\ writing = {}
        /\ screen = [s \in Screens |-> "idle"]
        /\ bench = [b \in Benches |-> [at |-> "idle", phase |-> "start"]]
        /\ conn = [p \in Writers |-> NoFile]
        /\ wal = NoFile
        /\ \/ path = NoFile /\ made = 0 /\ db = [n \in Files |-> Empty]
           \/ /\ path = 1 /\ made = 1
              /\ \E v \in {Target, Target + 4} :
                   db = [n \in Files |-> IF n = 1
                                         THEN [Empty EXCEPT !.version = v, !.machine = TRUE]
                                         ELSE Empty]

-----------------------------------------------------------------------------
(* SQLite, as the code uses it: opening creates the file, and the last     *)
(* connection to close folds the log into the database and removes it.     *)

Open(p) == \/ /\ path # NoFile
              /\ conn' = [conn EXCEPT ![p] = path]
              /\ UNCHANGED <<path, made>>
           \/ /\ path = NoFile /\ made < MaxFiles
              /\ made' = made + 1 /\ path' = made'
              /\ conn' = [conn EXCEPT ![p] = made']

Close(p) == /\ conn' = [conn EXCEPT ![p] = NoFile]
            /\ wal' = IF wal = conn[p] /\ \A q \in Writers \ {p} : conn[q] # conn[p]
                      THEN NoFile ELSE wal

-----------------------------------------------------------------------------
(* The daemon                                                              *)

At(d, from, to) == daemon[d] = from /\ daemon' = [daemon EXCEPT ![d] = to]

Acquire(d) == /\ At(d, "off", "locked")
              /\ lock = Nobody /\ lock' = d
              /\ UNCHANGED <<writing, screen, bench, conn, disk>>

\* "another AgentBench dashboard is already running for this data directory"
Refused(d) == /\ At(d, "off", "refused")
              /\ lock # Nobody
              /\ UNCHANGED <<lock, writing, screen, bench, conn, disk>>

StartAgain(d) == /\ At(d, "refused", "off")
                 /\ UNCHANGED <<lock, writing, screen, bench, conn, disk>>

\* Store::open: Connection::open and the journal mode, which puts a log beside the file.
OpenStore(d) == /\ At(d, "locked", "opened")
                /\ Open(d)
                /\ wal' = IF wal = NoFile THEN path' ELSE wal
                /\ UNCHANGED <<lock, writing, screen, bench, db>>

\* Mutant: a newer schema is not refused.
MigrateAny(d) == /\ At(d, "opened", "migrated")
                 /\ db' = [db EXCEPT ![conn[d]].version = IF @ < Target THEN Target ELSE @]
                 /\ UNCHANGED <<lock, writing, screen, bench, conn, path, wal, made>>

Migrate(d) == /\ At(d, "opened", "migrated")
              /\ db[conn[d]].version <= Target
              /\ db' = [db EXCEPT ![conn[d]].version = Target]
              /\ UNCHANGED <<lock, writing, screen, bench, conn, path, wal, made>>

\* A newer schema, a database that cannot be read, a machine that cannot be registered.
OpenFails(d) == /\ daemon[d] \in {"opened", "migrated"}
                /\ daemon' = [daemon EXCEPT ![d] = "leaving"]
                /\ Close(d)
                /\ UNCHANGED <<lock, writing, screen, bench, path, db, made>>

\* register_machine, then the writer thread.
Register(d) == /\ At(d, "migrated", "collecting")
               /\ db' = [db EXCEPT ![conn[d]].machine = TRUE]
               /\ writing' = writing \cup {d}
               /\ UNCHANGED <<lock, screen, bench, conn, path, wal, made>>

\* Shutdown, or a dashboard port that is taken: either way the store goes next.
Stop(d) == /\ At(d, "collecting", "stopping")
           /\ UNCHANGED <<lock, writing, screen, bench, conn, disk>>

JoinWriter(d) == /\ At(d, "stopping", "leaving")
                 /\ writing' = writing \ {d}
                 /\ Close(d)
                 /\ UNCHANGED <<lock, screen, bench, path, db, made>>

\* Mutant: the lock is dropped before the store.
ReleaseEarly(d) == /\ daemon[d] \in {"stopping", "leaving"} /\ lock = d
                   /\ lock' = Nobody
                   /\ UNCHANGED <<procs, conn, disk>>

\* _lock was declared before the store, so it is dropped after it.
Release(d) == /\ At(d, "leaving", "off")
              /\ lock' = Nobody
              /\ UNCHANGED <<writing, screen, bench, conn, disk>>

\* Killed, or a power cut: the log stays where it is.
Crash(d) == /\ daemon[d] \notin {"off", "refused"}
            /\ daemon' = [daemon EXCEPT ![d] = "off"]
            /\ writing' = writing \ {d}
            /\ conn' = [conn EXCEPT ![d] = NoFile]
            /\ lock' = IF lock = d THEN Nobody ELSE lock
            /\ UNCHANGED <<screen, bench, disk>>

DaemonStep(d) == \/ Acquire(d) \/ Refused(d) \/ StartAgain(d) \/ OpenStore(d) \/ Migrate(d)
                 \/ OpenFails(d) \/ Register(d) \/ Stop(d) \/ JoinWriter(d) \/ Release(d)
                 \/ Crash(d)

-----------------------------------------------------------------------------
(* Screens: is_running takes the lock to see whether it can, and gives it  *)
(* back; reset_collected_data removes the files once it has been told no.  *)

On(s, from, to) == screen[s] = from /\ screen' = [screen EXCEPT ![s] = to]

Probe(s) == /\ lock = Nobody /\ lock' = s
            /\ On(s, "idle", "asking") \/ On(s, "idle", "probing")
            /\ UNCHANGED <<daemon, writing, bench, conn, disk>>

\* The lock is held, so a daemon is said to be running: there is nothing to do, or to erase.
ProbeSaysRunning(s) == screen[s] = "idle" /\ lock # Nobody /\ UNCHANGED vars

GiveBack(s) == /\ lock' = Nobody
               /\ On(s, "asking", "idle") \/ On(s, "probing", "erasing")
               /\ UNCHANGED <<daemon, writing, bench, conn, disk>>

RemoveDatabase(s) == /\ On(s, "erasing", "erasing log")
                     /\ path' = NoFile
                     /\ UNCHANGED <<lock, daemon, writing, bench, conn, wal, db, made>>

RemoveLog(s) == /\ On(s, "erasing log", "idle")
                /\ wal' = NoFile
                /\ UNCHANGED <<lock, daemon, writing, bench, conn, path, db, made>>

\* remove_file fails: what was removed before it stays removed.
RemoveFails(s) == /\ On(s, "erasing", "idle") \/ On(s, "erasing log", "idle")
                  /\ UNCHANGED <<lock, daemon, writing, bench, conn, disk>>

ScreenStep(s) == \/ Probe(s) \/ ProbeSaysRunning(s) \/ GiveBack(s)
                 \/ RemoveDatabase(s) \/ RemoveLog(s) \/ RemoveFails(s)

-----------------------------------------------------------------------------
(* A bench run's Marking: begin writes its start, finish its end, each     *)
(* through record, on a connection of its own.  Whatever goes wrong is     *)
(* swallowed.                                                              *)

Marks(b, from, to) == bench[b].at = from /\ bench' = [bench EXCEPT ![b].at = to]

\* begin looks for the database, and only then takes the machine's reading.
Look(b) == /\ Marks(b, "idle", IF path = NoFile THEN "unmarked" ELSE "opening")
           /\ UNCHANGED <<lock, daemon, writing, screen, conn, disk>>

OpenPlain(b) == /\ Marks(b, "opening", "checking")
                /\ Open(b)
                /\ UNCHANGED <<lock, daemon, writing, screen, wal, db>>

\* record is over, with or without a row: the run goes on to its workloads, or ends.
Over(b) == bench' = [bench EXCEPT ![b].at = IF bench[b].phase = "start"
                                            THEN "running" ELSE "done"]

\* Mutant: newer schemas are written to all the same.
RecognisesOld(v) == v >= 1
Recognises(v) == v \in 1..Target

Check(b) == /\ Marks(b, "checking", "writing")
            /\ Recognises(db[conn[b]].version)
            /\ UNCHANGED <<lock, daemon, writing, screen, conn, disk>>

\* Mutant: the machine a row names need not be registered (no foreign keys).
KnowsAnyMachine(f) == TRUE
KnowsMachine(f) == db[f].machine

Write(b) == /\ bench[b].at = "writing" /\ KnowsMachine(conn[b])
            /\ db' = [db EXCEPT ![conn[b]].marks = @ \cup {b},
                                ![conn[b]].ended = IF bench[b].phase = "end"
                                                   THEN @ \cup {b} ELSE @]
            /\ Over(b) /\ Close(b)
            /\ UNCHANGED <<lock, daemon, writing, screen, path, made>>

\* The schema is not recognised, the file is busy for too long, the row is refused.
Swallow(b) == /\ bench[b].at \in {"checking", "writing"}
              /\ Over(b) /\ Close(b)
              /\ UNCHANGED <<lock, daemon, writing, screen, path, db, made>>

Finish(b) == /\ bench[b].at = "running"
             /\ bench' = [bench EXCEPT ![b] = [at |-> "opening", phase |-> "end"]]
             /\ UNCHANGED <<lock, daemon, writing, screen, conn, disk>>

\* Stopped from the page, or interrupted: the marker keeps only its start.
Killed(b) == /\ bench[b].at \notin {"idle", "unmarked", "done"}
             /\ bench' = [bench EXCEPT ![b].at = "done"]
             /\ conn' = [conn EXCEPT ![b] = NoFile]
             /\ UNCHANGED <<lock, daemon, writing, screen, disk>>

BenchStep(b) == \/ Look(b) \/ OpenPlain(b) \/ Check(b) \/ Write(b) \/ Swallow(b)
                \/ Finish(b) \/ Killed(b)

Next == \/ \E d \in Daemons : DaemonStep(d)
        \/ \E s \in Screens : ScreenStep(s)
        \/ \E b \in Benches : BenchStep(b)

Spec == Init /\ [][Next]_vars

-----------------------------------------------------------------------------
Connected(d) == daemon[d] \in {"opened", "migrated", "collecting", "stopping"}

Stages == {"idle", "unmarked", "opening", "checking", "writing", "running", "done"}
Markings == [at : Stages, phase : {"start", "end"}]

ProcessTypes ==
    /\ lock \in Daemons \cup Screens \cup {Nobody}
    /\ daemon \in [Daemons -> {"off", "refused", "locked", "opened", "migrated",
                               "collecting", "stopping", "leaving"}]
    /\ writing \subseteq Daemons
    /\ screen \in [Screens -> {"idle", "asking", "probing", "erasing", "erasing log"}]
    /\ bench \in [Benches -> Markings]

Databases == [version : 0..(Target + 4), machine : BOOLEAN,
              marks : SUBSET Benches, ended : SUBSET Benches]

DiskTypes == /\ conn \in [Writers -> 0..MaxFiles]
             /\ made \in 0..MaxFiles /\ path \in 0..made /\ wal \in 0..made
             /\ db \in [Files -> Databases]

\* A process has a database open exactly while it is between opening and closing one.
Holding == /\ \A d \in Daemons : conn[d] # NoFile <=> Connected(d)
           /\ \A b \in Benches : conn[b] # NoFile <=> bench[b].at \in {"checking", "writing"}

\* Every variable keeps its shape, and a connection is there when its process says it is.
TypeOK == ProcessTypes /\ DiskTypes /\ Holding

\* Only one daemon collects into the directory: a writer thread lives only under the lock,
\* from before its database is opened until after its last record is committed.
OneCollector == \A d \in writing : lock = d

\* A collecting daemon's own database is one it understands, with its machine in it.
CollectsReady == \A d \in writing : /\ db[conn[d]].version = Target
                                    /\ db[conn[d]].machine

\* A daemon that collects does it alone and into what it opened, whatever others start, probe,
\* erase or mark meanwhile (the two above; watch/mod.rs, run_with, and store/mod.rs, open).
CollectsProperly == OneCollector /\ CollectsReady

\* A marker is only ever written into a schema this build knows, under a registered
\* machine: never into an empty file, a half-made one, or a newer one.
MarksFit == \A n \in Files : db[n].marks # {} => /\ db[n].version \in 1..Target
                                                /\ db[n].machine

\* No schema changes under anybody but the daemon that holds the lock: not by a bench run
\* that finds an old or an unfinished database (marker.rs, "this one must not migrate").
OnlyTheHolderMigrates ==
    [][\A n \in Files : db'[n].version # db[n].version
                        => lock \in Daemons /\ conn[lock] = n /\ db[n].version < Target]_vars

=============================================================================
