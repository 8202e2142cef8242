--------------------------- MODULE DataDirProofs ---------------------------
(***************************************************************************)
(* Who may do what to a data directory, for any number of daemons, screens *)
(* and bench runs, and any number of databases created in it.              *)
(*                                                                         *)
(* The invariant is that of a lock held across a section (Guarded), with   *)
(* what each stage of opening a database has established about the file it *)
(* has open (Ready, Checked): files are never changed back, so a check on  *)
(* an open file stays true whatever becomes of its name.                   *)
(***************************************************************************)
EXTENDS DataDir, TLAPS

\* Everything a daemon does, it does under the lock; its writer lives only in the middle.
Guarded == \A d \in Daemons :
             /\ daemon[d] \notin {"off", "refused"} => lock = d
             /\ d \in writing <=> daemon[d] \in {"collecting", "stopping"}

\* A screen that asks holds the lock until it gives it back.
Asking == \A s \in Screens : screen[s] \in {"asking", "probing"} => lock = s

\* What a daemon has done to the database it has open.
ReadyFor(d) == /\ daemon[d] \in {"migrated", "collecting", "stopping"}
                  => db[conn[d]].version = Target
               /\ daemon[d] \in {"collecting", "stopping"} => db[conn[d]].machine

\* What a bench run has seen of the database it is about to write in.
CheckedFor(b) == bench[b].at = "writing" => db[conn[b]].version \in 1..Target

Ready == \A d \in Daemons : ReadyFor(d)
Checked == \A b \in Benches : CheckedFor(b)

IInv == TypeOK /\ Guarded /\ Asking /\ Ready /\ Checked /\ MarksFit

LEMMA Kinds == /\ \A d \in Daemons : d \in Writers /\ d \notin Screens /\ d \notin Benches /\ d # Nobody
               /\ \A s \in Screens : s \notin Daemons /\ s # Nobody
               /\ \A b \in Benches : b \in Writers /\ b \notin Daemons
  BY DataDirAssumption DEF Writers

LEMMA Fresh ==
  /\ Empty \in Databases
  /\ \A v \in {Target, Target + 4} :
       LET left == [Empty EXCEPT !.version = v, !.machine = TRUE]
       IN  left \in Databases /\ left.marks = {}
<1>1. 0 \in 0..(Target + 4) /\ Target \in 0..(Target + 4) /\ Target + 4 \in 0..(Target + 4)
  BY DataDirAssumption
<1> QED BY <1>1 DEF Empty, Databases

LEMMA InitInv == Init => IInv
<1> SUFFICES ASSUME Init PROVE IInv OBVIOUS
<1>0. db \in [Files -> Databases] /\ \A n \in Files : db[n].marks = {}
  <2>1. Empty.marks = {} BY DEF Empty
  <2> QED BY <2>1, Fresh DEF Init
<1>1. DiskTypes BY <1>0, DataDirAssumption DEF Init, DiskTypes, NoFile
<1>2. ProcessTypes BY DEF Init, ProcessTypes, Markings, Stages
<1>3. Holding BY Kinds DEF Init, Holding, Connected, NoFile
<1>4. Guarded /\ Asking /\ Ready /\ Checked BY DEF Init, Guarded, Asking, Ready, ReadyFor, Checked, CheckedFor
<1>5. MarksFit BY <1>0 DEF MarksFit
<1> QED BY <1>1, <1>2, <1>3, <1>4, <1>5 DEF IInv, TypeOK

-----------------------------------------------------------------------------
(* What opening and closing do to the connections and the log, whoever does it. *)

LEMMA Opened ==
  ASSUME DiskTypes, NEW p \in Writers, Open(p), db' = db,
         wal' = wal \/ wal' = path'
  PROVE  /\ DiskTypes'
         /\ conn'[p] # NoFile
         /\ \A q \in Writers \ {p} : conn'[q] = conn[q]
<1>1. CASE path # NoFile BY <1>1, DataDirAssumption DEF Open, DiskTypes, NoFile
<1>2. CASE path = NoFile BY <1>2, DataDirAssumption DEF Open, DiskTypes, NoFile
<1> QED BY <1>1, <1>2

LEMMA Closed ==
  ASSUME DiskTypes, NEW p \in Writers, Close(p), UNCHANGED <<path, made>>,
         db' \in [Files -> Databases]
  PROVE  /\ DiskTypes'
         /\ conn'[p] = NoFile
         /\ \A q \in Writers \ {p} : conn'[q] = conn[q]
  BY DataDirAssumption DEF Close, DiskTypes, NoFile

\* A connection is to a database that exists.
LEMMA OpenIsFile ==
  ASSUME TypeOK, NEW p \in Writers, conn[p] # NoFile
  PROVE  conn[p] \in Files
  BY DataDirAssumption DEF TypeOK, DiskTypes, Files, NoFile

-----------------------------------------------------------------------------
(* What one process does to the databases, and what the others may go on relying on. *)

\* A database is only added to: brought up to date once, given its machine, marked.
Grown == \A n \in Files : /\ db[n].version = Target => db'[n].version = Target
                          /\ db[n].version \in 1..Target => db'[n].version \in 1..Target
                          /\ db[n].machine => db'[n].machine

LEMMA OthersReady ==
  ASSUME IInv, Grown, NEW d \in Daemons, daemon'[d] = daemon[d], conn'[d] = conn[d]
  PROVE  ReadyFor(d)'
<1>1. ReadyFor(d) BY DEF IInv, Ready, ReadyFor
<1>2. CASE daemon[d] \in {"migrated", "collecting", "stopping"}
  <2>1. conn[d] \in Files
    BY <1>2, OpenIsFile, Kinds DEF IInv, TypeOK, Holding, Connected
  <2> QED BY <1>1, <2>1 DEF Grown, ReadyFor
<1>3. CASE daemon[d] \notin {"migrated", "collecting", "stopping"} BY <1>3 DEF ReadyFor
<1> QED BY <1>2, <1>3

LEMMA OthersChecked ==
  ASSUME IInv, Grown, NEW b \in Benches, bench'[b].at = bench[b].at, conn'[b] = conn[b],
         bench'[b].at = "writing"
  PROVE  db'[conn'[b]].version \in 1..Target
<1>1. conn[b] \in Files BY OpenIsFile, Kinds DEF IInv, TypeOK, Holding
<1> QED BY <1>1 DEF IInv, Checked, CheckedFor, Grown

LEMMA DaemonFrame ==
  ASSUME IInv, Grown, NEW d \in Daemons,
         \A e \in Daemons \ {d} : daemon'[e] = daemon[e],
         \A p \in Writers \ {d} : conn'[p] = conn[p],
         bench' = bench,
         \A n \in Files : db'[n].marks = db[n].marks,
         conn'[d] # NoFile <=> Connected(d)',
         ReadyFor(d)'
  PROVE  Holding' /\ Ready' /\ Checked' /\ MarksFit'
<1>1. Holding' BY Kinds DEF IInv, TypeOK, Holding, Connected
<1>2. Ready'
  <2>1. ASSUME NEW e \in Daemons PROVE ReadyFor(e)'
    <3>1. CASE e = d BY <3>1
    <3>2. CASE e # d BY <3>2, OthersReady, Kinds
    <3> QED BY <3>1, <3>2
  <2> QED BY <2>1 DEF Ready
<1>3. Checked'
  <2>1. ASSUME NEW b \in Benches, bench'[b].at = "writing"
        PROVE  db'[conn'[b]].version \in 1..Target
    BY <2>1, OthersChecked, Kinds
  <2> QED BY <2>1 DEF Checked, CheckedFor
<1>4. MarksFit' BY DEF IInv, MarksFit, Grown
<1> QED BY <1>1, <1>2, <1>3, <1>4

\* A step that opens and closes nothing, of a process that is not connected.
LEMMA SameDisk ==
  ASSUME IInv, UNCHANGED <<conn, path, wal, db, made>>
  PROVE  DiskTypes' /\ Grown /\ \A n \in Files : db'[n].marks = db[n].marks
  BY DEF IInv, TypeOK, DiskTypes, Grown

\* A registered machine is all that registering changes.
LEMMA Registered ==
  ASSUME NEW f, f \in [Files -> Databases], NEW c \in Files
  PROVE  LET g == [f EXCEPT ![c].machine = TRUE]
         IN  /\ g \in [Files -> Databases]
             /\ \A n \in Files : /\ g[n].version = f[n].version /\ g[n].marks = f[n].marks
                                  /\ (f[n].machine \/ n = c) => g[n].machine
<1> DEFINE new == [f[c] EXCEPT !.machine = TRUE]
<1>1. new \in Databases BY DEF Databases
<1>2. new.version = f[c].version /\ new.marks = f[c].marks /\ new.machine
  BY DEF Databases
<1> HIDE DEF new
<1>3. [f EXCEPT ![c].machine = TRUE] = [f EXCEPT ![c] = new] BY DEF new
<1> QED BY <1>1, <1>2, <1>3

-----------------------------------------------------------------------------
LEMMA DaemonInv ==
  ASSUME IInv, NEW d \in Daemons, DaemonStep(d)
  PROVE  IInv'
<1> USE Kinds DEF At, procs, disk
<1>0. /\ ProcessTypes /\ DiskTypes /\ Guarded /\ Asking /\ ReadyFor(d)
      /\ d \in Writers
      /\ conn[d] # NoFile <=> Connected(d)
  BY DEF IInv, TypeOK, Holding, Ready, ReadyFor
<1>1. CASE Acquire(d) \/ Refused(d) \/ StartAgain(d) \/ Stop(d) \/ Release(d)
  <2> USE <1>1 DEF Acquire, Refused, StartAgain, Stop, Release
  <2>1. ProcessTypes' BY <1>0 DEF ProcessTypes
  <2>2. DiskTypes' /\ Grown /\ \A n \in Files : db'[n].marks = db[n].marks BY SameDisk
  <2>3. Guarded' /\ Asking' BY <1>0, ZenonT(40) DEF ProcessTypes, Guarded, Asking
  <2>4. (conn'[d] # NoFile <=> Connected(d)') /\ ReadyFor(d)'
    BY <1>0 DEF ProcessTypes, Connected, ReadyFor
  <2>5. /\ \A e \in Daemons \ {d} : daemon'[e] = daemon[e]
        /\ conn' = conn /\ bench' = bench
    BY <1>0 DEF ProcessTypes
  <2>6. Holding' /\ Ready' /\ Checked' /\ MarksFit' BY <2>2, <2>4, <2>5, DaemonFrame
  <2> QED BY <2>1, <2>2, <2>3, <2>6 DEF IInv, TypeOK
<1>2. CASE OpenStore(d)
  <2> USE <1>2 DEF OpenStore
  <2>1. ProcessTypes' BY <1>0 DEF ProcessTypes
  <2>2. /\ DiskTypes' /\ conn'[d] # NoFile
        /\ \A p \in Writers \ {d} : conn'[p] = conn[p]
    BY <1>0, Opened
  <2>3. Guarded' /\ Asking' BY <1>0 DEF ProcessTypes, Guarded, Asking
  <2>4. Connected(d)' /\ ReadyFor(d)' BY <1>0 DEF ProcessTypes, Connected, ReadyFor
  <2>5. /\ \A e \in Daemons \ {d} : daemon'[e] = daemon[e]
        /\ Grown /\ bench' = bench /\ \A n \in Files : db'[n].marks = db[n].marks
    BY <1>0 DEF ProcessTypes, Grown
  <2>6. Holding' /\ Ready' /\ Checked' /\ MarksFit' BY <2>2, <2>4, <2>5, DaemonFrame
  <2> QED BY <2>1, <2>2, <2>3, <2>6 DEF IInv, TypeOK
<1>3. CASE Migrate(d) \/ Register(d)
  <2> USE <1>3 DEF Migrate, Register
  <2>0. conn[d] \in Files BY <1>0, OpenIsFile DEF IInv, Connected
  <2>1. ProcessTypes' BY <1>0 DEF ProcessTypes
  <2>2. /\ DiskTypes' /\ Grown
        /\ \A n \in Files : db'[n].marks = db[n].marks
        /\ Migrate(d) => db'[conn[d]].version = Target
        /\ Register(d) => db'[conn[d]].version = db[conn[d]].version /\ db'[conn[d]].machine
    <3>1. CASE Migrate(d) BY <1>0, <2>0, <3>1, DataDirAssumption DEF DiskTypes, Databases, Grown
    <3>2. CASE Register(d)
      <4>1. db' \in [Files -> Databases]
        BY <1>0, <2>0, <3>2, Registered DEF DiskTypes
      <4>2. \A n \in Files : /\ db'[n].version = db[n].version /\ db'[n].marks = db[n].marks
                             /\ db[n].machine \/ n = conn[d] => db'[n].machine
        BY <1>0, <2>0, <3>2, Registered DEF DiskTypes
      <4>3. DiskTypes' BY <1>0, <3>2, <4>1 DEF DiskTypes
      <4> QED BY <2>0, <3>2, <4>2, <4>3 DEF Grown, Migrate, At, Register
    <3> QED BY <3>1, <3>2
  <2>3. Guarded' /\ Asking' BY <1>0 DEF ProcessTypes, Guarded, Asking
  <2>4. (conn'[d] # NoFile <=> Connected(d)') /\ ReadyFor(d)'
    BY <1>0, <2>2 DEF ProcessTypes, Connected, ReadyFor
  <2>5. /\ \A e \in Daemons \ {d} : daemon'[e] = daemon[e]
        /\ conn' = conn /\ bench' = bench
    BY <1>0 DEF ProcessTypes
  <2>6. Holding' /\ Ready' /\ Checked' /\ MarksFit' BY <2>2, <2>4, <2>5, DaemonFrame
  <2> QED BY <2>1, <2>2, <2>3, <2>6 DEF IInv, TypeOK
<1>4. CASE OpenFails(d) \/ JoinWriter(d)
  <2> USE <1>4 DEF OpenFails, JoinWriter
  <2>1. ProcessTypes' BY <1>0 DEF ProcessTypes
  <2>2. /\ DiskTypes' /\ conn'[d] = NoFile
        /\ \A p \in Writers \ {d} : conn'[p] = conn[p]
    <3>1. Close(d) /\ db' \in [Files -> Databases] /\ UNCHANGED <<path, made>>
      BY <1>0 DEF DiskTypes
    <3> QED BY <1>0, <3>1, Closed
  <2>3. Guarded' /\ Asking' BY <1>0 DEF ProcessTypes, Guarded, Asking
  <2>4. ~Connected(d)' /\ ReadyFor(d)' BY <1>0 DEF ProcessTypes, Connected, ReadyFor
  <2>5. /\ \A e \in Daemons \ {d} : daemon'[e] = daemon[e]
        /\ Grown /\ bench' = bench /\ \A n \in Files : db'[n].marks = db[n].marks
    BY <1>0 DEF ProcessTypes, Grown
  <2>6. Holding' /\ Ready' /\ Checked' /\ MarksFit' BY <2>2, <2>4, <2>5, DaemonFrame
  <2> QED BY <2>1, <2>2, <2>3, <2>6 DEF IInv, TypeOK
<1>5. CASE Crash(d)
  <2> USE <1>5 DEF Crash
  <2>1. ProcessTypes' BY <1>0 DEF ProcessTypes
  <2>2. /\ DiskTypes' /\ conn'[d] = NoFile
        /\ \A p \in Writers \ {d} : conn'[p] = conn[p]
    BY <1>0, DataDirAssumption DEF DiskTypes, NoFile
  <2>3. Guarded' /\ Asking' BY <1>0 DEF ProcessTypes, Guarded, Asking
  <2>4. ~Connected(d)' /\ ReadyFor(d)' BY <1>0 DEF ProcessTypes, Connected, ReadyFor
  <2>5. /\ \A e \in Daemons \ {d} : daemon'[e] = daemon[e]
        /\ Grown /\ bench' = bench /\ \A n \in Files : db'[n].marks = db[n].marks
    BY <1>0 DEF ProcessTypes, Grown
  <2>6. Holding' /\ Ready' /\ Checked' /\ MarksFit' BY <2>2, <2>4, <2>5, DaemonFrame
  <2> QED BY <2>1, <2>2, <2>3, <2>6 DEF IInv, TypeOK
<1> QED BY <1>1, <1>2, <1>3, <1>4, <1>5 DEF DaemonStep

-----------------------------------------------------------------------------
LEMMA ScreenInv ==
  ASSUME IInv, NEW s \in Screens, ScreenStep(s)
  PROVE  IInv'
<1> USE Kinds DEF On, procs, disk
<1>0. /\ ProcessTypes /\ DiskTypes /\ Guarded /\ Asking
      /\ Holding /\ Ready /\ Checked /\ MarksFit
  BY DEF IInv, TypeOK
<1>1. CASE ProbeSaysRunning(s)
  BY <1>1 DEF ProbeSaysRunning, vars, IInv, TypeOK, ProcessTypes, DiskTypes, Holding, Connected,
     Guarded, Asking, Ready, ReadyFor, Checked, CheckedFor, MarksFit
<1>2. CASE Probe(s) \/ GiveBack(s) \/ RemoveDatabase(s) \/ RemoveLog(s) \/ RemoveFails(s)
  <2> USE <1>2 DEF Probe, GiveBack, RemoveDatabase, RemoveLog, RemoveFails
  <2>1. ProcessTypes' BY <1>0 DEF ProcessTypes
  <2>2. UNCHANGED <<daemon, writing, bench, conn, db, made>> OBVIOUS
  <2>3. DiskTypes'
    <3>0. made \in Nat BY ONLY <1>0, DataDirAssumption DEF DiskTypes
    <3>1. 0 \in 0..made BY ONLY <3>0
    <3>2. path' \in {path, 0} /\ wal' \in {wal, 0} BY DEF NoFile
    <3> QED BY ONLY <1>0, <2>2, <3>1, <3>2 DEF DiskTypes
  <2>4. Guarded' BY <1>0, <2>2 DEF ProcessTypes, Guarded, Asking
  <2>5. Asking' BY <1>0 DEF ProcessTypes, Asking
  <2>6. Holding' /\ Ready' /\ Checked' /\ MarksFit'
    BY <1>0, <2>2 DEF Holding, Connected, Ready, ReadyFor, Checked, CheckedFor, MarksFit
  <2> QED BY <2>1, <2>3, <2>4, <2>5, <2>6 DEF IInv, TypeOK
<1> QED BY <1>1, <1>2 DEF ScreenStep

-----------------------------------------------------------------------------
LEMMA BenchFrame ==
  ASSUME IInv, NEW b \in Benches,
         \A c \in Benches \ {b} : bench'[c] = bench[c],
         \A p \in Writers \ {b} : conn'[p] = conn[p],
         daemon' = daemon,
         \A n \in Files : db'[n].version = db[n].version /\ db'[n].machine = db[n].machine,
         conn'[b] # NoFile <=> bench'[b].at \in {"checking", "writing"},
         CheckedFor(b)'
  PROVE  Holding' /\ Ready' /\ Checked'
<1>0. Grown BY DEF Grown
<1>1. Holding' BY Kinds DEF IInv, TypeOK, Holding, Connected
<1>2. Ready'
  <2>1. ASSUME NEW e \in Daemons PROVE ReadyFor(e)' BY <1>0, OthersReady, Kinds
  <2> QED BY <2>1 DEF Ready
<1>3. Checked'
  <2>1. ASSUME NEW c \in Benches, bench'[c].at = "writing"
        PROVE  db'[conn'[c]].version \in 1..Target
    <3>1. CASE c = b BY <2>1, <3>1 DEF CheckedFor
    <3>2. CASE c # b BY <1>0, <2>1, <3>2, OthersChecked, Kinds
    <3> QED BY <3>1, <3>2
  <2> QED BY <2>1 DEF Checked, CheckedFor
<1> QED BY <1>1, <1>2, <1>3

\* A row in one database, and no other thing.
LEMMA Marked ==
  ASSUME DiskTypes, NEW b \in Benches, Write(b), conn[b] \in Files
  PROVE  /\ db' \in [Files -> Databases]
         /\ \A n \in Files : /\ db'[n].version = db[n].version
                             /\ db'[n].machine = db[n].machine
                             /\ n # conn[b] => db'[n].marks = db[n].marks
<1> DEFINE new == [[db[conn[b]] EXCEPT !.marks = @ \cup {b}]
                   EXCEPT !.ended = IF bench[b].phase = "end" THEN @ \cup {b} ELSE @]
<1>0. db \in [Files -> Databases] BY DEF DiskTypes
<1>1. new \in Databases BY <1>0 DEF Databases
<1>2. new.version = db[conn[b]].version /\ new.machine = db[conn[b]].machine
  BY <1>0 DEF Databases
<1>3. db' = [db EXCEPT ![conn[b]] = new] BY <1>0 DEF Write
<1> HIDE DEF new
<1> QED BY <1>0, <1>1, <1>2, <1>3

\* A run's marking goes on to its next stage, and nobody else's does.
LEMMA Staged ==
  ASSUME bench \in [Benches -> Markings], NEW b \in Benches, NEW x \in Stages,
         \/ bench' = [bench EXCEPT ![b].at = x]
         \/ bench' = [bench EXCEPT ![b] = [at |-> x, phase |-> "end"]]
  PROVE  /\ bench' \in [Benches -> Markings]
         /\ bench'[b].at = x
         /\ \A c \in Benches \ {b} : bench'[c] = bench[c]
<1> DEFINE new == [bench[b] EXCEPT !.at = x]
           last == [at |-> x, phase |-> "end"]
<1>1. new \in Markings /\ new.at = x /\ last \in Markings /\ last.at = x BY DEF Markings
<1>2. [bench EXCEPT ![b].at = x] = [bench EXCEPT ![b] = new] OBVIOUS
<1>3. bench' = [bench EXCEPT ![b] = new] \/ bench' = [bench EXCEPT ![b] = last]
  BY <1>2
<1> HIDE DEF new, last
<1> QED BY <1>1, <1>3

LEMMA BenchInv ==
  ASSUME IInv, NEW b \in Benches, BenchStep(b)
  PROVE  IInv'
<1> USE Kinds DEF Marks, procs, disk
<1>0. /\ ProcessTypes /\ DiskTypes /\ Guarded /\ Asking /\ MarksFit /\ CheckedFor(b)
      /\ b \in Writers
      /\ conn[b] # NoFile <=> bench[b].at \in {"checking", "writing"}
  BY DEF IInv, TypeOK, Holding, Checked, CheckedFor
<1>1. CASE Look(b) \/ Check(b) \/ Finish(b)
  <2> USE <1>1 DEF Look, Check, Finish
  <2>0. PICK x \in {"unmarked", "opening", "writing"} :
          /\ \/ bench' = [bench EXCEPT ![b].at = x]
             \/ bench' = [bench EXCEPT ![b] = [at |-> x, phase |-> "end"]]
          /\ bench[b].at \in {"idle", "checking", "running"}
          /\ bench[b].at = "checking" <=> x = "writing"
          /\ x = "writing" => Recognises(db[conn[b]].version)
    OBVIOUS
  <2>9. /\ bench' \in [Benches -> Markings] /\ bench'[b].at = x
        /\ \A c \in Benches \ {b} : bench'[c] = bench[c]
    <3>1. x \in Stages BY DEF Stages
    <3>2. bench \in [Benches -> Markings] BY <1>0 DEF ProcessTypes
    <3> QED BY ONLY <2>0, <3>1, <3>2, Staged, b \in Benches
  <2>1. ProcessTypes' BY <1>0, <2>9 DEF ProcessTypes
  <2>2. DiskTypes' /\ UNCHANGED <<daemon, writing, screen, lock, conn, db>>
    BY <1>0, SameDisk
  <2>3. Guarded' /\ Asking' BY <1>0, <2>2 DEF Guarded, Asking
  <2>4. /\ conn'[b] # NoFile <=> bench'[b].at \in {"checking", "writing"}
        /\ CheckedFor(b)'
    BY <1>0, <2>0, <2>2, <2>9 DEF CheckedFor, Recognises
  <2>6. Holding' /\ Ready' /\ Checked' BY <2>2, <2>4, <2>9, BenchFrame
  <2>7. MarksFit' BY <1>0, <2>2 DEF MarksFit
  <2> QED BY <2>1, <2>2, <2>3, <2>6, <2>7 DEF IInv, TypeOK
<1>2. CASE OpenPlain(b)
  <2> USE <1>2 DEF OpenPlain
  <2>9. /\ bench' \in [Benches -> Markings] /\ bench'[b].at = "checking"
        /\ \A c \in Benches \ {b} : bench'[c] = bench[c]
    <3>1. "checking" \in Stages BY DEF Stages
    <3> QED BY <1>0, <3>1, Staged DEF ProcessTypes
  <2>1. ProcessTypes' BY <1>0, <2>9 DEF ProcessTypes
  <2>2. /\ DiskTypes' /\ conn'[b] # NoFile
        /\ \A p \in Writers \ {b} : conn'[p] = conn[p]
    BY <1>0, Opened
  <2>3. Guarded' /\ Asking' BY <1>0 DEF Guarded, Asking
  <2>4. CheckedFor(b)' BY <2>9 DEF CheckedFor
  <2>5. daemon' = daemon /\ db' = db OBVIOUS
  <2>6. Holding' /\ Ready' /\ Checked' BY <2>2, <2>4, <2>5, <2>9, BenchFrame
  <2>7. MarksFit' BY <1>0, <2>5 DEF MarksFit
  <2> QED BY <2>1, <2>2, <2>3, <2>6, <2>7 DEF IInv, TypeOK
<1>3. CASE Write(b) \/ Swallow(b)
  <2> USE <1>3 DEF Write, Swallow, Over
  <2>0. conn[b] \in Files BY <1>0, OpenIsFile DEF IInv
  <2>9. /\ bench' \in [Benches -> Markings] /\ bench'[b].at \in {"running", "done"}
        /\ \A c \in Benches \ {b} : bench'[c] = bench[c]
    BY <1>0, Staged DEF ProcessTypes, Stages
  <2>1. ProcessTypes' BY <1>0, <2>9 DEF ProcessTypes
  <2>2. /\ db' \in [Files -> Databases]
        /\ \A n \in Files : /\ db'[n].version = db[n].version
                            /\ db'[n].machine = db[n].machine
                            /\ n # conn[b] => db'[n].marks = db[n].marks
    <3>1. CASE Write(b) BY <1>0, <2>0, <3>1, Marked
    <3>2. CASE Swallow(b) BY <1>0, <3>2 DEF DiskTypes
    <3> QED BY <3>1, <3>2
  <2>3. /\ DiskTypes' /\ conn'[b] = NoFile
        /\ \A p \in Writers \ {b} : conn'[p] = conn[p]
    BY <1>0, <2>2, Closed
  <2>4. Guarded' /\ Asking' BY <1>0 DEF Guarded, Asking
  <2>5. CheckedFor(b)' BY <2>9 DEF CheckedFor
  <2>6. daemon' = daemon OBVIOUS
  <2>7. Holding' /\ Ready' /\ Checked' BY <2>2, <2>3, <2>5, <2>6, <2>9, BenchFrame
  <2>8. MarksFit'
    <3>1. CASE Write(b)
      BY <1>0, <2>0, <2>2, <3>1, SMTT(40) DEF MarksFit, CheckedFor, KnowsMachine
    <3>2. CASE Swallow(b) BY <1>0, <3>2 DEF MarksFit
    <3> QED BY <3>1, <3>2
  <2> QED BY <2>1, <2>3, <2>4, <2>7, <2>8 DEF IInv, TypeOK
<1>4. CASE Killed(b)
  <2> USE <1>4 DEF Killed
  <2>9. /\ bench' \in [Benches -> Markings] /\ bench'[b].at = "done"
        /\ \A c \in Benches \ {b} : bench'[c] = bench[c]
    <3>1. "done" \in Stages BY DEF Stages
    <3> QED BY <1>0, <3>1, Staged DEF ProcessTypes
  <2>1. ProcessTypes' BY <1>0, <2>9 DEF ProcessTypes
  <2>2. /\ DiskTypes' /\ conn'[b] = NoFile
        /\ \A p \in Writers \ {b} : conn'[p] = conn[p]
    BY <1>0, DataDirAssumption DEF DiskTypes, NoFile
  <2>3. Guarded' /\ Asking' BY <1>0 DEF Guarded, Asking
  <2>4. CheckedFor(b)' BY <2>9 DEF CheckedFor
  <2>5. daemon' = daemon /\ db' = db OBVIOUS
  <2>6. Holding' /\ Ready' /\ Checked' BY <2>2, <2>4, <2>5, <2>9, BenchFrame
  <2>7. MarksFit' BY <1>0, <2>5 DEF MarksFit
  <2> QED BY <2>1, <2>2, <2>3, <2>6, <2>7 DEF IInv, TypeOK
<1> QED BY <1>1, <1>2, <1>3, <1>4 DEF BenchStep

-----------------------------------------------------------------------------
LEMMA NextInv == IInv /\ [Next]_vars => IInv'
<1> SUFFICES ASSUME IInv, [Next]_vars PROVE IInv' OBVIOUS
<1>1. CASE Next BY <1>1, DaemonInv, ScreenInv, BenchInv DEF Next
<1>2. CASE UNCHANGED vars
  BY <1>2 DEF vars, IInv, TypeOK, ProcessTypes, DiskTypes, Holding, Guarded, Asking, Ready, ReadyFor, Checked, CheckedFor, MarksFit, Connected
<1> QED BY <1>1, <1>2

\* The lock discipline and what it protects, in every reachable state.
THEOREM Inductive == Spec => []IInv
<1> QED BY InitInv, NextInv, PTL DEF Spec

-----------------------------------------------------------------------------
\* Every variable keeps its shape, and connections are held exactly while they are said to be.
THEOREM TypeCorrect == Spec => []TypeOK
<1>1. IInv => TypeOK BY DEF IInv
<1> QED BY <1>1, Inductive, PTL

\* A writer thread lives only under the lock, so two daemons never collect together.
THEOREM CollectsAlone == Spec => []OneCollector
<1>1. IInv => OneCollector BY DEF IInv, TypeOK, ProcessTypes, Guarded, OneCollector
<1> QED BY <1>1, Inductive, PTL

\* What a collecting daemon writes into has its schema and its machine.
THEOREM CollectsIntoItsOwn == Spec => []CollectsReady
<1>1. IInv => CollectsReady
  BY DEF IInv, TypeOK, ProcessTypes, Guarded, Ready, ReadyFor, CollectsReady
<1> QED BY <1>1, Inductive, PTL

\* A daemon that collects does it alone and into what it opened.
THEOREM Collects == Spec => []CollectsProperly
<1>1. OneCollector /\ CollectsReady => CollectsProperly BY DEF CollectsProperly
<1> QED BY <1>1, CollectsAlone, CollectsIntoItsOwn, PTL

\* No marker is ever in a database this build does not know.
THEOREM MarksAreKnown == Spec => []MarksFit
<1>1. IInv => MarksFit BY DEF IInv
<1> QED BY <1>1, Inductive, PTL

\* Only the daemon that holds the lock changes a schema, and only upwards.
THEOREM HolderMigrates == Spec => OnlyTheHolderMigrates
<1>1. IInv /\ [Next]_vars =>
        [\A n \in Files : db'[n].version # db[n].version
                          => lock \in Daemons /\ conn[lock] = n /\ db[n].version < Target]_vars
  <2> SUFFICES ASSUME IInv, Next, NEW n \in Files, db'[n].version # db[n].version
               PROVE  lock \in Daemons /\ conn[lock] = n /\ db[n].version < Target
    OBVIOUS
  <2> USE DEF disk, procs
  <2>1. ASSUME NEW d \in Daemons, DaemonStep(d) PROVE \/ Migrate(d)
                                                     \/ db'[n].version = db[n].version
    <3>1. CASE Register(d)
      BY <3>1, OpenIsFile DEF Register, At, IInv, TypeOK, Connected, Writers
    <3>2. CASE ~Register(d) /\ ~Migrate(d)
      BY <2>1, <3>2 DEF DaemonStep, Acquire, Refused, StartAgain, OpenStore, OpenFails, Stop,
         JoinWriter, Release, Crash
    <3> QED BY <3>1, <3>2
  <2>2. ASSUME NEW d \in Daemons, Migrate(d)
        PROVE  lock \in Daemons /\ conn[lock] = n /\ db[n].version < Target
    <3>1. d \in Writers /\ conn[d] \in Files /\ lock = d
      BY <2>2, OpenIsFile, Kinds DEF Migrate, At, IInv, TypeOK, Holding, Guarded, Connected
    <3>2. n = conn[d] /\ db[n].version # Target
      BY <2>2, <3>1 DEF Migrate, IInv, TypeOK, DiskTypes, Databases
    <3>3. db[n].version \in Nat /\ Target \in Nat
      BY DataDirAssumption DEF IInv, TypeOK, DiskTypes, Databases
    <3> QED BY <2>2, <3>1, <3>2, <3>3 DEF Migrate
  <2>3. ASSUME NEW s \in Screens, ScreenStep(s) PROVE db' = db
    BY <2>3 DEF ScreenStep, Probe, ProbeSaysRunning, GiveBack, RemoveDatabase, RemoveLog,
       RemoveFails, vars
  <2>4. ASSUME NEW b \in Benches, BenchStep(b) PROVE db'[n].version = db[n].version
    <3>1. CASE Write(b)
      BY <3>1, Marked, OpenIsFile, Kinds DEF Write, IInv, TypeOK, DiskTypes, Holding
    <3>2. CASE ~Write(b)
      BY <2>4, <3>2 DEF BenchStep, Look, OpenPlain, Check, Swallow, Finish, Killed
    <3> QED BY <3>1, <3>2
  <2> QED BY <2>1, <2>2, <2>3, <2>4 DEF Next
<1> QED BY <1>1, Inductive, PTL DEF Spec, OnlyTheHolderMigrates
=============================================================================
