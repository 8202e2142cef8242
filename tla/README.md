# AgentBench: specifications

TLA+ models of AgentBench's collecting daemon, of the page it serves, of the
benchmark that runs beside it and of the screen that configures it, model-checked
with TLC, with theorems checked by TLAPS. Paths are relative to the repository
unless they start with `watch/`, which is `src/watch/`.

    tlc -config MCRecordPipeline.cfg MCRecordPipeline     # one run
    tlapm RecordPipelineProofs.tla                        # one module's proofs

## 1. The system

AgentBench answers "is my machine slower than it was, and why". `agentbench
dashboard` is a daemon of a few plain threads around one SQLite database:

| Part (source) | State it keeps | Operations | Hard behaviour | What makes it right |
|---|---|---|---|---|
| Store writer (`watch/store/writer/mod.rs`, `watch/store/mod.rs`) | bounded channel of 256 records, batch, health, the only writing connection | `Sink::send`, `drain`, `flush`, `maintain`, `join` | a full channel, a commit that fails, the last sender going away | order of acceptance is order of commit; nothing but a sample is dropped; no hole; it stops |
| Supervisor, `run_with` (`watch/supervisor.rs`, `watch/mod.rs`) | threads, shutdown flag, instance lock | spawn, restart after 5 s, stop and join, early exits | shutdown requested while a thread blocks, panics or backs off | every exit path ends and loses nothing accepted |
| Sampler (`watch/collect/sampler.rs`, `targets.rs`, `src/process_tree.rs`) | process table, targets, schedule, last timestamp | `prime`, `tick`, `discover`, `advance` | processes exit and appear between two readings | no rate from a first reading; nothing unwatched for long |
| Prober (`watch/collect/probes/`) | process table, warmed, scratch directory | `prime`, `read`, workloads, `tidy` | killed in mid-workload, three refreshes before a CPU figure | clean directory, honest tag |
| Transcript importer (`watch/collect/sessions/`) | a position per file, watermarks in the database | `import_once`, `Deriver::push/finish`, `forget_departed` | the file grows while it is read; a crash between rows and watermark | incremental import records what one import of the finished file would |
| Retention (`watch/maintenance.rs`, `watch/store/writer/maintenance.rs`) | cutoff, raw and per-minute tables | hourly instruction, chunked pass | a pass stopped half way, samples behind a pass, the clock set back | no sample vanishes; every bucket is a whole minute |
| Store queries (`watch/store/queries/`) | none | series, buckets, latest, today, comparable values, annotations, health | row budgets cut at one end, buckets that join two tables | a chart is whole or says it is cut |
| Benchmark registry (`watch/serve/runs/`) | one slot, a child process | `start`, `status`, `cancel`, `shutdown` | the child ends between any two system calls | one run at a time, honest outcome |
| Data directory (`watch/supervisor.rs` lock, `watch/store/migrations.rs`, `watch/marker.rs`, `reset_collected_data`) | lock file, database, its log | acquire, open, migrate, probe, erase, mark | several processes, files unlinked while open | one collector; no write to an unknown schema |
| Server, router, origin, handlers, assets (`watch/serve/`) | accept failures, the request in hand, the registry | one request at a time, read to its end | a body that stalls, a handler that panics, a listener that fails, a browser's old copy | the page is not the daemon, and what it shows is what the store holds |
| Verdict (`watch/analysis/`) | none | days, band, verdict, note | thin days, freak days, 23-hour days | today is judged against the norm and not against itself |
| Settings, control centre (`watch/settings.rs`, `src/ui/control/`) | `watch.toml`, rows, a background task | load, edit, validate, write, erase | other writers of the same file | an edit changes what it says and nothing else |
| Install, tray (`src/install/`, `src/tray/`) | copied binary, PATH, login task | install, undo | one step of several fails | what is on disk is what is reported |
| Benchmark (`src/bench/`, `src/ui/task.rs`, `src/integrations.rs`) | the phase, a cancel flag, metrics and warnings | eight phases, a soak | cancellation is looked at in places; a screen that fails | it ends in a report or an error, and stops when told to |
| Live cases (`src/live_llm.rs`, `src/profile.rs`) | runs, spent cost, failures of each route | rounds, a case, its timeout, the pipes of its tree | cases that do not say what they cost; helpers that outlive them | spending is bounded and stops on cancellation; routes are compared fairly |
| Reports, compare (`src/compare/`, `src/metrics/`, `src/report.rs`) | a report | write, compatibility, deltas | | refuses to compare what cannot be; one change has one meaning |

How they interact: collectors hand records to `Sink`, which is the sending end
of the channel; one writer thread drains it. A collector never reads what it
wrote, except the importer, which reads its positions once when it starts. The
page's thread opens read connections of its own. Retention is an instruction in
the same channel, so it runs on the writer's thread. The page's requests are
handled one at a time on the main thread, which is also the one that owns the
collectors and the lock. A benchmark started by the page is a child process: the
request becomes a command line, the child's last lines of standard error come
back through a pipe that a thread reads, and it writes one marker into the
database when it begins and one when it ends, beside a daemon that may be
stopping or starting. Its live cases are processes of their own, which outlive it
if it is killed. The control centre asks the lock whether a daemon runs, and may
erase its files.

## 2. Modules

| Module | What it is |
|---|---|
| `OrderedLog` | abstract: records accepted in one order and settled in it, or given up all at once |
| `RecordPipeline` | collectors, `Sink`, channel, writer, supervisor and `run_with`; implements `OrderedLog` |
| `Deriver` | `derive.rs` and the reading half of `import.rs` as operators: one pass over the rows of a file |
| `Transcript` | the file Claude Code appends to (external), and what ought to be measured in it, read off the finished file |
| `Derivation` | the file as it grows, and Deriver against Transcript on it, whole and cut in two at every row |
| `Importer` | passes over that file, positions, watermarks, panics, crashes |
| `BenchRegistry` | the slot, the child it watches and the steps of that child |
| `DataDir` | daemons, screens and bench runs that share a lock file and a database |
| `Retention` | samples on their way to the writer, and the pass |
| `ProcessTable` | processes and what a `sysinfo::System` remembers of them (external) |
| `Sampler`, `Prober`, `Collectors` | the two readers of process tables, and both beside processes that come and go |
| `Settings`, `LoginTask` | the documents the control centre edits: `watch.toml` and the login task, each with its other writers |
| `ControlCentre` | the keys of the screen over both, the row that erases, the rest of the machine |
| `Days`, `Bands`, `Verdicts` | the days of a zone whose clocks change, the band of the days before, evidence and judgement |
| `Queries`, `Sessions`, `Charts` | what each query returns from a store, and the two handlers that draw from it by range and budget |
| `Metrics`, `Comparison` | the metrics catalogue, and one report against another |
| `Gates`, `BenchRequest` | what a request passes before it is handled, and what one for a benchmark becomes on a command line |
| `Dashboard` | the thread that serves the page, the handlers, the slot's child and the reader of its output; composes the modules above |
| `LiveCases`, `Bench` | the paid suite and the commands of its cases; the phases of a benchmark around it |
| `Program` | Dashboard with Bench: the child of the slot runs it, or a terminal does |
| `*Proofs` | theorems about the module they are named for |
| `MC*` | the instances TLC checks (that of `BenchRegistry` needs no module of its own) |

Each module's header names its sources, and the definitions keep the names of
the code where TLA+ allows. How the state maps, where it is not evident:

* **RecordPipeline.** `queue`/`rxOpen`/`holders` are the channel: its contents,
  whether the receiver lives, and who owns a clone of the `Sink` (the channel
  closes when nobody does). `pc[t]` is where thread t stands; the places within
  `Sink::send` are `Sending`, so every report and every log line is one more send
  that can block. `Accept`, `Refuse`, `Drop`, `Disconnected` are the four ways
  out of it. `writer` is the writer's place in `run`/`drain`. `accepted`,
  `discarded`, `done`, `written`, `lost` are history. A row is a kind, a source
  and a number; a row the database refuses is counted and skipped (`Flush`
  chooses), a commit that fails ends the writer (`FlushFails`).
* **Deriver.** A row's uuid is its position, so that "descends from" is an order;
  offsets count half lines, so that a position inside a line is not one on a
  boundary. `Import` is one call of `import`: `StartOffset`, `Fed` (whole lines
  and no more), `Finish` if the file is settled and was read to its end,
  `ResumeOffset`.
* **Importer.** `place` is what a scan and `exists()` see, `quiet` whether the
  modification time is older than two poll intervals; both are read in `Scan`
  and used in `Read`, where the file may have changed. `wire` is the channel
  and the writer, as OrderedLog promises them: committed in order, a crash loses
  a suffix, and a row the database refuses is skipped while what is behind it is
  committed (`Refuse`; `db.refused` is history). A body whose positions
  cannot be read returns, and is started again like one that panics (`LoadFails`,
  `StartAgain`).
* **BenchRegistry.** The server takes one request at a time under a mutex, so a
  method is cut only where the child can move in between: before `kill`, before
  `finish`, between two polls. The child's steps are those of `main`'s bench
  arm: workloads, create the report, fill it, mark the end, exit.
* **DataDir.** A removed file goes on existing for whoever has it open: databases
  are numbered, `path` is the one the name reaches, `wal` the one whose log lies
  beside it.
* **Retention.** A bucket is the set of samples it was computed from. `hand` and
  `channel` are samples stamped and not yet committed; `seen` and `late` are
  history: what was ever committed, and what was committed behind the summary of
  its minute. `Left` is what earlier daemons may have left unsummarised.
* **Days to Comparison.** Functions, no state. A store is a record of tables, each
  a sequence in the order of its key, and a query is an operator on it with the
  range, filter, order, limit and end of its SQL. An optional value is a set with
  at most one member, as it is in every module here. A zone is how far its clock
  is ahead before and after the one instant it changes; local dates are numbers.
  Values are integers, so medians and deviations are rounded towards zero.
* **Dashboard.** A handler is one step, cut only where it waits: for the body, and
  for the child and its reader (`Joined`). `hand` is the request in hand,
  `answer` the last answer. `main` follows `serve` into the end of `run_with`:
  "ending" stops the run in flight, "collecting" waits for the flag, "unwound" is
  a panic that left the main thread. `age` is that of the newest sample in the
  database, whoever took it, and `sampled` says whether this daemon took one.
  `copies` are the scripts a browser has, each with its tag. `run` holds what the page
  was told (`summary`), what the command line came to (`options`), what the child `said`, what lies `unread` in the pipe
  and the `tail` its reader kept. What environment does what is the scene's, see
  section 3.
* **LiveCases, Bench.** `bench.at` is the phase, `live.at` the place in
  `run_suite`: the head of its loop, that of a round, between the last check of
  the flag and the start of a case, behind a case. A case is its root process and a
  helper that holds the same pipes; what it costs is chosen when it starts, and
  whether anybody is told when it is over. `late` marks a case begun after the
  cancellation. What a case costs is external; that one that answers says so is
  assumed.
* **Program.** A child is killed and ends as Dashboard has it, and runs as Bench
  has it: it begins when the slot starts it, exits with 0 only when its report is
  there, and explains itself once.
* **Sampler, Prober.** An entry of a process table counts refreshes up to three:
  `process_tree.rs` documents that the first holds a lifetime's disk traffic and
  that only the third yields a CPU percentage. `unwatched`, `inside` and `met`
  are history. A watched process is taken to be at work; whatever else loads the
  machine is a free choice.
* **Settings, LoginTask, ControlCentre.** `phase` is where the screen's only
  thread is: closed, filling a missing file, waiting for a key, saving, or between
  the staged file and its rename. A document is what the loader reads there, in
  half seconds, so that a duration below a second, which is written in
  milliseconds, differs from one whose fraction the text drops. Of ten draft keys
  three are kept, the two that bind each other and one that does not. `Garbled` is
  TOML that the loader refuses: a save edits around it (`Doc`), a start or a screen
  does not open over it (`Loadable`). `pending` is the stretch between running
  `schtasks` and reading the task again, `leaving` an elevated deletion given up and
  still under way; a reading is what the program makes of a task (`Parsed`), and a
  delay in a form it does not know (`Unclear`) reads as none. The database is its
  three files, and `erasing` the one about to go: the lock is probed once, before
  the first. `edits`, `opened`, `read`, `touched`, `saved`, `seen` and `asked` are
  history.

Constants' assumptions are named (`PipelineAssumption`, `DeriverAssumption`, ...)
and are no stronger than the types and inequalities of the code. `BenchRegistry`
and `Dashboard` both have the slot, for different questions: the first cuts each
method at every system call the child can move between, the second follows the
request and the output through one method at a time.

## 3. Runs

| Run | Instance | What it shows |
|---|---|---|
| `pipeline` | one collector, capacity 1, batches of 2, one fault; two records, samples and chores, or four samples | the channel, the writer and every way out of `run_with`, crashes excepted: what is committed is a prefix of what was accepted (`PrefixDurable`), every drop of a burst is explained, a stop is clean, the threads implement OrderedLog (`Implements`), a stop ends (`Stops`), and so does every wait and back-off (`NothingIsStuck`) |
| `derivation` | every transcript of up to five rows | a whole pass measures what Transcript says; two passes with the cut anywhere agree with it, save for the wait discussed below, and a watermark is on a line (`ResumesAnywhere`). Ten calls may be pending, as many as five rows can ask for, so that no transcript of the run is left out |
| `derivation_wait` | four rows | *violated*: the cut that loses a measurement (finding 1) |
| `importer_durable` | a file of up to three rows, one restart or one turn or call that is refused | a watermark never passes a row that is neither recorded nor refused, and a response that may grow is not recorded short |
| `importer_progress` | two rows, one move of the file, one restart or one failure: a read, or any row refused | everything not refused is recorded in the end; the mark of a departed file goes |
| `registry` | two runs, a clock of two ticks, one failing `try_wait` | one child at a time, none behind a daemon that stopped; a finished run tells the truth: its success left a whole report, a stopped one is no success, its end is no later than the page knew (`FinishedTellsTheTruth`); every request is answered and every run concluded (`NothingHangs`) |
| `datadir` | two daemons, one screen, one bench run, three files | one collector, into its own migrated database (`CollectsProperly`); markers only where they fit |
| `retention` | two machines, up to three samples left by earlier daemons and one new, a clock set back once, one fault | a sample vanishes only behind its minute's summary, and only then is not in it (`Accounted`); buckets are whole, everything old is summarised |
| `collectors` | two processes, discovery every 3, idle sleeps of 2, one restart, one deletion | rates, lateness of discovery, and that probes compare: a clean directory, an honest tag (`ProbesCompare`) |
| `sampler_lifetime` | the same, prober never restarted | *violated*: finding 2 |
| `control` | two changes from the screen and two events elsewhere: edits of the file, changes of the login task, a daemon starting or stopping | the rows say what is in force after a save and what task is there after a reading, each with its exception (section 5); a save changes no setting nobody touched |
| `dashboard` | 50 scenes, see below | what the page shows is what the store holds (charts, days, band, comparison, scripts, status); what it starts is what it was asked to and explains itself; the page is not the daemon; a benchmark's spending is bounded, stops when told to and is fair to both routes |

**Scenes.** The page reads whatever the store holds, so the `dashboard` run
enumerates situations instead of one world: a scene is a store, a zone and an
instant, the requests a client may make, whether the daemon has a registry, the
benchmarks typed at a terminal, and which of the environment's doings happen
(`happens`: a stalled client, a failing listener, an upgrade, Ctrl+C, a missing
database, a thread or a process that cannot be made, a slow clock). Each behaviour
lives in one scene; a scene has only the hazards that can meet in it, so that
each is explored in full.

* Charts: one store at three cutoffs of a retention pass, every family of series,
  every range, budget, bucket and filter of `ChartQueries`; and a store with more
  turns than one statement reads (27, `MaxRows` is 24), charted from both sides of
  the cut.
* Days: ten zones (none changes, spring and autumn, a change at midnight, one in
  the window, one in today, west of Greenwich) at three instants each, with a day
  out of the ordinary, every subject of the verdict.
* Refusals, routes, bodies; comparisons of every pair of ten reports; status under
  a clock, for a daemon that starts over an empty store, over one long left alone
  and over one just left, before and after its own first sample; scripts over an
  upgrade; the slot with every way a start can fail.
* Benchmarks: two from the page, which stops them, and four at a terminal, with
  one route or two, a cap that is small or never reached, failing cases,
  helpers, no proxy, no command, failing work, an interrupt, a failing screen.

**Bounds.** They are chosen so that each case the properties tell apart happens
and not to be large. Capacity 1 fills, and a batch of 2 is cut short and filled.
One fault reaches a restart, and a fault during shutdown. Four samples with a
complaint for every second one are a burst: refused, complained of, refused without
a word, and complained of again, with the complaint itself refused or not, and a
restart in it that sets the count back (`Steady` keeps a chore, or a row the
database does not take, to the behaviours of two). Five transcript rows
hold a prompt, a response in two rows, a call and its result, in any order that
is legal, and limits of 2 and 3 are exceeded in them. Two runs are a run and
its successor; a third would meet what the second does. Three files are an
erased database, its successor and one more. Minutes of two ticks and chunks of two
minutes: the samples left over lie in the first chunk and behind it, in the minute
to which this daemon adds, so a pass takes two chunks, the second cut short by
the cutoff, and may stop between them; the minute it splits if it may is that of a
left sample and a new one. A clock set back makes that new sample late.
In the importer a restart and a failure do not meet (`OneTrouble`), and over three
rows only turns and calls are refused (`RefusedRows`); the proof has neither bound.
Two processes are the one that left and the one that is missed.
In the control centre, two changes are one that raises the active interval above
the idle one and one after it, a failed save and the next, or a choice and its
registration; durations lie below, on and above the shortest. Settings, task and
data meet only in the keys, so in each behaviour one of them moves (`OneMoves`);
the two events elsewhere are an edit before a change and one behind it, a deletion
by another and the late one, or a daemon that starts and stops during an attempt
to erase.
On the page an hour is the unit, days have six (`DayHours`) so that a window of
five days, a change of the clocks and a day that a query cuts fit in a scene;
`MaxRows` is above what most charts return and `MaxPoints` below, and requests
name limits of 0, 1, 3 and 9 rows, so that each budget is met exactly, exceeded
and not reached; `AcceptLimit` 3 is reached and interrupted by a success;
the child says up to three lines and two are kept; two builds are an upgrade.
A benchmark's seconds pass nine at a time, up to 72: more than a quick preset's
35, a margin of 10 and two timeouts. A case costs 15 cents, which stands for the
budget of one cent that is always left, or 90, which is more than some caps, less
than others. One child at a time is the slot's; the number of scenarios is the
code's, and two passes over them are the period of its order. What the bounds
leave to the proofs: the number of collectors, of runs, of daemons, of machines,
of edits and keys pressed, and every limit.

**Fairness.** `RecordPipeline` assumes weak fairness of the writer, the main
thread and each collector: the operating system schedules every thread that can
run, and SQLite answers. Nobody needs to ask for shutdown and nothing needs to
fail. `Importer` assumes that the poll loop comes round, that the positions can be read
some time (strong fairness of `Load`: while they cannot, the supervisor has them
read again every five seconds), that a pass ends (`[]<>(pc # "read")`), that the
writer commits and that time passes.
`EverythingRecorded` also assumes that a line once begun is finished and that the
file stays listed; `MarksDepart` excludes panics with a mark on its way and a
deletion the database refuses.
`BenchRegistry` assumes that a request taken up is carried through, that a bench
process keeps running until it ends, and that the page polls (it does, every
second, while a run is shown). `Retention` assumes that the clock runs and that
the sampler, the hourly instruction and the writer go on. `Dashboard` assumes that
the main thread goes on, that a handler that can answer does, that the thread
that reads the child's output reads what is there. Nothing is assumed of clients:
one that begins to send a body may stop for ever, and then so does the only thread
that serves, which `ShutdownHonoured` names as the one exception. Nor of the
child: `cancel` kills it, and `finish` waits only for one that is over. Faults,
crashes, panics, and anything a user does, are never fair. Deadlock is checked except
where the system stops: `Importer` when no pass has more to do, `BenchRegistry`
when it is closed, `DataDir` when every bench run is over and all is off,
`ControlCentre` when the screen is closed over a file that does not parse,
`Program` when a daemon or a benchmark is over.

## 4. Theorems

All are for every value of the constants, under the named assumption of the
module, and each rests on one inductive invariant.

* **RecordPipelineProofs** (any number of collectors, any capacity and batch).
  `IInv` says where each record is: finished, in the batch or queued, in the order
  accepted (`WriterInv`), what the writer's place implies about the channel, and
  who holds a sender at each place of each thread (`HolderInv`) - without it
  nothing says that the writer sees the channel closed only when all is drained.
  From it: `TypeCorrect`, `FifoOrder`, `Durability`, `OnlySamples`, `StopsClean`.
  `GapsExplained` adds an account (`DropsInv`): at each place of a collector, how
  many refusals its complaints still cover, which depends on where its count stands
  in the burst; a body that starts again counts from nought and so covers less.
  `ImplementsLog` maps each step to one of OrderedLog or a stutter.
* **BenchRegistryProofs** (any set of runs). `Owned` ties the child that lives to
  the slot, `Virgin` and `Whole` tie the report to the child's place, `Agrees`
  what the page was told to what the slot says. From them `NeverTwo`,
  `SuccessIsWhole`, `StopIsFinal`, `EndIsFirstSight`, which together are
  `FinishedIsTrue`, and the action property `OutcomeKept`. `NobodyOutlives` adds
  what a step can do to who is alive (`Births`): nobody is but by being launched.
* **DataDirProofs** (any daemons, screens, runs). `Guarded`: whoever is between
  acquiring and releasing is the holder; `Ready`: its connection is to what it
  has created and migrated; `Checked`: a bench run that is about to write saw a
  version it knows. From them `CollectsAlone` and `CollectsIntoItsOwn`, which
  together are `Collects`, then `MarksAreKnown`, `HolderMigrates`.
* **RetentionProofs** (any machines, any chunk of whole minutes, any clock).
  `NothingLost` follows a sample from its row into the summary of its minute. It
  needs that a chunk is made of whole minutes (`ChunkStart` and `ChunkEnd` are
  aligned), so that all rows of a minute are summarised and pruned together; what
  is committed to a minute behind its summary is `late`, which is what may be lost.
  `MinutesAreWhole` needs more: no clock set back, and `MaxDelay <= Keep`, that is,
  a sample is committed before it is old enough to be pruned (with days of
  retention and a channel of 256 it is); then the cutoffs asked for, the pass
  and the buckets all lie before anything still to come (`Fresh`, `Past`,
  `PassPast`, `AskedPast`). `PassesFinish` and `SummariesStand` are action
  properties.
* **ControlCentreProofs** (any durations, delays, rows, window and number of
  changes). Each of the three documents has a step of its own (`SettingsStep`,
  `LoginStep`) that every action of the screen is shown to take or leave alone.
  `SettingsInv`: what was saved is the clamped draft, as text; this needs that
  clamping and rendering in either order agree (`CutKeepsOrder`,
  `WrittenIsShown`). `RestInv`: while nobody wrote since the screen opened, file,
  draft and loaded configuration agree on every key nobody touched. `LoginInv`
  ties the last reading to what the program can make of the task, `ArmedInv` an
  armed row to the last key.
  From them `RowsShowTheFile`, `SavesSpareTheRest`, `RowsShowTheTask`,
  `ErasingIsConfirmed`: an attempt to erase begins confirmed and with nobody
  collecting, and outside of attempts no file goes but where a daemon stops. What
  happens in the attempt is not claimed: its files go one by one, a daemon that
  starts meanwhile notwithstanding. `DurationsAssumption` says only that the set of durations
  is closed under the floor and the rendering.
* **CollectorsProofs** (any processes, any cadence, any list of probes). `IInv` has
  a part for each reader: the sampler's clock since its last walk bounds how long
  anybody alive has been unwatched (`Overdue`), whoever it watches has an entry
  (`SamplerInv`), and whom the prober met it has refreshed twice before it reads
  (`Acquainted`), so that the third refresh gives a figure. From it
  `RatesAreOfTheLiving`, `NobodyIsMissed`, `ProbesAreComparable`.
* **ProgramProofs** (any scenes, tails, limits and costs). About the page:
  `PageIsNotTheDaemon` follows where the main thread is and what poisons the
  registry; `ScriptsAreOfThisBuild` ties each tag a browser holds to the build it
  came from; `AskedForIsRun` ties request, summary and command line, which needs that
  parsing what `to_args` wrote gives it back; `FailureIsExplained` splits what the
  child said into what is in the pipe and what its reader has, of which the tail
  is kept; `StatusIsTrue` is an action property, from the bound the sampler keeps
  to once it has taken a sample (`Sampled`). `ProgramServes` makes them hold of
  the whole program, and the rest is about that: `StopsSpending` (`Stopping`: the one
  case begun after the cancellation had been let through before it);
  `SpendingIsBounded` (`Capped`, `Tallied`, `Reported`: what is counted is the sum of
  what the runs said, a case begins only below the cap, and each silent or lost case
  costs a budget at most); `RoutesAreComparable` (`Paired`: the i-th case is what a
  plan of period twelve says, so that every route gets the same scenarios, in the
  same order of first and second, up to the case that was not begun). Sums and least
  elements are got from `Smallest`, every set of numbers has a least one, in the place
  of induction.

  What the handlers compute is proved too. `ToldIsRight` says of the last answer that
  it is what its handler makes of the scene's store, and `StaysInScene` that nobody
  changes the scene; the rest is about operators. `ComparisonIsOriented`: a change has
  one sign seen from either report (`ChangeFrom`), whatever the metric's direction.
  `VerdictDaysTile`: a regular zone gives every date a first instant, later than that
  of the date before, the present lies between two of them, and the dates behind it
  are listed one by one. `BandIsNorm`: a day's value is that of the rows between its
  ends (`Where` of two disjoint ranges), so what happens today changes nothing behind
  it; and what comes at a place of the sorted values lies, one value set aside, still
  among the others. `ChartIsWhole` takes two arguments. `RecentEndCharted`: the row
  limit of a statement, the join of samples with minutes and the budget of the answer
  each keep a recent end, so that what comes out is one, and an answer that is not
  whole says so; of samples this holds where every minute lies before every sample
  (`MinutesFirst`), as it does until a clock is set back. `TurnsCounted`: while the
  rows are cut into buckets (`Sessions`), the buckets shut are those of the rows read
  and the open one is that of the last (`Holds`), so every one of the newest
  `MaxRows` turns is in one bucket, and their sums add up. Of turns beyond those a
  chart has nothing and says nothing (section 5).

  For these proofs `Bands` has its own `Where`, `Total`, `Ranked` and `Extended` where
  TLC could do with `SelectSeq`, `FoldSeq`, `SortSeq` and `@@`: what takes an operator as
  an argument is out of the provers' reach. They are recursive functions of numbers
  up to a length; what one computes is proved for all of them by considering the
  least number for which it would not hold (`Smallest`).

* **ImporterProofs** (any rows, requests, calls and times, any number of crashes, panics
  and departures). Three layers. A transcript stays `Orderly` as it grows: a response
  that has ended and a call that was answered measure the same ever after. A pass that
  begins at row k keeps `Pass`: the calls it remembers, the prompt, the open response
  and what it has put out are the file's own since row k. `Behind` says of a row that
  nothing before it is pending and that what began there is recorded or was refused, in
  the tables or ahead of it on the wire; `Sound` says this of the committed mark, of each
  mark on its way and of the position in memory, and that each record, committed or on its way, is
  `Right` for the file. A pass is a fold over the rows. Instead of induction over them,
  what the fold computes is followed while the file grows (`FoldsGrow`): from every row
  a pass may begin at, one more row takes the pass over the file so far to the pass over
  the file with that row (`FedWell`), so the invariant carries what every pass that
  could be made now would yield. From it `NoHoleHolds` and `NothingTruncatedHolds`.
  `MeasuresTheTruth` needs the first two layers only, from row 1, and is proved of the
  growing file alone; `ReadsTheTruth` shows that the importer's file is such a file.

  `ResumesAnywhereHolds` compares, on the growing file alone, one pass with two: one that
  ended after row k and one that began where the first said. Its invariant, `Resuming`,
  has a conjunct for each half. Where there is room (`Cuts`): what a pass that ended
  recorded stays true of the file however it grows (`SavedStays`), the pass behind it
  records the rest, and of what both recorded the database keeps the first, which
  measures the same. For the deriver with next to no room (`TightCuts`) no pass need be
  right: what is proved is that all it remembers lies where a line begins (`Aligned`),
  and that the clamp of `resume_offset` moves to the next such place.

  The invariant of the importer is proved for files that stay `Roomy`: no more calls than
  `MAX_PENDING_TOOLS` (512) and no more bytes than `MAX_REREAD_BYTES` (1 MiB). Both
  halves are needed. Beyond the first, the answer of an evicted call falls back to its
  row and may be timed against another call of that row (section 5); beyond the
  second, `resume_offset` skips a row still pending. TLC violates
  `NothingTruncated` and `NoHole` respectively as soon as `MaxPendingTools` or
  `MaxReread` is made that small.

Type correctness, `OutcomeFirst`, `OnlyTheHolderMigrates`, `EraseIsConfirmed`
and the action properties of Retention are proved and not run again.

The assumptions on constants `ProgramProofs` rests on:

* Types: `DashboardAssumption` (a tail, an interval, a floor and the days of a window
  are numbers), `LiveAssumption` (costs and times are natural), `ProgramAssumption`
  (what is typed at a terminal names a preset and a cap), `QueriesAssumption`,
  `ChartsAssumption` (an i64, two counts of rows and three widths in time),
  `SeriesAssumption` (the parameters of a request for a series that parse).
* `StoresAssumption`: what SQL's `ORDER BY` and the column types promise of a table.
  A bucket of minutes begins below the greatest instant.
* `KeysAssumption`: no two samples, minutes or probe runs of a machine have one
  instant. Of samples and minutes that is their primary key. `probe_runs` has none
  (`watch/store/schema.rs:95`): there it says that a machine has one prober and
  that a run, which takes seconds, ends before the next begins; it also says that
  a benchmark's row (`watch/marker.rs:208`) does not fall on a probe's very
  millisecond, which nothing rules out. Rows with one instant would be charted in an
  order the statement leaves open.
* `ReportsAssumption`: a report is one this program wrote: each metric once, not
  negative, and with the direction its name has. A report edited by hand can name
  a metric lower-is-better in one file and not in the other.
* `ZonesAssumption`: a zone's clocks never go back to a date they have left, nor
  forward by more than three hours (`Regular`), which are the hours in which
  `watch/analysis/day.rs` looks for the beginning of a date. All zones in use today
  are such; section 5 has what happens in another.

TLC evaluates all of these on the scenes of the run.

Model-checked only: liveness, as TLAPS proves no fairness and no ENABLED. Every
invariant and every other action property that a passing run checks is a theorem.

## 5. Findings

Each of the first two is a run that TLC finds violated.

1. `derivation_wait`: a prompt is claimed by the response it starts before that
   response is withheld, so the resume offset can lie after the prompt; the next
   pass has no prompt, and `first_response_ms` of the turn is lost
   (`watch/collect/sessions/derive.rs`, `claim_prompt` and `resume_offset`, whose
   doc calls incremental import exact).
2. `sampler_lifetime`: `refresh_watched` refreshes with `remove_dead = false`. A
   process that exits between its discovery and the next tick keeps its entry,
   with its lifetime's traffic as its last delta, and that is added to each
   rate until the next walk.

Met while modelling; the models have the behaviour, no property claims otherwise:

* For the reason of finding 2 the count of live processes never falls, and the
  early rediscovery in `tick` cannot happen for a process that was ever discovered
  (`watch/collect/sampler.rs:65`, `targets.rs:73` against `:60`); the test of it
  uses a pid that never had an entry (`sampler.rs:340`).
* A row the database refuses is logged and skipped, and the watermark behind it in
  the same batch is committed, so nothing reads that row again
  (`watch/store/writer/mod.rs:265`): the one hole there is behind a mark, which
  `NoHole` excepts by name. Where a turn was refused, a later pass over the last rows
  of its request may record those in its place. A refused deletion of a mark is not
  sent again, as the position is dropped in memory first.
* When the positions cannot be read, the log says "so nothing will be imported"
  (`watch/collect/sessions/mod.rs:114`); the body returns, and the supervisor starts a
  body that returns again (`watch/supervisor.rs:223`), so it is only put off.
* A position is complete if the pass was settled, even when the file ends in
  half a line and `finish` was not called: the last response of such a file stays
  unrecorded (`watch/collect/sessions/mod.rs:227` against `:195`).
* An answered call counts against `MAX_PENDING_TOOLS` until it is pushed out, so
  a call still awaited can be evicted early (`derive.rs:405` against `:21`); its
  answer, though it cites the call, then falls back to the row it came from and is
  timed as the last call of that row (`:431`, against `:411`, "only consulted for result
  rows that cite no tool-use id at all"). The re-read budget can skip a pending row
  (`derive.rs:198`).
* `reset_collected_data` gives the lock back before it removes the files, so a
  daemon that starts in between goes on collecting into an unlinked file
  (`watch/mod.rs:353`); the probe itself holds the lock for a moment, so it can
  refuse a daemon (`:335`). The files go one by one and the first that cannot be
  removed ends the attempt, so the log of an erased database can be left, which the
  comment there calls "the one outcome worse than either keeping or removing all
  three" (`:373`).
* A bench run whose database is erased between its two markers makes an empty
  one when it opens it (`watch/marker.rs:183`).
* A hard stop leaves the child's scratch directory (`watch/serve/runs/child.rs:161`).
* A sample committed behind the summary of its minute, which takes a clock set back
  by about the retention window or more, is pruned by the next pass and is in no
  summary (`late`); the comment at `watch/store/writer/maintenance.rs:88` names that
  cost.
* Two statements of one chart see separate snapshots, so one that a pass
  interrupts can miss a chunk (`watch/store/queries/samples/mod.rs:103`); after
  a clock was set back a chart leaves out the minutes behind its oldest sample
  (`:108`), which `ChartsAreWhole` excepts (`MinutesFirst`). `samples_raw_days = 0` prunes
  minutes still on their way (`watch/store/writer/maintenance.rs:53`). The
  `pruned == 0` exit of a pass is never taken.
* A scratch directory deleted after it was prepared is not prepared again: it
  is held for the session (`watch/collect/probes/mod.rs:79`, against
  `scratch.rs:22`, which names that case).
* A process that appears after the previous probe has had two refreshes when the
  reading is taken, so it reads 0% and the probe may be tagged comparable:
  `ProbesCompare` is stated for the processes the session had met
  (`watch/collect/probes/mod.rs:102`).
* `r` reads the screen again from the configuration loaded when it was opened, so
  the draft goes back to the values of then, and the next save of any row undoes
  the saves in between (`src/ui/control/mod.rs:177`; `Draft::from_config` is "the
  values currently in force"). It also drops a delay or tray choice made while no
  task is registered. `SaveSparesTheRest` therefore excuses every key touched
  since the screen was opened.
* A change that is refused stays in the draft, port 0 included, and the next
  save that succeeds writes it (`src/ui/control/apply.rs:147`, `:152`; `save` puts
  nothing back).
* A save parses `watch.toml` as TOML and does not ask the loader
  (`watch/settings.rs:106`; its doc says it "never validates the whole file"). Over
  a file in which somebody left what the loader refuses, under a key that is no row
  (`watch/config.rs:377`), a save is reported as done and no start accepts the
  file: `SavedIsInForce` excepts that. A row's own key is repaired by any save.
* A login task's delay in a form `parse_delay` does not know is shown as none
  (`src/install/windows/task.rs:85`), which `parse_delay` returns `None` to avoid ("a
  delay silently read as zero would move collection into the login storm",
  `src/install/taskxml.rs:42`); a change of the other choice then registers the task
  without its delay. `RowsDescribeTask` excepts such a delay.
* A removal asked for with elevation and given up after `ELEVATED_TIMEOUT`
  (`src/install/windows/task.rs:189`) may still come about, and then takes whatever task
  is there, one registered since included. Its message says to reopen the screen.
* `duration_text` is not exact: a second and a half is written "1s", also for a
  key nobody touched (`watch/config.rs:303`, whose doc says "the coarsest exact
  one"). The help of the idle interval says "pulled down automatically if it
  exceeds the active interval" (`src/ui/control/model.rs:184`); it is raised to
  the active one when it is below it (`clamp_sample_intervals`).
* Two control centres share one `watch.toml.new`, so a rename could publish what
  the other has half written; the model has one screen. A first run killed in
  its write leaves half a file (`CreateFile`).

On the page:

* A panic under the registry's lock is said to cost the feature and not the daemon
  (`watch/serve/mod.rs:212`). `thread::spawn` panics when no thread can be made,
  and `Running::spawn` calls it under that lock (`watch/serve/runs/child.rs:91`):
  the child then belongs to nobody, and behind `serve` it is `runs.shutdown()` that
  takes the poisoned lock, on the main thread, which unwinds
  (`watch/mod.rs:236`). `OutlivesThePage` excepts exactly that.
* Bodies are read without a timeout on the only thread that serves, so a client
  that sends half of one holds up every request and the shutdown, for as long as it
  likes (`watch/serve/mod.rs:306`): the exception in `ShutdownHonoured`.
* `status` knows only the newest sample of the database: until a daemon's first
  sample it says that collection does not go on, or, started soon after another
  stopped, that it does (`watch/serve/handlers/status.rs:88`). `StatusTellsTheTruth`
  begins with the daemon's own first sample.
* A verdict is said to rest on one bucket spanning the day
  (`watch/analysis/comparison/evidence.rs:197`), but buckets are aligned to the
  epoch, so a day has two unless its start is a multiple of its length
  (`watch/store/queries/sessions/mod.rs:65`): the verdict then judges the median
  of two parts of the day, the tile shows the first of them, and the number of
  observations is their sum.
* An unknown power source is "not counted as either" (`evidence.rs:266`), but it
  counts among the runs a majority is taken of, which is to be on mains.
* A session chart is made from the newest 200 000 turns of its range, and `truncated`
  speaks of its buckets only (`watch/store/queries/sessions/series.rs:245`, `:271`): a
  range with more is answered with a partial series that describes itself as
  whole, which is what `Points` was introduced to end
  (`watch/store/queries/mod.rs:34`). `ChartsAreWhole` claims the newest `MaxRows`. The
  comparable values of a verdict and the annotations of a chart are cut at the recent
  end, samples at the old one.
* The default beginning of the annotations' range is computed whether or not the
  request names its own and is not saturating, so a range that ends at the smallest
  instant is a panic and a 500 in a debug build, and in another build a default
  beginning behind its end is a 400 (`watch/serve/handlers/annotations.rs:25`).
* A day is looked up by the local date of an instant and begins at the first
  midnight of that date (`watch/analysis/day.rs`, `containing`). Where clocks went back
  over a midnight, as St John's once did from 00:01 to 23:01, the hour after that has
  the date of before and lies behind the end of its day: `containing` returns a day
  that does not contain it, until midnight comes again. `ZonesAssumption` excludes
  such zones; one that goes back at midnight sharp, like Nuuk's, is regular.
* A model name that begins with a hyphen passes the request
  (`watch/serve/runs/request.rs:91`) and not the child's command line: the run is
  started, and fails at once with 2.
* A bracketed host with a port that is no number is split as if it had none
  (`watch/serve/origin.rs`). Without a database the assets are answered 503, too.

In a benchmark:

* The live phase of the quick preset ends after 30 s of 35 and begins no case in
  the last 10: from 25 to 30 s the suite turns without waiting
  (`src/live_llm.rs:121`, `:140`).
* An error in one case discards the runs before it and what they cost
  (`src/live_llm.rs:155`); the report then says that the phase was skipped.
* Cancelled within the HTTPS phase, a benchmark turns the cancellation into a
  warning and goes on (`src/bench/mod.rs:145`); without live cases and without a
  soak it ends with a report.
* A helper that a case started after the profiler's last walk of its tree survives
  the timeout and holds the pipes, and the join behind it has no limit
  (`src/profile.rs:214`).
* A killed benchmark leaves its live case, which may spend up to its budget. So
  does a screen that fails (`src/ui/task.rs:70`): the process ends while the worker
  is in a case.
* The budget of a case is at least a cent, and a case that does not say what it
  cost counts as nothing: the cap is exceeded by at most `SpendIsBounded`.

## 6. What is not modelled, and the plan

Not modelled by design: values, thresholds, wording, layout, SQL that only reads,
system calls of each platform, SQLite itself (transactions are atomic, a crash
keeps what was committed), file and thread APIs beyond their results. Pids are
never reused. `DataDir` has one schema version, as this build has one migration.

Pure I/O and wording: markdown, colours, drawing, `diagnosis.rs` (a table of
advice), `ui/control/top.rs`, HTTP headers. `tray`, `platform` and the detached
launch of a daemon are calls into Windows around what is modelled; experiments are
a permutation of profiled cases drawn from a seed, with nothing beside them; the
status report words what the other parts keep. What a workload, a case or an
integration measures is a number nobody here tells apart. A query reads a store
between two commits: what a pass that commits between the statements of one chart
hides is described in section 5. The sampler thread beside a benchmark only adds
to its report.

Next, in this order; each is named in the component list of `PROJECT.json`:

1. `Install`: each step of installation able to fail, and its undo; with it the
   control centre's rows that start programs and edit PATH.
2. The statements of a chart as steps of their own, beside Retention.
