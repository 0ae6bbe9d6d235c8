# A TLA+ development for mpas-operational

The repository is an operational weather forecast: shell jobs under
`operational/` that Slurm chains and restarts, around a build of the MPAS-A
model (`source/mpas-8.0-dust/`), whose framework schedules, names and writes
the files the jobs look for. This project models the control of that system
(which job or attempt does what after which failure, which alarm rings when,
which file holds what) and leaves the numerics out.

## 1. Inventory

| Component | State it keeps | Operations | What is hard |
|---|---|---|---|
| **Forecast job** `operational/run.mpas.sh` (two per cycle) | the run directory: INIT, MPAS.\*, RSTR.\* files and their modification times, the flag OK.MPAS, the model log, the assimilation directory | decide (done, no input, cold or warm start), run the model, check the log, hand over the +9 h restart file, touch the flag | killed anywhere, requeued by Slurm, run a second time by the chain; all memory is in the files |
| **Atmosphere core** `core_atmosphere/mpas_atm_core.F` | the clock, the stream alarms, `restart_timestamp` | silence alarms at start, step, advance, write the ringing streams, note the restart, reset alarms | crash between two files, order of streams, one stream failing and the rest going on |
| **Timekeeping** `framework/mpas_timekeeping.F` | a clock and its list of alarms | create, advance, set, turn around, add, remove, reset, adjust, calibrate, test alarms; interval division | long sequences of legal calls, look-ahead, both directions, boundaries |
| **Stream manager and I/O** `framework/mpas_stream_manager.F`, `mpas_io_streams.F`, `mpas_io.F` | streams, their open file, record pointer, clobber mode | add, write, reset and query alarms, name files, seek records | files that exist already, an interval that changed, partial writes |
| **Stream configuration** `xml_stream_parser.c`, `tools/registry.v7/gen_inc.c`, `driver/mpas_subdriver.F` | the stream file, the stream manager's list, the directories of the output files | check the file, create the Registry's streams, then those of the file, with alarms and fields | a file checked once and parsed later, references between streams, errors of several calls, order of the elements |
| **Submission** `operational/start.mpas`, `restart.mpas`, `modelenv.sh` | the job graph, the date of the cycle | date edit, log rotation, chain of `sbatch` | dependencies of failed jobs, a second submission while jobs are pending |
| **Preprocessing** `ungrib`, `metgrid`, `init` jobs | INIT file, OK flags | wait, run, check, retry | waits that only the time limit ends, success reported after failure |
| **Post-processing** `mpas2wrf`, `upp`, `toctl`, `stats`, `ascii` jobs | one array task per forecast hour; products | poll for input, skip what exists, convert, publish | polling against the time limit, products written in place |
| **Physics and diagnostics scheduling** `mpas_atmphys_manager.F` | physics alarms, step flags | test and reset alarms each step | alarms reset inside a loop over blocks, look-ahead |
| Numerics (dynamics, physics, chemistry), mesh infrastructure (decomposition, halos, pools), containers (hash, sort, lists), logging, JSON products, other cores, vendored libraries and tools | | | see section 7 |

Interaction: jobs communicate only through files and exit states; the model
and the job through the log, the MPAS and the RSTR files; the core with the
stream manager through alarms of the clock; alarms with their callers through
`is ringing` and `reset`.

What makes each part correct. *Forecast job*: an attempt resumes at the newest
sound state, nothing that recovery needs is destroyed, and complete means
complete. *Clock*: an alarm rings once per grid time, in either direction.
*Streams*: a file that must not be touched is not, and the records of a file
are those of its times. *Stream configuration*: what is refused is wrong, and
what is accepted is what the file says. *Chain*: every job comes to an end or is
left in the queue for a known reason, works for its own cycle, and what is
published is whole unless more went wrong than the second jobs make up for.

## 2. Modules

| Module | Stands for | Relation |
|---|---|---|
| `CheckpointRestart` | what a restartable forecast promises | abstract specification |
| `ForecastRun` | `run.mpas.sh`, twice, with the model it starts and Slurm around it | implements `CheckpointRestart` |
| `ForecastRun_proofs` | theorems about `ForecastRun` | |
| `Alarms` | the alarms of `mpas_timekeeping.F` as operators on one alarm | used by all modules with a clock |
| `MpasClock` | a clock with its list of alarms under any sequence of calls | extends `Alarms` |
| `MpasClock_proofs` | theorems about `MpasClock` | |
| `IntervalDivision` | `mpas_interval_division`, loop by loop | shows that `Alarms!DivisionRemainder` is what it computes |
| `IntervalDivision_proofs` | theorems about `IntervalDivision` | |
| `Streams` | file names, clobber modes and record numbers of a stream, as operators | extends `Alarms`, whose division remainder names the files |
| `RecordStore` | what the files of a stream promise: a map from times to records | abstract specification |
| `StreamFile` | the files of one output stream over several runs and crashes | extends `Streams`, implements `RecordStore` |
| `StreamFile_proofs` | theorems about `StreamFile` | its second half takes one interval for all runs |
| `AtmCore` | the time loop of the core: its two output streams with their alarms, errors, `restart_timestamp`, over successive attempts | extends `Alarms` |
| `AtmCore_proofs` | theorems about `AtmCore` | |
| `JobChain` | the jobs of a cycle, from the scripts that submit them to the announcement of the products | the forecast of `ForecastRun` is one of them, reduced to one hour |
| `JobChain_proofs` | theorems about `JobChain` | |
| `StreamConfig` | how the Registry and the stream file become the stream manager's list | the streams of `Streams` and `AtmCore` are members of that list |
| `StreamConfig_proofs` | theorems about `StreamConfig` | |
| `Iteration_proofs` | induction over the numbers and recursive functions, as lemmas about sets and functions | extended by `IntervalDivision_proofs`, `StreamFile_proofs` and `StreamConfig_proofs` |
| `MC*` | instances for TLC | one `.cfg` per run |

### ForecastRun

`pc` follows the script: `pending` (before line 71), the phases of the model
(`integrating`, `writingRestart`, `restartWritten`, `writingOutput`),
`returned` (after `srun`), `moved` (after the `mv`), `ended`. One action per
exit of the script (`AlreadyDone`, `NoInitFile`, `ReportFailure`, `TouchOK`),
per kind of start (`ColdStart`, `WarmStart`), per file step of the model
(`IntegrateHour`, `SyncRestart`, `CreateOutput`, `SyncOutput`,
`ModelFinishes`), for the hand-over (`HandOver`), and per way of dying
(`ModelAborts`, `TimeLimit`, `NodeFails`). A requeued job starts again from
the same files; any end of the first job starts the second (`afterany`).

Data abstraction: a file is absent, partial (created, not yet synced), good,
or bad (complete, but computed from a restart file that was not good). The
hour is the unit of time because both file intervals are whole hours. A
partial file counts as non-empty for `[ -s ]`. Modification times are a
counter that moves at each creation, so two restart files never share one.
The unsupported-resolution exit (line 114) is a configuration error and is not
modelled; the `sed` of line 156 changes a namelist option that the stream
configuration overrides.

### Alarms, MpasClock, IntervalDivision

Times and intervals are integers of one unit. An alarm is a record of the
fields of `MPAS_Alarm_type`; `prev` is `prevRingTime`. The operators carry the
direction of the clock as an argument, because every branch of the code asks
for it. `interval = 0` in `NewAlarm` stands for the absent optional argument.
`MpasClock` lets any call follow any other. `AdvanceClock` takes the clock's
time step or one given for the occasion, which does not stay; a time step is
always given in the clock's direction, as its three callers do
(`Along`). The two loops of
`mpas_calibrate_alarms` are modelled by the neighbours they find, and
`mpas_interval_division` by its remainder; the latter is justified by
`IntervalDivision`, which has the loops of the code and whose property
`Correct` names the operator that `Alarms` uses. Calendar intervals (months,
years) and the 40-name limit of `mpas_get_clock_ringing_alarms` are left out.
`origin` and `iterations` are history variables.

### Streams, StreamFile

A file is the sequence of its records, a record its `xtime` and whether it was
written to the end. `OpenFile` and `ContinueFile` are the two halves of
`write_stream` up to `MPAS_writeStream` (the file is opened under a new name,
or is open already), `WriteRecord` the write and the sync after it, so a crash
can come between; `RefuseFile` is MPAS_STREAM_CLOBBER_FILE, and the refusal of
a record a branch of `WriteOrRefuse`. `max` is the number of records when the
file was opened: the length of the Time dimension is cached with the file, so
later searches see only those. `MPAS_seekStream` looks at every record in
files of up to 20 and guesses its way in longer ones; the guess is not
modelled. A run resumes at any multiple of `RestartInterval` between its
predecessor's start and where that got to, not before that start, and skips
the output of that time;
file names count from the run's own start, as `create_stream` takes the
start time of the clock for the reference time.

### AtmCore

One attempt after another runs `atm_core_run`. `pc` says where it is: `down`,
`output` (inside `mpas_stream_mgr_write`, at stream number `at`), `writing` a
file, `stamping` (between the `open` and the `close` of restart_timestamp),
`stepping` (at the loop test), `finished`. `LaunchCold` and `LaunchFromStamp`
set up the alarms (`Begin`: `stream_mgr_add_alarm_c`, then the silencing at the
head of `atm_core_run`); `SkipStream`, `RefuseStream`, `OpenStream`,
`CloseStream`, `FailStream` are what `write_stream` can do with a stream;
`Abort`, `OpenStamp`, `WriteStamp`, `NoStamp` what follows the streams, with the
reset of the alarms that ends the iteration; `Step` and `Finish` the loop test.
`ierr` follows the code: each stream that does not return NOERR overwrites it, so
a refusal to clobber hides an earlier error. The write before the loop takes the
same actions, without a timestamp (`StampDue`).

Data abstraction: the unit of time is the time step; a file holds one record and is
absent, partial or whole; restart_timestamp is the set of the times it names,
none if it is missing or empty. That an attempt starts from the file when it
names a time and from the beginning otherwise is the operator's policy, not the
code's; the scripts here pass the start time themselves, so `ForecastRun` does
not use the file, while `AtmCore` covers the core on its own terms. The mode
append and files of several records are left to `StreamFile`. The
diagnostics stream, alarmed and silenced like output, is not represented.

### JobChain

A job is a pair of a chain (one run of a script) and a name; `st` is where it is:
in the queue (`pending`; `stuck` when its dependency can never be satisfied),
at a point of its script (`started`, `polling`, `integrating`, ...), or ended.
The script that is running is the sequence `todo` of what it has still to do:
edit the date, empty the queue (`restart.mpas` only), move the log directory
away, submit. Between two of its steps jobs of an earlier chain go on, read
the date when they start (`StartJob`), and lose the log they are writing
(`oldLog`). Each job has one action per way through its script; `IsKilled`,
`NodeFails`, `ForecastAborts`, `UngribAborts`, `WrfAborts`, `Grb1Aborts`,
`InitFails` and `SubmitFails` are what can go wrong, and `CutOff` is what such
an end leaves of the file that was being written. Which jobs are requeued when
their node is lost is `AfterLoss`: what the scripts say, and both outcomes where
they leave it to the configuration of Slurm (`upp.mpas.sh`, `toctl.mpas.sh`). `TimeLimit` is no fault: it
is what ends a job that waits for a file.

Data abstraction: one forecast hour stands for the tasks of an array job; the
files of a cycle are those the jobs of this line hand to each other, absent,
partial, good or bad as in `ForecastRun`. Since the other 240 hours are not
represented, a forecast job may find them all there, so `ForecastSkips` is possible whenever
the represented one is. Left out: the flag files nothing reads (OK.INIT,
OK.UNGRIB), the jobs beside the line, the animation files of `upp.mpas.sh`.
`clean_before_run.sh`, the converters and Slurm are external.

### StreamConfig

`phase` follows `mpas_subdriver.F`: the file is checked (`Check`) and the mesh
stream found in it (`FindMesh`), the Registry's streams are created
(`SetUpImmutable`), and the elements are handled one after the other, immutable
ones first (`ParseOrder`): `Create` (intervals, file interval, directories,
`stream_mgr_create_stream_c`), `AddAlarms`, and, for a new stream, `AddFields`.
A nonzero status ends the program (`failed`); reading a missing string, or
storing before the first character of one, is `crashed` (the latter may also go
unnoticed, and then the reference is refused). `Create` has the outcomes of the
code in their order: an interval
that cannot be expanded, a missing attribute, a directory, the call itself.
`AddFields` goes through the three groups of children (`Groups`) and ends at the first
in which a field is refused or a name is missing.
`Nest` has a case for every tag that `xml_syntax_check` distinguishes: opening,
closing and single tags, the declaration (pushed like an opening tag), a tag with a
slash at both ends (let through), and the empty tag, behind which nothing is
looked at (`Scanned`).

Data abstraction: an interval is a tuple of words, as the code looks for
words in it; a template, a name, a field is a value, and a variable structure
counts as a field. The order of a refused field and a missing name within one
group is left open. The tags and the elements
of a configuration vary independently: the parser of XML itself (`ezxml`) is third
party. The checks for brackets and quotation marks, packages,
`io_type`, precision and the value of the reference time are left
out; all output templates share one path of directories.
The constants are assumed to be what the code can meet (`RegistryAssumption`,
`ConfigAssumption`): the Registry's streams include streams of the Registry
only, an interval is one of the forms the code looks for, a stream that is
referred to has none of the searched words for a name, and the
first directory of the path, the root, exists.

## 3. Runs

| Run | What it asks | Size |
|---|---|---|
| `forecast` | all properties of `ForecastRun`, safety, action, liveness and refinement | 37,000 states |
| `forecast_hole` | is the output of the hour a run resumes from always there, as `mpas_atm_core.F:663` takes for granted? **No** | short trace |
| `forecast_handover` | is the restart file handed over after completion, as `run.mpas.sh:211` says? **No** | short trace |
| `clock` | all properties of `MpasClock` | 70,000 states |
| `interval_division` | all properties of `IntervalDivision` | 1,500 states |
| `stream_file` | all properties of `StreamFile`, refinement included | 116,000 states |
| `stream_append` | does a time that is new to a file go to its end, as `mpas_stream_manager.F:3340` says? **No** | short trace |
| `atm_core` | all properties of `AtmCore` | 52,000 states |
| `restart_timestamp` | is restart_timestamp only written after the restart file has been, as `mpas_atm_core.F:887` says? **No**, if files may not be replaced | short trace |
| `job_chain` | all properties of `JobChain` | 616,000 states |
| `stream_config` | all properties of `StreamConfig` | 584,000 states |
| `stream_include` | are the fields of a mutable stream added to one that includes it, as `xml_stream_parser.c:1810` says? **No**, if it stands before that one | short trace |

Bounds. *Forecast*: 12 hours with restart files at 3, 6, 9, 12, of which 6 is
handed over, keep the shape of the real 240 hours with files every 3 and hour
9 handed over: the handed-over file is neither the first nor the last one, so
the moved file can have been the newest, the oldest or one between when a
later attempt looks. Four failures allow a requeue of each job, an abort and a
time limit in one behaviour; more failures repeat states. *Clock*: one alarm
(no operation reads one alarm to write another), times 0..9, time steps of one and two
units, intervals that are multiples of the step, coprime with it and longer than the look-ahead,
a look-ahead of up to two units. *Division*: divisors 0..4 and numerators from
-3 to 35 reach quotients past 32 with both exact and inexact fits.
*Streams*: one output interval (every run of the operational set-up has the
same), files of one, two and three records and one for the whole run, so that
a run can resume in the first, the middle and the last record of a file and
across files; three runs, so that a run can find a file that a resumed run has
continued; times 0..5 give two file boundaries for every interval.
*Core*: eight steps, restart files at 4 and 8, output at 0, 2, .. 8: output alone,
both streams and neither fall due, an attempt can resume in the middle and at the
end; three crashes or failing writes allow a failure in the attempt after the
resumed one. All nine pairs of clobber modes.
*Chain*: two dates and two runs of a script are the least with a queue of another
cycle; two faults strike a job and the one that is to make up for it, or a requeued
job again. Faults strike the first chain only, the second script runs
only when there were none (a fault and a live queue are studied apart), and `start.mpas` over a live
queue is for a later date; the guards that say so are marked as bounds.
*Stream files*: tags in sequences of up to five, of every kind and over two names; two streams
with every combination of directions and written intervals, references to each
other, to themselves, to a stream that is not there and without an attribute; three directories in every
state; inclusions of the immutable, the earlier, the later, the missing and
the stream itself; children of each kind without a name. The files vary in one respect at a time: the respects meet
in the code only through the list, which `IncludesLand` and
`AcceptedAsDeclared` look at.

Violations. The traces of section 6 are disagreements between a comment and
what the code does after a kill, under a changed configuration or for a certain order of streams; each cfg checks one property.

Fairness. `WF_vars(Step)` in `ForecastRun`: Slurm starts a pending job whose
dependency is met, and a process that is not killed proceeds. Nothing is
assumed about failures; they are bounded by `MaxFailures`, the only thing
that keeps a behaviour from being killed for ever. `WF_vars(Proceed)` in
`AtmCore` is the same: a living attempt goes on, a dead one is launched again,
and neither `Crash` nor `FailStream` is fair. `WF_vars(Slurm)` in
`JobChain`: Slurm starts a job whose dependency is satisfied or gives it up,
programs run to their end, and a job that waits meets its time limit; the
operator, the script's own steps and all faults are unfair. In
`IntervalDivision` a sequential procedure goes on. `MpasClock` has no liveness: nobody is obliged
to call it; `StreamConfig` is sequential and is asked for safety only.

Deadlock checking is off where the system stops: the chain of jobs ends, the
procedure returns, the stream file is read or refused, a finished run is over, and an attempt whose restart file is
torn cannot start.

## 4. Properties

*ForecastRun.* `NewestIsLatest` (what makes `ls -rt1` a sound choice),
`CheckpointsSurvive` and `HandOverIsFinal` (what no step may do),
`HolesOnlyWhereResumed` and `CleanCompletion` (what the flag file means),
`Termination`, `RecoversWhenFailuresCease`, `ImplementsCheckpointRestart`.
*MpasClock.* `RingsOnGrid`, `ResetSkipsNothing` (no ring lost or repeated by a
reset, with or without look-ahead), `CalibratedRingsNext`, `AdjustedRingsSoon`
(only for a clock that runs forward: see section 6).
*IntervalDivision.* `Correct`, `SearchBounds`, `LogarithmicCost`,
`Termination`.
*StreamFile.* `NoGaps`, `RecordsAscend` (no duplicates, no disorder),
`RunIsRecorded` (a torn record is repaired), `OldRecordsKept` (what the clobber
modes protect), `ImplementsRecordStore` (a write touches the record of its own
time only).
*AtmCore.* `StampIsSound` (the timestamp names a file one can restart from),
`GridComplete` (no file is missing but output of a time an attempt resumed
from), `PastIsKept` (an attempt leaves the files up to its start alone),
`RunCompletes`.
*JobChain.* `OwnDate` (no job works for an earlier cycle than its own, and none
for a later one but after a script over a live queue), `OneAtATime` (jobs that
share files never overlap, whatever is requeued), `StuckOnlyBehindIngest` (what
can block a chain), `PublishedIsComplete` (what an announced cycle is worth:
`Excused` lists what the second jobs do not make up for),
`GoodProductsKept` (no second job spoils a good product), `Settles`.
*StreamConfig.* `NestingIsBalance` (of the tags XML knows, those are refused
that are not balanced, defined without a stack), `AttributesAreThere` (the checks
cover the attributes of the streams, and the program crashes only on what
nothing checks), `AcceptedAsDeclared` (templates, modes,
alarms, file intervals and directories of an accepted file; its exceptions are
listed in section 6), `IncludesLand` (the fields of included streams: those of
the immutable and the later ones are there, and none that was not asked for).

Each property has a mutant of a mapped definition that TLC must refute.

## 5. Proofs

All theorems hold for every value of the constants that satisfies the named
assumptions. `ParameterAssumption` and `RestartHoursAssumption` say that the
horizon is a restart hour, that restart files come every `RestartInterval`
hours and that the shell's rounding unit divides them (3 and 3 in the code),
and that the handed-over hour lies strictly between the first and the last
restart hour (3 < 9 < 240).

- *Forecast.* `TypeCorrect` gives `stop = Horizon`, which needs the rounding
  lemma for a warm start. `NewestRestartIsLatest` needs an invariant that
  relates the clock to the files: while the model runs, no restart file is
  later than the clock, and modification times never exceed `now`. Without the
  first part a resumed run could create an old hour after a later one.
  `GoodCheckpointsSurvive` and `HandOverStays` follow with the part of the
  invariant that says where the hand-over can have happened.
  `OkOutputsComplete` and `OkOutputsClean` rest on an invariant about the
  outputs up to the clock, and on the log being removed before the model
  starts. `RefinesCheckpointRestart` maps every action to a step or a stutter.
- *Clock.* `RingTimesStayOnGrid` needs only the type invariant; the work is
  in lemmas about `%` for each of the operators that compute a ring time.
  `ResetsSkipNothing`, `CalibrationRingsNext` and `AdjustmentRingsSoon` add
  where on the grid the next ring time lies: every stretch of one interval holds
  exactly one point of the grid (`OnePointPerInterval`), so a ring time
  in the right stretch is the first one from the clock's time. For a reset the
  alarm must ring, which makes the remainder of the division in the code a true
  remainder; a clock running backward is the forward one mirrored.
- *Division.* `SearchStaysInBounds` and `DivisionCorrect` use an invariant
  that `updated = den * n` in both loops, that `n` and `m` are tied to the last
  power of two, and an abstract predicate for the power of two so that
  no recursion is needed. `CostIsLogarithmic` does count: after d doublings
  `n` is the d-th power of two (`CostInv`), and the halving loop, which starts
  after D of them, makes at most D passes before `m` is 0. The powers
  are a recursive function there (`Pow2`).
- *Streams.* `StreamFileTypeCorrect`, `NoGapsInFiles` and `OldRecordsAreKept`
  rest on an invariant about the record pointer: up to `max` it moves through
  the records the file had when it was opened, and the file has `max` records;
  beyond `max` it counts the records. No assumption says that runs use the same
  interval, so the defect of section 6 cannot leave a gap or touch a file in
  mode append. That a nonempty set of record numbers has a last one comes from
  `LeastNumber` of `Iteration_proofs`.
  `RecordsAreInOrder`, `RunsAreRecorded` and `RefinesRecordStore` do assume it
  (`OneInterval`: all runs use one interval, which divides the restart
  interval); with two intervals the three properties fail, which is the defect of
  section 6. The invariant `GInv` says that run times are on one grid
  (`Timed`), that the records of a file are consecutive points of it
  (`FilesRegular`), that a run that writes holds a file from its first time on
  (`Fresh`), and that the record pointer stays with the time to be written
  (`Aligned`). A run opens a file at the first of its times that belongs there
  (`OpeningIsFirst`), so the search finds that time, or nothing and the record
  comes right after the last one.
- *Core.* `TimestampIsSound` rests on an invariant that the restart file of the
  clock's time is whole from the moment the restart stream has had its turn
  without error (`RestartWritten`), and that the alarms of a living attempt ring
  after the time in restart_timestamp only (`AheadOfStamp`); the latter gives
  `PastFilesAreKept` as well. `GridIsComplete` adds that alarms are multiples of
  their interval and at most one interval behind the clock (`OnTime`), so that a
  reset passes over no other multiple, and that the files up to each alarm's
  previous ring time are written (`PassedIsDone`). That the restart interval is
  a multiple of the output interval is assumed (3 and 1 hours in the
  configuration): without it a resumed attempt's output times are others. Nothing
  is assumed about the number of failures or the horizon.
- *Chain.* `JobChainTypeCorrect`, `JobsKeepTheirDate`, `NoTwoJobsAtOnce` and
  `OnlyIngestBlocks` come from one invariant. What a script has still to do
  is a tail of its program, with the edit first (`TodoIsTail`), and the jobs of
  the chain that have been submitted are its head (`SubmittedIsHead`); a job has been
  accepted only behind accepted ones and has started only behind ended ones
  (`InOrder`), and while no queue was overrun all earlier chains are over
  (`EarlierAreOver`). Two running jobs would then be each before the other. That
  the date is edited before the first submission is what makes `Dated` hold when a job starts.
  `GoodProductsStay` adds that a job which is making a product had found it
  missing or incomplete (`Unfinished`), and that no other job has made it since:
  that is `NoTwoJobsAtOnce` again.
  `PublishedProductsAreComplete` needs to know why a product is good all along
  the line. `ChainIsSound` says it of the chain submitted last, as long as no
  fault of it is in `Excused`: at each status of each job, what the files it reads
  and writes are worth (`Prepared`, `Forecasted`, `Converted`, `Posted`). A job
  that was not hit leaves a good file; the second of a pair, which finds what
  the first left, works on it only if the first was hit, and then was not hit
  itself. The files change by the running job alone, so each part is preserved
  by a lemma of its own (`ForecastIsSound`, ...) and framed for the other jobs.
  `LogsAreOld` keeps the job's log where `ungrib` and the forecast look for it, and
  `RestartIsCut` says that of a chain of `restart.mpas` no job but the first is
  accepted (finding 5): for those the property says nothing. It is a theorem of its
  own, `RestartSubmitsOneJob`.
  Any set of dates, any number of scripts, and any number of faults, with three
  restrictions that are guards of the model: no script is run for an earlier date than
  the one in modelenv.sh (`RunScript`), none is run after a fault (`faults = {}` there),
  and faults strike the first chain only (`runs = 1` in `Hit`). So the theorems
  say nothing of a chain submitted after a failure, nor of failures in a
  second chain.

- *Stream configuration.* `NestingIsBalanced` says that the stack of
  `xml_syntax_check` accepts, of the sequences of opening, closing and single tags, exactly
  the balanced ones, of any length; what it does with other tags is in the model and
  outside the statement (`OrdinaryTags`, `ScannedFacts` and `RunOfPrefix` connect the two). The work is in what a part of the tags does above names that
  other parts have left open (`LiftForward`, `LiftBack`): with it the check
  satisfies the one-level unfolding of `Balanced` (`OkUnfolds`), and an induction over
  the length makes them equal (`OkIsBalanced`). `OnlyUncheckedCrashes` adds the
  invariant of the checks (`CheckInv`): from the check on every element has the
  attributes that are read later without looking, so that what is left to
  crash on are a closing tag where nothing is open, a reference without its second colon and the
  names of children.
  `AcceptedIsDeclared` and `FieldsOfIncludedStreams` rest on `ListInv`. It says
  what the stream manager's list is at every point of the parser: the
  Registry's streams, changed by what each element handled so far has
  contributed (created, alarmed, filled) and by nothing else, and the
  directories of the files are what `build_stream_path` leaves (`BuiltPath`).
  A step of the parser touches one stream (`OneStreamChanges`), and there is one lemma
  per step (`AtStart`, `AtCreate`, `AtAlarms`, `AtFields`, `AtEnd`). That the
  order of parsing has each element once and the immutable ones first is
  `OrderFacts`; that the words of an interval lead to the documented file
  interval is `FileIntervalIsWanted`. Any stream file, any Registry, any path
  within the two assumptions.

*Recursive functions.* The models write the loops of the code as functions
`f[k] == ... f[k - 1] ...`, of which nothing is known until such a function is
shown to exist. `Iterate` (in `Iteration_proofs`) shows it, for one starting value and
one function per pass; `Pow2Facts`, `RunFacts`, `KeptFacts` and
`WalkedFacts` are its instances. Inductions are stated over sets of numbers
(`SetInduction`), since no prover here instantiates an operator parameter.

Every invariant and every safety property of steps of the passing runs is
proved, and so are both refinements. Model-checked only is liveness under
fairness, which is out of the prover's reach: `Termination` (of `ForecastRun`
and of `IntervalDivision`), `RecoversWhenFailuresCease`, `RunCompletes` and
`Settles`.

## 6. What the checks showed

1. *A hole in a complete forecast* (`forecast_hole`). `restart` is an immutable
   stream and is written before `output`. A kill between RSTR.h and MPAS.h, then
   a warm start at h with the output alarm silenced, gives a run with the flag
   set and no (or a truncated) MPAS.h. `HolesOnlyWhereResumed` shows that this
   is the only way a file can be missing from a completed run.
2. *A restart file that is never handed over* (`forecast_handover`). A kill
   after the last output and before `mv`: the next attempt exits on the count
   of 241 files.
3. *A record written over another* (`stream_append`). In a file of n records the
   code appends a new time only while the pointer is below n; when the next
   record is the n-th, the time is written there. A run of interval 2 continued
   by one of interval 1 in mode overwrite loses the record of time 2; in mode
   append the write is refused and time 1 is lost instead.
4. *A timestamp without its restart file* (`restart_timestamp`). Writing
   restart_timestamp depends on the alarm of the restart stream, not on the
   result of its write. After a crash in a restart file, a run from the start in
   mode never_modify (the default) is refused that file and names it in
   restart_timestamp all the same; the next restart then reads a torn file.
   `StampIsSound` shows that this cannot happen when files may be replaced, as
   in the operational configuration.
5. *A chain of one job* (theorem `RestartSubmitsOneJob`). The first `sbatch` of
   `restart.mpas` has no `--parsable`, so the variable of line 80 holds a sentence, the
   dependency of line 81 is refused, and with it, for an empty number, all that follow.
   The first forecast job runs; nothing is converted or published, while line 5
   of the script gives as its purpose "Submit MPAS forecast job chain to SLURM".
6. *Exceptions in the properties of the job chain.* `toctl.mpas.sh` announces a
   cycle whatever happened before (`afterany`), and `init.mpas.sh` ends with
   status 0 whether or not the model did. What the second jobs do not repair is listed in
   `Excused`; a GRIB 2 file that was cut off is the plainest case: it is not
   empty, and the second `upp` takes it for complete.
7. *An included stream that brings nothing* (`stream_include`). A mutable stream that
   stands before the one that includes it brings no fields:
   `stream_mgr_add_immutable_stream_fields_c` reports no error for it, which the
   parser takes for the sign of an immutable stream. `IncludesLand` shows that
   immutable streams and those that stand later do bring theirs.
8. *Exceptions in the properties of the stream configuration*. `AcceptedAsDeclared`
   leaves out, and thereby confines: (a) a `<stream>`
   with the name of one of the Registry's immutable streams: the error of its creation
   is overwritten by the next property that is set (`mpas_stream_manager.F:5914`
   to 5931), so the element is accepted and changes the other stream;
   (b) a stream that borrows `initial_only` from another one gets it for its
   file interval: the test looks at the reference, not at what it refers to
   (`xml_stream_parser.c:1460`; the comment at 1446 has it otherwise);
   (c) a directory that cannot be
   made because the first one is not writable goes unnoticed, and so does a
   locked first directory that is itself the place of the files
   (`build_stream_path` never looks at it; the comment at 782 has it otherwise).
   `AttributesAreThere` names what crashes the program: (d) a closing tag where
   nothing is open, which is compared with the name of a null node (line 733);
   (e) a `<var>`, `<var_array>`, `<var_struct>` or nested `<stream>` without a name, which
   no check looks at (1749 to 1817); (f) a reference `stream:x` without a second colon,
   whose name is cut off at index -1 (965). And `NestingIsBalance` leaves out
   (g) the declaration `<?xml ?>`, pushed as an opening tag, so that a well-formed
   file is refused; a tag `</x/>`, which passes (752 to 755); and whatever
   follows an empty tag `<>`, which is not looked at (759).
9. *Not findings of a run*: with several records per file, replace_files
   makes a resumed run truncate the file that holds earlier records of its
   predecessor when both give it the same name (`RunIsRecorded` speaks of the
   run itself only); and the reverse branch of
   `mpas_adjust_alarm_to_reference_time` divides a negative interval and leaves
   the reference time as previous ring time, so the alarm of a clock that runs
   backward need not ring within one interval. No core of the repository turns
   a clock around, so `AdjustedRingsSoon` is stated for forward clocks.

## 7. Not modelled

Numerics (dynamics, physics, chemistry) are floating-point computations.
Message passing, decomposition and halo exchange move data and keep no control
state the other parts depend on; halo groups and the sort and hash routines
are candidates for modules of their own. Of the code generator
(`tools/registry.v7`) only the streams it writes are modelled: the merging of the
Registry's parts and the generated declarations are text transformations.
The scheduling of physics and of diagnostics uses the alarms of `Alarms`; its
loop over blocks is not modelled. Logging, timers, formatting of JSON
and text products, calendars and string conversions are left out. The other
cores are not run by the operational scripts; `external/`, `tools/` and the
vendored archives are third party. OpenMP teams are not modelled.

## 8. Plan

Done, in this order: `ForecastRun`, `MpasClock`, `IntervalDivision`,
`StreamFile`, `AtmCore`, `JobChain`, `StreamConfig`, all with
theorems. What a continuation would take up:

1. The alarms of `physics_timetracker` over several blocks
   (`mpas_atmphys_manager.F:232`), on `Alarms`.
2. The merging of streams and structures in the code generator
   (`gen_inc.c`, `merge_streams` and `merge_structs`), whose result
   `StreamConfig` takes as the constant `Registry`.
3. Input streams (`read_stream`), with the alarms of `AtmCore`.
