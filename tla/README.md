# Verification of metering

metering evolves text and code candidates under measurement.  A *Controller*
call pays an agent for one new candidate and its assay; a *Population* is the
append-only ledger of candidates, runs and archives; a *Driver* spends a bounded
budget of Controller calls against a Population; the *Evolution Driver* is the
serial loop that came before it; *Agentvolve* runs Drivers as detached workflows
for an operator, and the *Pi extension* starts and follows those workflows from a
chat session; the *harness* is the recursive agent loop that is itself being
evolved, over supervised Python kernels, and a *harness experiment* evolves it.
This directory holds TLA+ models of those programs, TLC configurations that check
them, and TLAPS proofs of what matters most.  Line numbers below refer to the
repository.

## 1. Inventory

| Component | Source | State | Operations | Modelled in |
|---|---|---|---|---|
| Population ledger | `apps/population/population{,_state,_protocol}.py`, `apps/_support/journal.py` | `population.jsonl`, `STATE.lock` (a directory) | init, candidate, recombine, experiment, run, archive, allocate, verify | `PopulationRules`, `PopulationCommands` |
| Archive policy | `population_policy.py` | none (pure) | aggregate, rank, select, allocate | `ArchivePolicy` |
| Projection | `population_index.py` | SQLite file | rebuild, verify-index, query | `PopulationIndex`, `PopulationCommands` |
| Population Driver | `apps/population_driver/` | `driver.jsonl`, `pending/`, `receipts/`, a lock, a Population of its own | run, retry, verify | `PopulationDriver` |
| Evidence adapters | `*_adapter.py` | none | one call | only the call, in `PopulationDriver` |
| Controller | `apps/controller` | none kept; a receipt is printed | one agent or fixture generation | `Controller`, `AgentGeneration`, `FixtureGeneration` |
| Mutator, runner, gate, assay | `apps/mutator`, `apps/runner`, `apps/selection_gate`, `apps/forecast_assay` | none | one call each | their checks and rules, in `SelectionRules` and the generations |
| Observer | `apps/observer/observer.py` | belief over versions, a sandbox of files | state, observe, finish; the automatic mode | `ObserverSession` |
| Evolution Driver | `apps/evolution_driver/evolver.py` | a state file, a directory lock | run, again and again | `EvolutionDriver` |
| Measurement history | `src/metering/history.py` | three files, a Git repository, a directory lock | record, log, verify | `MeasurementHistory` |
| Agentvolve worker | `apps/coding_agent/agentvolve_worker.py` | request, jobs, status, `closed.json`, `worker.lock` (flock) | start, resume, retry, verify, stop, close, read-only probes | `AgentvolveWorker` |
| Agentvolve registry | `agentvolve_worker.py` | the workflow directories, a registry lock | start beside start, resume, stop, close | `AgentvolveRegistry` |
| Pi extension | `connectors/fixed/pi/*.ts` | the session log, the submission shown, an epoch, reads and a timer | a preparation with its model calls, dispatch, acknowledgement, cancel, the monitor, management, session start and shutdown | `PiSession` |
| Experiment runs | `apps/coding_agent/experiment_*.py` | run root, driver lock file, receipts, retry effects | fresh, resume, retry, verify, final assay | `ExperimentRun` |
| Harness experiment | `apps/harness/experiment_*.py`, `final_assay.py` | root, driver ledger, receipts, `retry-effects/`, the selected harness, the report | run, resume, retry, the final assay, verify | `HarnessExperiment` |
| Harness kernel session | `apps/harness/kernel_contract.py`, `kernel_server.py` | kernel process, pipes, latest snapshot, latest files | execute, export, snapshot, restart, close | `KernelSession` |
| Harness runtime | `apps/harness/runtime.py` | counters, frames of the recursion | turns, delegation, finish | `HarnessRuntime` |
| Views, connectors, Git artifacts, codecs, measures | see `PROJECT.json` | | | not modelled (section 8) |

How they interact.  Everything is a process that talks to the next one through
one subprocess call (JSON on standard input and output) and through files.
Population and Driver share a ledger: the Driver appends to it under the
Population's lock, while an operator may use the Population command line on the
same directory.  A Controller calls Mutator, Runner, Observer, Assay and Gate, each
a process with a deadline, and most of them call an adapter with a deadline of its
own; the Observer of a fixture generation is a conversation in JSON lines.  A
worker forks an *effect*, which holds the Driver's lock and starts one Controller
at a time in a session of its own; the operator's `stop` reaches the worker and the
effect by signals.  The Pi extension runs `start` and the management commands as
processes it may give up on, and polls the workflow it is bound to.  A harness run
owns one kernel per delegation level and talks to it over pipes with deadlines.

What is hard here, and no unit test reaches easily:

- an invocation may die between any two durable writes, and the next one must
  neither repeat a paid call nor give up a round that was paid for;
- two commands may overlap: launcher and stopper, close and launch, operator and
  Driver on one ledger, two recorders of a history, two starts of a workflow, a
  stopped effect's Controller and the retry after it, a Git commit that outlives
  its recorder;
- an answer may arrive after the one who asked has given up: a start command's
  acknowledgement in another chat session, a read of a workflow no longer followed,
  a kernel's answer at its deadline, an orphaned Controller's receipt;
- deadlines are nested: an adapter's inside a component's inside a Controller's
  inside a Driver's, and the inner one must expire first;
- budgets are counted over rounds, retries, delegations and failures.

`PROJECT.json` lists each hazard at its line under "hazards", with the properties
that cover it.

### What makes each component correct

| Component | Properties |
|---|---|
| Population ledger | implements one atomic append-only ledger (`LedgerAtomic`); nothing is appended after a torn line (`TornLineIsLast`); the lock comes free (`LockComesFree`); the whole ledger always replays, the seal of final work holds, lineage is well founded (proved) |
| Archive policy | parents are bred only from an archive that reflects all evidence (`AllocationsAreFresh`), and are survivors of it (proved) |
| Projection | every answer is true of the ledger of that moment (`QueriesAreCurrent`) |
| Driver | one call per durable approval (`ImplementsProtocol`); reservations cover spending and stay within limits (`SpendWithinReservation`); every interruption but one replays (`StateReplays`); paid rounds commit (`DurableRoundsCommit`) |
| Controller | what it prints replays (`GenerationsReplay`); the timeout the Driver derives never expires first (`DerivedTimeoutCovers`); evidence is about one version (`EvidenceIsOfOneVersion`); no Observer is left (`NoObserverLeft`); generations end |
| Observer | the belief is what the evidence leaves (`BeliefIsWhatEvidenceLeaves`) |
| Evolution Driver | the file is one history of one request (`ImplementsHistory`); memory is its replay (`MemoryIsReplay`); at most one paid call is lost per interruption (`PaidCallsAreRecorded`); a repeated request reaches its limit (`EvolutionFinishes`) |
| Measurement history | the branch is a log of whole measurements (`ImplementsLog`); an answer names its own commit (`AnswersAreTheirs`); recording goes on, but for a repository left between `git init` and `symbolic-ref` (`RecordingGoesOn`) |
| Worker | one worker (`OneWorker`), one driver (`OneDriver`), no false "stopped" or "completed" (`StatusIsTrue`), close is final, a retry goes on behind the harness run (`RetryGoesOn`), jobs are answered |
| Registry, Pi extension | one unfinished workflow (`OneUnfinishedWorkflow`); the log is right about every dispatch (`LogIsTrue`); a session reports its own workflow only (`OwnReportsOnly`); preparations end |
| Experiment runs | the seal of final work stays (`SearchStaysSealed`) |
| Harness experiment | protected tasks run once (`FinalIsOneUse`); a report verifies outside three named gaps (`ReportsVerify`); what was paid for is reported, what was searched is assayed |
| Harness | a cell counts wholly or not at all (`CellsAreAllOrNothing`), no kernel is left behind (`NoKernelOutlivesItsLevel`), a run ends |

## 2. Modules

    ArchivePolicy <- PopulationRules <- PopulationIndex <- PopulationCommands
                                                             (implements PopulationLedger)
                                     <- PopulationDriver     (implements RoundProtocol)
    SelectionRules <- AgentGeneration ------------------\
    SelectionRules, ObserverSession <- FixtureGeneration -- Controller
    EvolutionDriver    (implements GenerationHistory)
    MeasurementHistory (implements MeasurementLog)
    ExperimentRun <- AgentvolveWorker
    AgentvolveRegistry <- PiSession
    HarnessExperiment
    KernelSession <- HarnessRuntime

    PopulationCommands_proofs, PopulationDriver_proofs, Evolution_proofs,
    MeasurementHistory_proofs, AgentvolveWorker_proofs, PiSession_proofs,
    HarnessExperiment_proofs, HarnessRuntime_proofs                      theorems
    MCPopulationCommands, MCPopulationDriver, MCController, MCEvolutionDriver,
    MCMeasurementHistory, MCAgentvolveWorker, MCPiSession, MCHarnessExperiment,
    MCHarnessRuntime                                                     instances

An operator whose comment begins with "Mutant" belongs to no specification: it is
a plausible mistake in the definition that follows it, and shows that the property
named in `PROJECT.json` notices that mistake.

**ArchivePolicy, PopulationRules.**  Pure operators on a ledger, a sequence of
records.  The code folds records into a `PopulationState`; each field of that
state is an operator here (`Candidates(l)`, `LatestArchive(l, e)`, ...), and
`RecordValid(l, r)` is the fold's check of one more record.  A record id is a
hash chained over the ledger, so it is the record's index.  Floats are integers
scaled by `Scale`; the standard deviation and the divergence of behaviours are
constant operators, because the rules only compare their values.

**PopulationIndex.**  `Projection(l)` is the nine tables a rebuild writes, as sets
of rows; `QueryAnswers(t, q)` reads an answer from such tables as the SQL does, and
`AnswerHolds(l, q, a)` says whether it is true of a ledger.

**PopulationCommands.**  `Start` is argument decoding and `mkdir STATE.lock`,
`Load` the read and fold of the ledger, `Validate` the body of the request and its
check; `BeginAppend`, `FinishAppend` and `FailAppend` are the write of a line, which
a death in between leaves `torn`; `Read` is verify, rebuild and the queries against
`index`; `Release` removes the lock.  `Crash` leaves the lock directory, and
`RemoveAbandonedLock` is the operator's remedy.

**PopulationLedger.**  What users rely on: `Initialize`, then one valid record at a
time.

**PopulationDriver.**  One action per durable step of `machine.py`: intent,
Controller call, receipt, checkpoint, evidence reservation and attempt count,
adapter call, receipt, checkpoint, each Population record, the Driver record,
removal of the intent.  `pc` is the point between two of them.  Deaths, failing
calls, an abandoned lock, and an operator appending to the Population under its
lock are actions.  `Verifiable` and `RoundReplays` are `replay.py`.

**RoundProtocol.**  What the payer relies on: approve, call once per approval,
commit a round only after a call, at most `MaxRounds`.

**SelectionRules, AgentGeneration, ObserverSession, FixtureGeneration, Controller.**
`SelectionRules` are reports and the gate.  `AgentGeneration` is one schema-2
generation: `stage` and `task` say where the Controller is, `callee` the component
it waits for, `timer` what is left to each of the nested deadlines; time is counted
in ticks.  `ObserverSession` is the JSON-lines process with one-line pipes and a
sandbox somebody may alter; `FixtureGeneration` is the schema-1 generation that
converses with it.  `Controller` dispatches between the two, and lets a client of
its own talk to an Observer.

**GenerationHistory, EvolutionDriver.**  The history is what one state file may
say; the driver is `evolver.py` with its lock directory, replay, limits, calls and
the two parts of an append.  `memory[p]` holds the loop's local variables.

**MeasurementLog, MeasurementHistory.**  Each Git command of `history.py` is a
step; `files`, `staged` and `commits` are worktree, index and branch, `orphan` the
`git commit` that outlived its recorder, and `Clean` what `git status` compares.

**ExperimentRun, AgentvolveWorker.**  `runs[k].stage` stands for what the files of
a run root say; an effect is one experiment process; `calls` are Controllers with
lives of their own.  `holders` is the set of processes that share the open file of
`worker.lock`: the launcher and the worker it forks, which is how flock passes on.
`cli[p]` are the operator's invocations, `workers[j]` the worker of job j.

**AgentvolveRegistry, PiSession.**  `phase[a]` is how far the workflow of attempt a
has come, `starter[a]` the start command as a process of its own.  `PiSession` is the
extension: `log` and `reported` are in the session log and outlive the process, the
rest is in memory.  Each `await` of a preparation is between two actions (`op.pc`);
an epoch is "current" until the next one begins.

**HarnessExperiment.**  The durable content of one root (`rounds`, `pending`,
`receipts`, `effects`, `final`, `bundles`, `files`) and the point each command is at;
`controllers` are those still running, also after the command that started them.
The driver underneath is `PopulationDriver`, here one step per durable write.

**KernelSession, HarnessRuntime.**  `sessions[d]` is the supervisor's side of level
d and `pc` the request it waits for; `kernels[d]` is the process with its two pipes.
Cells are abstracted to their traces: the names and the files they left.
`levels[d]` is the frame of `_run_level`; `Closed` is its `finally`.

### Abstractions worth knowing

- Documents are records of what is compared; digests are identity; wording,
  schemas and formats are left out.  Atomic file replacement is one step.
- A Controller or adapter call that times out is over, with everything below it,
  in `PopulationDriver` and `AgentGeneration`; that a Controller may outlive a
  *signal*, or the death of its command, is modelled in `ExperimentRun` and
  `HarnessExperiment`.
- Surprisal is compared through the product of the shares it is the logarithm of;
  a share of zero is infinite surprisal.
- Signals take effect at once; the grace periods of `stop` and of an interrupted
  cell may expire at any time.  `CreateRoot` and `InitializeState` are one step
  each, and each may fail.  One receipt per attempt.
- In `AgentvolveWorker` a run whose seal was set by an earlier effect behind a later
  one's pending round ("overtaken") is read as "retry required".
- Git commits in one step, and only if HEAD is where it was.
- In `PiSession` a draft of a task is a number of model calls; what the dialogue
  shows and what the dashboard draws are left out.  One management request is
  answered at a time; a stop or a verification may be asked for while a preparation
  is under way.
- Experiments have `information_objective` false, as the Driver and both final assays
  set it; the refusals of the archive policy for malformed evidence cannot happen to a
  ledger that loads, because `_run_evidence` has checked every run in it (`IsEvidence`).
- A lock directory whose `rmdir` fails stays behind with the command over, which is
  what a death at that point leaves.  A worker whose spawn fails leaves its job queued
  and the lock closed, which is what a death of the launcher leaves.
- The `git commit` that outlives its recorder has the index and the parent it had when
  the recorder died.
- A wire request is identified with its operation: at most one request is open,
  except a shutdown sent after an abandoned one.  Level 0 of a harness run has the
  coding workspace and snapshots follow each successful cell.  A cell does not
  delete what an earlier one wrote.  Docker's own control commands work, except
  the interrupt, which may fail.

## 3. Runs

All bounds are in the `.cfg` files.  States are distinct states.

| Run | Question | Bounds | States |
|---|---|---|---|
| `population_overlap` | Are two overlapping invocations of every command, with a death or failed write, one atomic ledger with fresh allocations, true answers and a lock that comes free? | 2 processes, 7 records, 1 crash, 16 requests that include refused ones | 582,000 |
| `driver_rounds` | Calls, reservations, recovery, replay and progress of the Driver beside an operator | 2 rounds, 3 calls, 2 deaths, 1 failing call, 1 operator record of 4 kinds | 202,000 |
| `controller` | Does what a generation prints replay, within deadlines, over evidence of one version, leaving no Observer? | 2 tasks, adapters that answer 3 forecasts, 2 verdicts, nonsense or nothing; 3 versions, 2 probes, 3 alterations of the sandbox; ticks of 1 with a margin of 2 and a slack of 1 | 504,000 |
| `evolution` | Is the state file one history of one request, is memory its replay, is a paid call recorded, is the limit reached? | 2 invocations at once, 2 requests, 3 candidates, up to 3 generations, 2 deaths, 1 failure | 38,000 |
| `history` | Is the branch a log of whole measurements, does an answer name its own commit, does recording go on, unless the repository was left between `git init` and `symbolic-ref`? | 2 recorders, 1 reader, 2 requests, 2 commits, 1 death, 1 failure, each at any step | 484,000 |
| `worker_control` | Do overlapping commands keep one worker and a true status? | 2 commands at once of all kinds but retry, 2 jobs, no Controller call | 676,000 |
| `worker_recovery` | One driver, and the seal over deaths | 1 command at a time, 2 jobs, 2 calls, 2 sudden deaths or reboots | 720,000 |
| `worker_liveness` | Does every job get an answer, and does a retry go on behind the harness run? | 2 jobs, 2 calls per run, start, retry and stop | 157,000 |
| `pi_sessions` | Is the session log right, is there one unfinished workflow, are reports the session's own, do preparations end? | 2 sessions in turn, 2 submissions, 2 model calls per draft, any number of deaths of the process | 781,000 |
| `harness_experiment` | Is final work done once, reported, and verifiable? | 2 commands at once, 2 rounds, 3 calls, 1 case, 1 death, 1 failing call | 252,000 |
| `harness_run` | Do cells, kernels and costs stay true over a delegation, with deadlines, deaths and failing restarts? | 3 turns and 2 below, 3 cells per level, 1 delegation, 4 model calls, 1 invalid action | 123,000 |
| `driver_evidence_gap` | What the documentation says and the code does not do (section 6) | one counterexample | |

Why the bounds are enough.  Two overlapping invocations are all that a lock, a torn
line, a stale projection or two recorders of one history need; a third invocation
only waits.  A second round is where the replay cursor, the allocation and the
"already committed" checkpoint first matter; two deaths let the recovery itself
die.  The operator's record may be a final experiment, a run, or the very candidate
the round is about to register.  Seven records are the shortest ledger with an
archive, an allocation from it, and a run that makes the archive stale.  Three
generations with two rejections let the rejection counter be reset once and reach
its limit once.  Two tasks distinguish a report that mixes tasks up; three versions
that two probes identify need both probes.  Two jobs are an old status and a new
one; two sessions are the one that dispatched and the one that must not be told;
two submissions are one unfinished workflow and the one that would be too many.  One
delegation with a failing start, a failing close and a cut cell uses every way a
level can end.

Every action and every disjunct of the next-state relations fires in some passing
run.  `SYMMETRY` is used in `worker_control` only, over the two invocations, and
that run has no liveness property.  `CHECK_DEADLOCK FALSE` is said where the system
really stops: a harness run that is over, a generation that has ended, a history
that has reached the bound on commits, a session whose submissions are used up, a
finished experiment root with no deaths left.

Configurations beside those runs.  `WorkerStopTree`, `WorkerReceiptGap`,
`WorkerClosedRuns` (with `MCAgentvolveWorker`), `PiCancel`, `PiPolling` (with
`MCPiSession`) and `HarnessRetryEffects` (with `MCHarnessExperiment`) each produce
one counterexample that section 6 refers to.

## 4. Fairness

- *Population*: a process that runs takes its next step, and an operator removes an
  abandoned lock.  Weak fairness; no request is assumed to be accepted.
- *Driver*: an invocation that runs proceeds; it is written as
  `[]<>(pc = "off") \/ []<><<Driver>>_vars`, which is weak fairness with ENABLED
  written out (a running invocation always has a step).  Strong fairness on
  invoking `run`, because the lock may be busy in between; abandoned locks are
  removed; the operator does not keep the Population lock for ever.
- *Controller*: its own steps, its components' own steps, the passing of time and the
  coming of a deadline are weakly fair; so is an Observer that runs alone.  Adapters
  and the Observer of a session may hang for ever: only deadlines end them.
- *Evolution Driver*: a running invocation goes on (its call has a timeout); the
  operator removes stale locks and repeats each request again and again.  Strong
  fairness, because another invocation may have the lock in between.
- *Measurement history*: recorders run and try again, Git ends, the operator removes
  a lock whose maker is gone and, strongly fair because others take the lock in
  between, resets what nobody is working on.
- *Worker*: invocations, workers and effects are scheduled by the operating system,
  and a Controller call ends because it has a timeout.  Nothing is assumed of the
  operator.
- *Pi extension*: what a preparation waits for ends: a command at its 180 s limit, a
  read at its own, a model call at the harness's.  The timer fires.  Neither a start
  command nor a worker need ever end by itself.
- *Harness experiment*: commands and Controllers go on; the operator removes stale
  locks and resumes again and again while no command runs.  The two liveness
  properties speak of the behaviours in which commands no longer overlap
  (`<>[]Alone`): overlapping commands may lock each other out for ever.
- *Harness*: the runtime and its sessions take their steps, because every wait of
  theirs has a deadline (`receive(timeout)`, `wait(2)`).  Kernels may hang, so there
  is no fairness on them.

## 5. Proofs

Proved by TLAPS for every value of the constants:

1. `CommandsImplementLedger` (`PopulationCommands_proofs`): the command line, with any
   number of processes and crashes, implements `PopulationLedger` (the record rules stay
   opaque in that proof).  `LedgerAtomic` is not inductive.  The strengthening says that
   the ledger and every loaded view are sequences (*Shape*), that a process between
   "locked" and "releasing" owns the lock (*Exclusive*), and that the view and the
   record of a process about to write are of the current ledger and valid against it
   (*Current*).  A step maps to an append when a whole line is written and to a
   stutter otherwise.  On the same invariant:
   - `LedgerAlwaysReplays`: every record of the ledger was valid against the records
     before it; from it `SealIsKept` (no search after final work), `LineageIsKept`
     (parents are registered before their children), `AllocationsStayFresh` (an
     allocation names the latest archive of all evidence) and `OnlySurvivorsAreParents`;
   - `TornLineStaysLast` and `AnswersAreCurrent` (an answer of the projection is true of
     the ledger at that moment).
2. `DriverImplementsProtocol` (`PopulationDriver_proofs`): every behaviour of the Driver
   maps to `RoundProtocol`, for any ledger rules, limits, draws, deaths, failures,
   retries and operator records.  The strengthening is *Shape* (types of counters and
   checkpoints), *Placed* (the checkpoint belongs to the current round, or to the last
   one when its removal was lost), *Owned* (calls made were approved), *Fresh* (an
   invocation about to call holds the latest approval and it is unspent), *Backed* (a
   checkpoint past the call has a called attempt), *Located* (each `pc` has the stage of
   checkpoint it needs).  The abstract variable `approved` is computed from committed
   records and the active checkpoint.
   - `DurableStateReplays` (`StateReplays`): *RInv* follows the ledger from its start.
     Every archive and allocation in it is well formed (*Grounded*); every committed
     round names, between two heads of the ledger, the records that its receipts lead to
     (*Replayed*, *Received*); the checkpoint starts where the cursor of the replay
     stands, its stage has the receipts it needs, and behind its start there is nothing
     but a prefix of the round's own records unless an operator added to the ledger
     (*Checkpointed*); each point of an invocation knows what it read (*Knows*).  Records
     stay opaque except for the archive and the allocation that close a round.
   - `SpendingStaysReserved` (`SpendWithinReservation`): what was spent plus what the
     invocation is about to spend is covered by the sums over committed rounds and the
     checkpoint (*CallsCovered*, *WallCovered*), and these sums are within the limits
     (*Limited*); the invariant has to speak of a call that is *due*, because an intent
     is durable before its call.  The sums are folds over sets.  A sum of natural
     weights is shown to be the cardinality of a union of blocks, one per member
     (`TotalSplits`), and the recursive function behind the fold to have no other value,
     by a least counterexample in the well-founded order of finite sets (`WhatAdds`);
     so no induction theorem is needed.
3. `EvolutionImplementsHistory`, `MemoryIsAReplay` and `InterruptionsCostOneCall`
   (`Evolution_proofs`): the abstract history is a refinement mapping over the file
   (its owner, the candidate selected last, the number of generations, the rejections
   since the last promotion).  The invariant is that the file is a header with
   generations behind it, that whoever is past the lock made it, that the limits hold
   where a call is made, and that memory is the replay of the file; the lemmas say what
   one appended line does to each replayed value.  `PaidInv` counts on top of it: the
   calls made are at most the generations on file, the interruptions, and one while the
   holder of the lock is between its call and its whole line, so that only that holder's
   death or failure can lose a call.
4. `HistoryImplementsLog` and `AnswersAreAlwaysTheirs` (`MeasurementHistory_proofs`): for
   any number of recorders, readers, deaths and failures.  Who is between the lock and
   its release made the lock (*HolderWrites*), so the three files hold exactly what it
   wrote so far; only an orphaned commit may move HEAD meanwhile, and then the read
   back sees one commit too many (*HolderFinds*).  `OneMoves` reduces every step to the
   recorder that takes it.
5. `LogIsAlwaysTrue`, `OneWorkflowAtATime`, `ReportsStayOwn` (`PiSession_proofs`): for any
   number of submissions and sessions.  The registry's part says that a start command
   that holds the registry lock has seen no unfinished workflow and makes the only one
   there can be; nothing else adds one.  The session's part says that what was
   dispatched is recorded so (*LogInv*), that the submission shown agrees with the
   command and with the session's own record (*SubmissionInv*), that a current
   preparation prepares the submission shown and one whose epoch is over was aborted
   (*OpInv*), and that a current read reads the workflow bound now (*ReadsInv*).
6. `FinalAssayIsOneUse` and `WrittenReportsVerify` (`HarnessExperiment_proofs`), for any
   number of commands, rounds, cases, deaths and failures.  `FinalIsOneUse` holds
   because at most one command is at the protected cases, under the declaration it made
   itself.  `ReportsVerify` speaks of a root long after the steps that matter, so `RInv`
   follows the receipts from the start: attempts are the rows of the committed rounds and
   of the pending one (*Typed*); only the holder of a root's lock is in the driver
   (*Locked*); nobody works on an attempt whose effects are written (*Answered*); every
   superseded attempt has effects that hold all its receipts, and the attempt after it
   names them (*Retried*); the final assay begins only when the search has stopped with
   nothing pending, and a claim is made only where no receipt is left over (*Sealed*).
   From these no receipt can appear behind a written report, and those there are stay
   accounted for.
7. `NoKernelLeaks` and `CellsCountAsReported` (`HarnessRuntime_proofs`), for any depth and
   any limits.  `NoKernelOutlivesItsLevel` is not inductive: that an ended level has no
   kernel depends on what its session knows.  The strengthening says that a kernel lives
   only behind a wire, a waiting session has one and a closed session none (*Wired*), and
   that levels without a session are exactly those not opened, ended, or above `depth`
   in the recursion (*Stacked*).  `OneLevelStep` reduces each step to the level it
   touches; delegation and return, which touch two, are proved apart.
   `CellsAreAllOrNothing` needs to know where a cell's traces may be while it runs:
   `CellsInv` says that the pipes hold one request at most, that the cell of the current
   turn is outside the snapshot and the delivered files until it is reported, that a
   replacement kernel starts from the snapshot alone, that a level waiting for a
   delegate does not move, and that files are delivered only while closing.
8. `OneWorkerAtATime`, `ClosedStartsNothing`, `OneDriverInARoot`, `SealedSearchStays`,
   `StatusStaysTrue`, `RetriesGoOn` (`AgentvolveWorker_proofs`): for any number of
   overlapping commands, jobs, Controller calls and deaths.  `RootInv` is about the run
   roots: an effect that drives one is named in its lock file, one effect at most sets a
   root up, and reports follow the assay.  `ControlInv` is about the workflow's lock: the
   command that has it passes it to the worker it forks, so the points the commands and
   workers have reached tell whose it is, and a closed workflow has only workers that
   are booting or leaving.  `JobInv` is about outcomes: an effect is done only where the
   root is complete, the solution run exists only behind a complete harness run, and the
   first unfinished kind of run is the one a job goes on with (`OrderAssumption`).  Each
   step is first reduced to what it may do to the roots, to one effect or to the control
   (`StepsOfWorkflow`, `EffectStepsAreLocal`).

9. `ReceiptsAlwaysReplay` and `CallersNeverTimeOutFirst` (`Evolution_proofs`), for any
   number of tasks, any timeouts and any adapters.  `AgentInv` says which tasks each list
   of the Controller is about (*AgentRows*), that reports are those of the lists, the
   child is not the parent and the selection is the gate's (*AgentReports*), that a
   component that computed an answer computed that one (*AgentAnswers*), and that what
   is left to the Controller's caller, with what its own work has taken, covers the
   deadlines of the current call and of all calls to come, and a margin (*AgentBudget*):
   `GenerationLimit` was their sum at the start, each accepted answer gives up exactly
   its own call's share, and *Slack* is less than the margin that stays.
10. `BeliefIsEvidence`, `FixturesScoreOneVersion`, `ObserversAreReaped` (same module), for
   any versions, probes, answers and alterations.  `FixtureInv` says where the Observer
   may be when the Controller is where it is (*ObserverPlaced*), that the pipes hold one
   line, the request of this point or its answer (*Traffic*), and that rows are of
   observations of this session with shares that are numbers (*EvidenceRows*).  That the
   gate's three cases are one comparison of likelihoods needs the likelihoods to be
   numbers: the recursive functions behind the folds of `ForecastOf` and `Likelihood`
   are shown to exist and to be natural over a finite set, again by least
   counterexamples (`SomeFolds`, `FoldsTyped`).

Each inductive invariant was an invariant of a TLC run before it was proved.  What the
Population and the Driver need of sequences, prefixes, replay and archives are lemmas at
the head of their modules.  Assumptions used are the named ASSUMEs of the modules: limits are
natural numbers, the absent process, record or request is none of those there are,
requests are of the shapes the argument parser admits (`RequestAssumption`), the initial
candidate and the limits of a request are decoded (`RequestsAssumption`), the first
candidate of a Driver and what its operator may append are decoded and draws are natural
numbers (`ValuesAssumption`), timeouts are positive and the Controller's own work takes
less than the margin (`TimeoutsAssumption`), a fixture has several versions and its
hypotheses hold parts of the whole (`FixturesAssumption`), one draw per continuation, the levels below a level are levels.  TLC evaluates each.

Every safety invariant, action property and refinement that a passing run checks is
proved.  Only model-checked are the liveness properties: `LockComesFree`,
`DurableRoundsCommit`, `JobsAreAnswered`, `RunsEnd`, `GenerationsEnd`,
`EvolutionFinishes`, `RecordingGoesOn`, `PreparationsEnd`, `FinalRunIsReported` and
`SearchIsAssayed` (TLAPS has neither fairness nor ENABLED here).  The slack of the
Controller is an assumption about time that no proof can discharge: a Controller
whose own work takes the margin or more may be killed by its caller.

## 6. Findings

`driver_evidence_gap`: `run_evidence_adapter` raises the wall reservation and the
attempt count of a repeated adapter call in two checkpoints (`machine.py:296`,
`:303`).  A death between them leaves a state that run, retry and verify refuse for
ever.  `ResumableOutsideGap`, a part of `StateReplays`, shows that this is the only
such place in an undisturbed Driver.

Met while modelling, each with a configuration that shows it:

- `WorkerStopTree`: `stop` says "stopped" while the Controller of the effect it ended
  goes on.  What it writes later belongs to no run, and a completed run then may
  never verify.
- `WorkerReceiptGap`: an effect stopped between the Controller's receipt and its
  checkpoint leaves a run that resume refuses (it wants a retry,
  `agentvolve_worker.py:849`) and retry refuses (there is a receipt).
- `WorkerClosedRuns`: an effect is unknown to stop between its spawn and the first
  heartbeat; close is then accepted beside it, and the closed run completes.
- `PiCancel`: "No worker will be launched" is answered
  (`population_evolution_extension.ts:970`) also when the start command is already
  under way; giving it up does not undo it, and the worker is launched.
- `PiPolling`: the tracker is said to poll the bound workflow every two seconds
  (`docs/coding-agent/workflow.md:60-61`).  After a stop the monitor is stopped
  (`:986`), and a workflow resumed later by management is read once (`:1063`) and not
  polled again.
- `HarnessRetryEffects`: the effects of an attempt are written down
  (`apps/harness/experiment_runtime.py:557`, `:430`) before the Driver accepts the
  retry.  A refused retry, another command's retry, or a receipt that a Controller
  publishes afterwards leaves a report whose receipts do not close, against
  `apps/harness/README.md:194-197`.  `ReportsVerify` names these three as the only
  gaps.

Met while modelling, without a configuration of their own:

- a model call that fails inside a delegation is not counted: `ModelEffectsBounded`
  of `HarnessRuntime` fails with two delegations and two model calls
  (`apps/harness/runtime.py:231-240`);
- a final experiment declared while a round is pending makes `run` end in an error
  instead of "final evidence sealed" (`replay.py:844`, where the planner's check at
  `planner.py:93` is never reached);
- a read-only probe holds `worker.lock` for a moment (`agentvolve_worker.py:593`), and
  a stop that ended the worker in that moment cannot record it; a worker that finds
  its workflow closed (`:1044`) ends without a status;
- `log` and `verify` of the measurement history resolve HEAD twice
  (`src/metering/history.py:535`), so a commit in between makes a report whose head is
  not its newest record (`HeadIsNewest`); a death between `git init` (`:275`) and
  `symbolic-ref` (`:276`) leaves a repository every later recorder refuses
  (the exception `CutShort` that `RecordingGoesOn` names);
- an allocation that trails the last archive and is not the one the final assay asks
  for ends every later command (`apps/harness/final_assay.py:74-79`);
- a preparation persists the workflow configuration after an await without looking at
  its epoch (`population_evolution_extension.ts:736`).

## 7. Plan

Done: Population, Driver, Controller, Evolution Driver, Observer, measurement history,
worker, registry, Pi extension, experiment runs, harness and harness experiment, each
with its runs; the safety properties of those runs and the refinements of four abstract
specifications are checked and proved.  What would come next:

1. The composition of `PiSession` with `AgentvolveWorker` in place of the phases of
   `AgentvolveRegistry`, on instances that fit TLC.
2. The worker settings and the dashboard of the Pi extension, and the acceptance
   programs beside the Evolution Driver.

## 8. Not modelled, and why

- *Evidence adapters, task tools, harness runner*: one call that reads files, starts a
  process and prints one document.  What the others rely on, that the call may fail,
  time out or be repeated, is in `PopulationDriver`, `ExperimentRun` and
  `HarnessExperiment`.
- *Harness protocol, workspace, receipts, manifests*: decoding and byte-for-byte
  verification of documents; the closure of receipts over retries is in
  `HarnessExperiment`.
- *Views and the HTTP viewer*: read-only projections of files that others write, each
  read once per request and shown.
- *Connectors*: one subprocess per request to an external agent, without state.
- *Git candidate artifacts*: sequences of external Git commands in a directory nobody
  else knows of.
- *Metering measures and command line*: floating-point entropy and divergence of one
  request; a finite instance says nothing a unit test does not.
- The dialogues, the dashboard and the worker settings of the Pi extension; kernel
  requests the recursive loop never makes (ping, cleanup, workspace commands).
- Windows behaviour, power loss (the order of fsync) and disk corruption.

## 9. How to run

    tlc -workers 2 -config HarnessRun.cfg MCHarnessRuntime.tla
    tlapm PiSession_proofs.tla

The pairs of configuration and module are those of `PROJECT.json` "runs".
