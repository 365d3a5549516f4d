------------------------- MODULE AgentvolveWorker -------------------------
(***************************************************************************)
(* One detached Agentvolve workflow: the operator's commands, the worker   *)
(* each job gets, and the effects it runs (ExperimentRun).                 *)
(*                                                                         *)
(* The workflow's lock is an flock on worker.lock.  A launcher opens it    *)
(* and hands the same open file to the worker it forks, so the lock is     *)
(* held until the last of the two is gone; an effect does not inherit it.  *)
(***************************************************************************)
EXTENDS ExperimentRun

CONSTANTS
    Order,       \* the kinds of run in the order a job drives them
    Processes,   \* command line invocations that may overlap
    Commands,    \* the commands the operator gives
    MaxJobs,     \* bound on job ordinals
    MaxDeaths    \* bound on processes that die without being asked to

ASSUME JobsAssumption == MaxJobs \in Nat /\ Jobs = 1..MaxJobs
ASSUME ProcessesAssumption == Processes \cap Jobs = {}

\* The harness run, then the solution run; an instance may leave the first out.
ASSUME OrderAssumption ==
    /\ Order \in Seq(Kinds) /\ Len(Order) \in 1..2
    /\ Kinds = {Order[i] : i \in 1..Len(Order)}

VARIABLES
    request,     \* workflow.json exists
    jobs,        \* the actions of jobs/000001.json, ...
    closed,      \* closed.json exists
    status,      \* worker-status.json
    holders,     \* who holds the open file that carries the lock
    cli,         \* the operator's invocations
    workers,     \* the worker of each job
    deaths

controlVars == <<request, jobs, closed, status>>
vars == <<runVars, controlVars, holders, cli, workers, deaths>>

Continuations == {"resume", "retry", "verify"}
Solution == Order[Len(Order)]

Idle == [op |-> Null, pc |-> "idle", job |-> 0, worker |-> 0, effect |-> Null]
Unborn == [pc |-> "none", act |-> Null, stopped |-> FALSE, child |-> Null]
Dead == [Unborn EXCEPT !.pc = "dead"]

WorkerAlive(j) == workers[j].pc \notin {"none", "dead"}
WorkersAlive == {j \in Jobs : WorkerAlive(j)}

Init ==
    /\ InitRuns
    /\ request = FALSE /\ jobs = <<>> /\ closed = FALSE /\ status = Null
    /\ holders = {}
    /\ cli = [p \in Processes |-> Idle]
    /\ workers = [j \in Jobs |-> Unborn]
    /\ deaths = 0

AtCli(p, pc) == cli[p].pc = pc
CliGoto(p, pc) == cli' = [cli EXCEPT ![p].pc = pc]
CliReturns(p) == cli' = [cli EXCEPT ![p] = Idle]
Releases(p) == holders' = holders \ {p} /\ CliReturns(p)
AtWorker(j, pc) == workers[j].pc = pc
WorkerEnds(j) == /\ workers' = [workers EXCEPT ![j] = Dead]
                 /\ holders' = holders \ {j}
WorkerGoto(j, pc) == workers' = [workers EXCEPT ![j].pc = pc]

WriteStatus(state, j, worker, effect) ==
    status' = [state |-> state, job |-> j, worker |-> worker, effect |-> effect]

-----------------------------------------------------------------------------
(* What a command reads.                                                   *)

Complete(k) == Stage(k) = "complete"
AllComplete == \A k \in Kinds : Complete(k)
NextKind == Order[CHOOSE i \in 1..Len(Order) :
                    ~Complete(Order[i]) /\ \A h \in 1..(i - 1) : Complete(Order[h])]

\* The checkpoint says a Controller call is pending and names no receipt, also
\* when the receipt is already there.
RetryRequired(k) == Stage(k) \in {"calling", "receipt", "overtaken"}

\* launch_existing looks at the solution run, and at the harness run before one exists.
ActiveRuns ==
    IF Stage(Solution) # "absent" /\ ~Complete(Solution) THEN {Solution}
    ELSE {k \in Kinds \ {Solution} : Stage(k) # "absent" /\ ~Complete(k)}
LaunchAllowed(action) ==
    LET required == \E k \in ActiveRuns : RetryRequired(k)
    IN  /\ ~closed
        /\ action = "retry" => required
        /\ action = "resume" => ~required /\ ~Complete(Solution)
        /\ action = "verify" => Complete(Solution)

-----------------------------------------------------------------------------
(* The operator's commands.                                                *)

\* start_workflow: the registry admits one; resume, retry, verify, stop, close and the
\* probes of control and registry need the request.
Begin(p, op) ==
    /\ AtCli(p, "idle")
    /\ IF op = "start" THEN ~request ELSE request
    /\ request' = TRUE
    /\ cli' = [cli EXCEPT ![p] = [Idle EXCEPT !.op = op,
                 !.pc = CASE op = "start" -> "job" [] op = "stop" -> "read" [] OTHER -> "open"]]
    /\ UNCHANGED <<runVars, jobs, closed, status, holders, workers, deaths>>

QueueStart(p) ==
    /\ AtCli(p, "job")
    /\ \/ /\ Len(jobs) < MaxJobs
          /\ jobs' = Append(jobs, "start")
          /\ cli' = [cli EXCEPT ![p].pc = "open", ![p].job = Len(jobs) + 1]
       \/ Len(jobs) = MaxJobs /\ CliReturns(p) /\ UNCHANGED jobs
    /\ UNCHANGED <<runVars, request, closed, status, holders, workers, deaths>>

\* Mutant: stop writes its record without the lock.
OpenLockForStop(p) ==
    /\ AtCli(p, "open")
    /\ IF holders = {} \/ cli[p].op = "stop"
       THEN /\ holders' = holders \cup {p}
            /\ CliGoto(p, CASE cli[p].op = "start" -> "queue"
                            [] cli[p].op = "stop" -> "record"
                            [] cli[p].op = "probe" -> "release"
                            [] cli[p].op = "close" -> "close"
                            [] OTHER -> "check")
       ELSE CliReturns(p) /\ UNCHANGED holders
    /\ UNCHANGED <<runVars, controlVars, workers, deaths>>

\* _open_lock and _lock_is_held: the lock is tried once.
OpenLock(p) ==
    /\ AtCli(p, "open")
    /\ IF holders = {}
       THEN /\ holders' = {p}
            /\ CliGoto(p, CASE cli[p].op = "start" -> "queue"
                            [] cli[p].op = "stop" -> "record"
                            [] cli[p].op = "probe" -> "release"
                            [] cli[p].op = "close" -> "close"
                            [] OTHER -> "check")
       ELSE CliReturns(p) /\ UNCHANGED holders
    /\ UNCHANGED <<runVars, controlVars, workers, deaths>>

\* Mutant: a refused launch leaves the lock open.
CheckLaunchLeaking(p) ==
    /\ AtCli(p, "check")
    /\ \/ /\ LaunchAllowed(cli[p].op) /\ Len(jobs) < MaxJobs
          /\ jobs' = Append(jobs, cli[p].op)
          /\ cli' = [cli EXCEPT ![p].pc = "queue", ![p].job = Len(jobs) + 1]
       \/ /\ ~LaunchAllowed(cli[p].op) \/ Len(jobs) = MaxJobs
          /\ CliReturns(p) /\ UNCHANGED jobs
    /\ UNCHANGED <<runVars, request, closed, status, holders, workers, deaths>>

CheckLaunch(p) ==
    /\ AtCli(p, "check")
    /\ \/ /\ LaunchAllowed(cli[p].op) /\ Len(jobs) < MaxJobs
          /\ jobs' = Append(jobs, cli[p].op)
          /\ cli' = [cli EXCEPT ![p].pc = "queue", ![p].job = Len(jobs) + 1]
          /\ UNCHANGED holders
       \/ /\ ~LaunchAllowed(cli[p].op) \/ Len(jobs) = MaxJobs
          /\ Releases(p) /\ UNCHANGED jobs
    /\ UNCHANGED <<runVars, request, closed, status, workers, deaths>>

QueueWorker(p) ==
    /\ AtCli(p, "queue")
    /\ WriteStatus("queued", cli[p].job, 0, Null)
    /\ CliGoto(p, "fork")
    /\ UNCHANGED <<runVars, request, jobs, closed, holders, workers, deaths>>

\* Mutant: the worker does not inherit the launcher's open file.
ForkWorkerUnlocked(p) ==
    LET j == cli[p].job
    IN  /\ AtCli(p, "fork")
        /\ workers' = [workers EXCEPT ![j] = [Unborn EXCEPT !.pc = "boot", !.act = jobs[j]]]
        /\ CliGoto(p, "release")
        /\ UNCHANGED <<runVars, controlVars, holders, deaths>>

ForkWorker(p) ==
    LET j == cli[p].job
    IN  /\ AtCli(p, "fork")
        /\ workers' = [workers EXCEPT ![j] = [Unborn EXCEPT !.pc = "boot", !.act = jobs[j]]]
        /\ holders' = holders \cup {j}
        /\ CliGoto(p, "release")
        /\ UNCHANGED <<runVars, controlVars, deaths>>

Close(p) ==
    /\ AtCli(p, "close")
    /\ closed' = (closed \/ ~Complete(Solution))
    /\ Releases(p)
    /\ UNCHANGED <<runVars, request, jobs, status, workers, deaths>>

Release(p) ==
    /\ AtCli(p, "release")
    /\ Releases(p)
    /\ UNCHANGED <<runVars, controlVars, workers, deaths>>

-----------------------------------------------------------------------------
(* stop_workflow.                                                          *)

\* The status names the worker and its effect; an effect counts only while it
\* is a child of that worker.
StopReads(p) ==
    LET alive == status # Null /\ status.worker # 0 /\ WorkerAlive(status.worker)
        child == status.effect # Null /\ Alive(status.effect)
    IN  /\ AtCli(p, "read")
        /\ \/ /\ alive
              /\ cli' = [cli EXCEPT ![p].pc = "term_effect", ![p].worker = status.worker,
                                    ![p].effect = IF child THEN status.effect ELSE Null]
           \/ ~alive /\ CliReturns(p)
        /\ UNCHANGED <<runVars, controlVars, holders, workers, deaths>>

Target(p) == {cli[p].effect} \cap Effects

StopSignalsEffect(p) ==
    /\ AtCli(p, "term_effect")
    /\ Killed(Target(p))
    /\ CliGoto(p, "term_worker")
    /\ UNCHANGED <<runs, calls, controlVars, holders, workers, deaths>>

\* A worker that has not installed its handler, or has restored the old one, dies
\* of SIGTERM; otherwise the handler notes the stop and signals the effect it knows of.
StopSignalsWorker(p) ==
    LET j == cli[p].worker
    IN  /\ AtCli(p, "term_worker")
        /\ CliGoto(p, "grace")
        /\ IF WorkerAlive(j) /\ workers[j].pc \notin {"boot", "exit"}
           THEN /\ workers' = [workers EXCEPT ![j].stopped = TRUE]
                /\ Killed(IF workers[j].pc = "poll" THEN {workers[j].child} ELSE {})
                /\ UNCHANGED holders
           ELSE WorkerEnds(j) /\ UNCHANGED effects
        /\ UNCHANGED <<runs, calls, controlVars, deaths>>

Gone(p) == ~WorkerAlive(cli[p].worker) /\ \A e \in Target(p) : ~Alive(e)

StopSeesExit(p) ==
    /\ AtCli(p, "grace") /\ Gone(p)
    /\ CliGoto(p, "open")
    /\ UNCHANGED <<runVars, controlVars, holders, workers, deaths>>

\* The grace period is over: SIGKILL to both groups.
StopKills(p) ==
    LET j == cli[p].worker
    IN  /\ AtCli(p, "grace") /\ ~Gone(p)
        /\ Killed(Target(p))
        /\ WorkerEnds(j)
        /\ CliGoto(p, "open")
        /\ UNCHANGED <<runs, calls, controlVars, deaths>>

StopRecords(p) ==
    /\ AtCli(p, "record")
    /\ IF status.state \in {"stopped", "completed", "verified"}
       THEN UNCHANGED status
       ELSE WriteStatus("stopped", status.job, 0, Null)
    /\ Releases(p)
    /\ UNCHANGED <<runVars, request, jobs, closed, workers, deaths>>

CliStep(p) ==
    \/ QueueStart(p) \/ OpenLock(p) \/ CheckLaunch(p) \/ QueueWorker(p) \/ ForkWorker(p)
    \/ Close(p) \/ Release(p)
    \/ StopReads(p) \/ StopSignalsEffect(p) \/ StopSignalsWorker(p)
    \/ StopSeesExit(p) \/ StopKills(p) \/ StopRecords(p)

-----------------------------------------------------------------------------
(* The worker: _work_main, _execute_job and its effect runner.             *)

\* Mutant: the worker trusts the launcher's check of the closure.
AcceptClosedJob(j) ==
    /\ AtWorker(j, "boot")
    /\ WriteStatus("running", j, j, Null)
    /\ WorkerGoto(j, IF workers[j].act = "verify" /\ ~Complete(Solution) THEN "fail" ELSE "next")
    /\ UNCHANGED <<runVars, request, jobs, closed, holders, cli, deaths>>

AcceptJob(j) ==
    /\ AtWorker(j, "boot")
    /\ IF closed
       THEN WorkerGoto(j, "exit") /\ UNCHANGED status
       ELSE /\ WriteStatus("running", j, j, Null)
            /\ WorkerGoto(j, IF workers[j].act = "verify" /\ ~Complete(Solution)
                             THEN "fail" ELSE "next")
    /\ UNCHANGED <<runVars, request, jobs, closed, holders, cli, deaths>>

\* Mutant: the retry is not spent on the first run.
SpawnUnspent(j, k, op) ==
    /\ effects' = [effects EXCEPT ![<<j, k>>] = op]
    /\ workers' = [workers EXCEPT ![j].pc = "popen", ![j].child = <<j, k>>]

Spawn(j, k, op) ==
    /\ effects' = [effects EXCEPT ![<<j, k>>] = op]
    /\ workers' = [workers EXCEPT ![j].pc = "popen", ![j].child = <<j, k>>,
                     ![j].act = IF op \in {"retry", "resume"} /\ k # Solution THEN "resume" ELSE @]

\* A worker that was told to stop starts nothing more.  A job's retry is spent
\* on the first run that exists.
RunNext(j) ==
    LET k == NextKind
        act == workers[j].act
        op == IF Stage(k) = "absent" THEN "fresh" ELSE IF act = "retry" THEN "retry" ELSE "resume"
        refused == workers[j].stopped \/ (k = Solution /\ Stage(k) = "absent" /\ act = "retry")
    IN  /\ AtWorker(j, "next") /\ act # "verify" /\ ~Complete(Solution)
        /\ IF refused
           THEN WorkerGoto(j, "fail") /\ UNCHANGED effects
           ELSE Spawn(j, k, op)
        /\ UNCHANGED <<runs, calls, controlVars, holders, cli, deaths>>

RunVerify(j) ==
    /\ AtWorker(j, "next") /\ workers[j].act = "verify"
    /\ IF workers[j].stopped
       THEN WorkerGoto(j, "fail") /\ UNCHANGED effects
       ELSE Spawn(j, Solution, "verify")
    /\ UNCHANGED <<runs, calls, controlVars, holders, cli, deaths>>

NothingToRun(j) ==
    /\ AtWorker(j, "next") /\ workers[j].act # "verify" /\ Complete(Solution)
    /\ WorkerGoto(j, "publish")
    /\ UNCHANGED <<runVars, controlVars, holders, cli, deaths>>

\* Popen has returned; only now does the handler know the effect.
AssignChild(j) ==
    /\ AtWorker(j, "popen")
    /\ WorkerGoto(j, "poll")
    /\ UNCHANGED <<runVars, controlVars, holders, cli, deaths>>

Heartbeat(j) ==
    /\ AtWorker(j, "poll") /\ Alive(workers[j].child)
    /\ WriteStatus("running", j, j, workers[j].child)
    /\ status' # status
    /\ UNCHANGED <<runVars, request, jobs, closed, holders, cli, workers, deaths>>

\* Mutant: any end of the effect counts as success.
ReapBlindly(j) ==
    LET e == workers[j].child
    IN  /\ AtWorker(j, "poll") /\ ~Alive(e)
        /\ workers' = [workers EXCEPT ![j].child = Null,
                         ![j].pc = IF workers[j].stopped THEN "fail"
                                   ELSE IF e[2] = Solution THEN "publish" ELSE "next"]
        /\ UNCHANGED <<runVars, controlVars, holders, cli, deaths>>

Reap(j) ==
    LET e == workers[j].child
        good == ~workers[j].stopped /\ At(e, "done") /\ Complete(e[2])
    IN  /\ AtWorker(j, "poll") /\ ~Alive(e)
        /\ workers' = [workers EXCEPT ![j].child = Null,
                         ![j].pc = IF ~good THEN "fail"
                                   ELSE IF e[2] = Solution THEN "publish" ELSE "next"]
        /\ UNCHANGED <<runVars, controlVars, holders, cli, deaths>>

Publish(j) ==
    /\ AtWorker(j, "publish")
    /\ WriteStatus(IF workers[j].act = "verify" THEN "verified" ELSE "completed", j, j, Null)
    /\ WorkerGoto(j, "exit")
    /\ UNCHANGED <<runVars, request, jobs, closed, holders, cli, deaths>>

\* The solution run if its root exists, the harness run otherwise.
FailedRun == {k \in Kinds : Stage(k) # "absent" /\ (Stage(Solution) = "absent" \/ k = Solution)}

\* Mutant: a worker that fails leaves the status alone.
FailSilently(j) ==
    /\ AtWorker(j, "fail")
    /\ WorkerGoto(j, "exit")
    /\ UNCHANGED <<runVars, controlVars, holders, cli, deaths>>

Fail(j) ==
    /\ AtWorker(j, "fail")
    /\ WriteStatus(IF \E k \in FailedRun : RetryRequired(k) THEN "waiting-retry"
                   ELSE IF workers[j].stopped THEN "stopped" ELSE "failed", j, j, Null)
    /\ WorkerGoto(j, "exit")
    /\ UNCHANGED <<runVars, request, jobs, closed, holders, cli, deaths>>

Exit(j) ==
    /\ AtWorker(j, "exit")
    /\ WorkerEnds(j)
    /\ UNCHANGED <<runVars, controlVars, cli, deaths>>

WorkerStep(j) ==
    \/ AcceptJob(j) \/ RunNext(j) \/ RunVerify(j) \/ NothingToRun(j)
    \/ AssignChild(j) \/ Heartbeat(j) \/ Reap(j)
    \/ Publish(j) \/ Fail(j) \/ Exit(j)

-----------------------------------------------------------------------------
(* Sudden deaths, and the operator's clean-up of a lock file.              *)

Dies == deaths < MaxDeaths /\ deaths' = deaths + 1

\* Also a spawn that fails: the lock is closed, the job and its status stay queued.
CliDies(p) ==
    /\ Dies /\ ~AtCli(p, "idle")
    /\ Releases(p)
    /\ UNCHANGED <<runVars, controlVars, workers>>

WorkerDies(j) ==
    /\ Dies /\ WorkerAlive(j)
    /\ WorkerEnds(j)
    /\ UNCHANGED <<runVars, controlVars, cli>>

EffectDies(e) ==
    /\ Dies /\ Alive(e)
    /\ Killed({e})
    /\ UNCHANGED <<runs, calls, controlVars, holders, cli, workers>>

HostReboots ==
    /\ Dies
    /\ Killed(Effects) /\ calls' = {} /\ holders' = {}
    /\ cli' = [p \in Processes |-> Idle]
    /\ workers' = [j \in Jobs |-> IF WorkerAlive(j) THEN Dead ELSE workers[j]]
    /\ UNCHANGED <<runs, controlVars>>

Experiment == \/ \E e \in Effects : EffectStep(e)
              \/ \E c \in calls : CallStep(c)

Next ==
    \/ \E p \in Processes : CliStep(p) \/ CliDies(p) \/ \E op \in Commands : Begin(p, op)
    \/ \E j \in Jobs : WorkerStep(j) \/ WorkerDies(j)
    \/ Experiment /\ UNCHANGED <<controlVars, holders, cli, workers, deaths>>
    \/ \E e \in Effects : EffectDies(e)
    \/ HostReboots
    \/ \E k \in Kinds : RemoveAbandonedLock(k)
                        /\ UNCHANGED <<controlVars, holders, cli, workers, deaths>>

Spec == Init /\ [][Next]_vars
-----------------------------------------------------------------------------
(* Properties.                                                             *)

\* Every variable keeps its shape; the lock file of a run names an effect, the
\* flock names invocations and workers.
TypeOK ==
    /\ \A k \in Kinds :
        /\ runs[k].stage \in Stages
        /\ runs[k].lock \in Effects \cup {Null}
        /\ runs[k].attempts \in Seq([job : Jobs, intent : 1..MaxCalls])
        /\ runs[k].bound \subseteq runs[k].written
        /\ runs[k].written \subseteq 1..Attempts(k)
    /\ calls \subseteq [effect : Effects, attempt : 1..MaxCalls]
    /\ \A e \in Effects : effects[e] \in Live \cup {"none", "done", "failed"}
    /\ jobs \in Seq(Continuations \cup {"start"})
    /\ status \in {Null} \cup [state : {"queued", "running", "waiting-retry", "stopped",
                                        "failed", "completed", "verified"},
                               job : Jobs, worker : Jobs \cup {0}, effect : Effects \cup {Null}]
    /\ holders \subseteq Processes \cup Jobs

\* At most one worker of a workflow is alive, through launches, stops and deaths
\* that overlap: the lock goes from launcher to worker without a gap.
OneWorker == Cardinality(WorkersAlive) <= 1

\* At most one effect is inside the driver of a run root, an orphan of a dead
\* worker included.
OneDriver ==
    \A k \in Kinds : Cardinality({e \in Effects : e[2] = k /\ effects[e] \in Driving}) <= 1

\* A worker of a job is only ever spawned under the lock, so a stop that records
\* "stopped" records it of a workflow without a worker.
StoppedHasNoWorker ==
    status # Null /\ status.state = "stopped" /\ status.worker = 0 => WorkersAlive = {}

\* A status of completed or verified is never shown for a solution run that did
\* not publish its report.
CompletedIsTrue ==
    status # Null /\ status.state \in {"completed", "verified"} => Complete(Solution)

\* What the status tells the operator is so: nothing runs behind "stopped", and
\* "completed" has its report.
StatusIsTrue == StoppedHasNoWorker /\ CompletedIsTrue

\* A Controller call of an intent is only repeated by a job of the operator's
\* "retry", and one retry pays for one call.
RetriesAreAuthorized ==
    \A k \in Kinds : \A m, n \in 1..Attempts(k) :
        LET first == runs[k].attempts[m]
            again == runs[k].attempts[n]
        IN  m < n /\ first.intent = again.intent
            => jobs[again.job] = "retry" /\ again.job # first.job

\* A retry whose effect carried the harness run to its end goes on with a fresh
\* solution run: its authority is spent, its job is not.  Only a stop ends the job
\* before it tries the solution.
RetryGoesOn ==
    \A j \in Jobs \cap DOMAIN jobs :
        /\ AtWorker(j, "fail") /\ jobs[j] = "retry"
        /\ effects[<<j, Solution>>] = "none"
        /\ \A k \in Kinds \ {Solution} : effects[<<j, k>>] = "done"
        => workers[j].stopped

\* No effect starts after close wrote closed.json, whatever launch was under way.
CloseIsFinal ==
    [][closed => \A e \in Effects : effects[e] = "none" => effects'[e] = "none"]_vars

\* Once protected final work is declared, no later command reopens the search.
SearchStaysSealed ==
    [][\A k \in Kinds : Stage(k) \in SealedStages \cup {"overtaken"}
         => runs'[k].stage \in SealedStages \cup {"overtaken"}
            /\ Len(runs'[k].attempts) = Attempts(k)]_vars

\* The workflow's lock never stays held: every launcher, stopper and worker ends.
LockComesFree == []<>(holders = {})

\* A job that was queued is answered by a final status, unless a process died
\* without being asked to.
Unanswered == status # Null /\ status.state \in {"queued", "running"}
JobsAreAnswered == Unanswered ~> (~Unanswered \/ deaths > 0)

\* What must run: invocations and workers are scheduled, a Controller call ends
\* (it has a timeout), and so do the steps of an effect.
Fairness ==
    /\ \A p \in Processes : WF_vars(CliStep(p))
    /\ \A j \in Jobs : WF_vars(WorkerStep(j))
    /\ \A e \in Effects :
        WF_vars(EffectStep(e) /\ UNCHANGED <<controlVars, holders, cli, workers, deaths>>)
FairSpec == Spec /\ Fairness

-----------------------------------------------------------------------------
(* What the documentation says and the code does not do.                   *)

\* workflow.md:75-76: stopping terminates the bound worker process tree.
StopEndsProcessTree ==
    status # Null /\ status.state = "stopped" /\ status.worker = 0
        => \A k \in Kinds : LET e == <<status.job, k>> IN ~Alive(e) => CallsOf(e) = {}

\* architecture.md:278-279: once a Controller receipt exists, resume finishes the
\* round.  At rest, either resume or retry leads on.
Quiet == /\ holders = {} /\ calls = {}
         /\ \A e \in Effects : ~Alive(e)
         /\ \A k \in Kinds : runs[k].lock = Null
ReceiptContinues ==
    Quiet /\ ~closed /\ Stage(Solution) \in {"receipt", "received"}
        => LaunchAllowed("resume") \/ (LaunchAllowed("retry") /\ Retriable(Solution))

\* operations.md:133-134: close refuses running work; a closed workflow stays
\* incomplete.
ClosedStaysIncomplete == closed => ~Complete(Solution)
=============================================================================
