----------------------- MODULE AgentvolveWorker_proofs -----------------------
(***************************************************************************)
(* One detached workflow, for any number of overlapping commands, of jobs, *)
(* of Controller calls and of deaths: one worker, one driver in a run      *)
(* root, a status that is true, a close and a seal that are final, and a   *)
(* retry whose authority is enough.                                        *)
(***************************************************************************)
EXTENDS AgentvolveWorker, FiniteSetTheorems, TLAPS

\* A set without two different members has at most one.
LEMMA AtMostOne ==
    ASSUME NEW S, \A x, y \in S : x = y
    PROVE  Cardinality(S) <= 1
<1>1. CASE S = {}
  BY <1>1, FS_EmptySet
<1>2. CASE S # {}
  <2> PICK x \in S : TRUE
    BY <1>2
  <2> S = {x}
    OBVIOUS
  <2> QED
    BY FS_Singleton
<1> QED
  BY <1>1, <1>2

-----------------------------------------------------------------------------
(* The run roots.                                                          *)

RootFields == {"stage", "lock", "attempts", "written", "bound", "kept"}

RootShape ==
    /\ DOMAIN runs = Kinds
    /\ \A k \in Kinds : DOMAIN runs[k] = RootFields
    /\ DOMAIN effects = Effects

\* One effect at most sets a root up, while the root says so, and before the
\* setup is over nobody has locked it.
SetupIsAlone ==
    /\ \A e \in Effects : At(e, "setup") => Stage(e[2]) = "new"
    /\ \A e, f \in Effects : At(e, "setup") /\ At(f, "setup") /\ e[2] = f[2] => e = f
    /\ \A k \in Kinds : Stage(k) \in {"absent", "new"} => runs[k].lock = Null

\* Who drives a root is named in its lock file.
DriverHasLock == \A e \in Effects : effects[e] \in Driving => runs[e[2]].lock = e

\* Who checks or reports a root works on one that was assayed.
ReportFollowsAssay ==
    \A e \in Effects : effects[e] \in {"check", "report"} => Stage(e[2]) \in {"assayed", "complete"}

RootInv == RootShape /\ SetupIsAlone /\ DriverHasLock /\ ReportFollowsAssay

\* What a step of a workflow may do to its run roots and effects.
Spawned ==
    /\ \E e \in Effects, op \in Operations : effects' = [effects EXCEPT ![e] = op]
    /\ UNCHANGED runs
Ended ==
    /\ DOMAIN effects' = Effects
    /\ \A e \in Effects : effects'[e] = effects[e] \/ (Alive(e) /\ effects'[e] = "failed")
    /\ UNCHANGED runs
RootStep ==
    \/ \E e \in Effects : EffectStep(e)
    \/ \E c \in calls : CallStep(c)
    \/ \E k \in Kinds : RemoveAbandonedLock(k)
    \/ Spawned
    \/ Ended

\* The solution run is a kind of run.
LEMMA SolutionIsKind == Solution \in Kinds
<1> QED
  BY OrderAssumption DEF Solution

\* One kind of run at most comes before it.
LEMMA OneKindBefore == \A h, k \in Kinds : h # Solution /\ k # Solution => h = k
<1> SUFFICES ASSUME NEW h \in Kinds, NEW k \in Kinds, h # Solution, k # Solution PROVE h = k
  OBVIOUS
<1>1. PICK i \in 1..Len(Order), n \in 1..Len(Order) : h = Order[i] /\ k = Order[n]
  BY OrderAssumption
<1>2. i # Len(Order) /\ n # Len(Order) /\ i \in 1..Len(Order) /\ n \in 1..Len(Order)
  BY <1>1 DEF Solution
<1>3. Len(Order) = 1 \/ Len(Order) = 2
  BY OrderAssumption
<1>4. i = n
  <2>1. CASE Len(Order) = 1
    BY <1>2, <2>1
  <2>2. CASE Len(Order) = 2
    BY <1>2, <2>2
  <2> QED
    BY <1>3, <2>1, <2>2
<1> QED
  BY <1>1, <1>4

\* A worker goes on with the first run that is not complete.
LEMMA NextKindIsFirst ==
    ASSUME ~Complete(Solution)
    PROVE  /\ NextKind \in Kinds
           /\ ~Complete(NextKind)
           /\ NextKind = Solution => \A h \in Kinds \ {Solution} : Complete(h)
<1> DEFINE First(i) == ~Complete(Order[i]) /\ \A h \in 1..(i - 1) : Complete(Order[h])
           n == CHOOSE i \in 1..Len(Order) : First(i)
<1>1. \E i \in 1..Len(Order) : First(i)
  <2>1. CASE Complete(Order[1])
    <3> Len(Order) = 2 /\ First(2)
      BY <2>1, OrderAssumption DEF Solution
    <3> QED
      OBVIOUS
  <2>2. CASE ~Complete(Order[1])
    <3> First(1) /\ 1 \in 1..Len(Order)
      BY <2>2, OrderAssumption
    <3> QED
      OBVIOUS
  <2> QED
    BY <2>1, <2>2
<1>2. n \in 1..Len(Order) /\ First(n)
  BY <1>1
<1> HIDE DEF n
<1>3. NextKind = Order[n]
  BY DEF NextKind, n
<1>4. NextKind \in Kinds /\ ~Complete(NextKind)
  BY <1>2, <1>3, OrderAssumption
<1>5. ASSUME NextKind = Solution, NEW h \in Kinds, h # Solution PROVE Complete(h)
  <2>1. PICK i \in 1..Len(Order) : h = Order[i]
    BY OrderAssumption
  <2>2. i = 1 /\ n = 2
    <3>1. i # Len(Order) /\ n # i
      BY <1>3, <1>5, <2>1 DEF Solution
    <3>2. n \in 1..Len(Order)
      BY <1>2
    <3>3. Len(Order) = 1 \/ Len(Order) = 2
      BY OrderAssumption
    <3>4. i \in 1..Len(Order)
      BY <2>1
    <3>5. CASE Len(Order) = 2
      BY <3>1, <3>2, <3>4, <3>5
    <3>6. CASE Len(Order) = 1
      BY <3>1, <3>4, <3>6
    <3> QED
      BY <3>3, <3>5, <3>6
  <2>3. 1 \in 1..(n - 1)
    BY <2>2
  <2>4. Complete(Order[1])
    BY <1>2, <2>3
  <2> QED
    BY <2>1, <2>2, <2>4
<1> QED
  BY <1>4, <1>5

\* One step per action of an effect; what else happens to a root is the end of an
\* effect, its spawning, or the removal of a lock file nobody holds.
LEMMA RootStepInvariant == RootInv /\ RootStep => RootInv'
<1> SUFFICES ASSUME RootInv, RootStep PROVE RootInv'
  OBVIOUS
<1> USE NullAssumption
    DEF RootInv, RootShape, RootFields, SetupIsAlone, DriverHasLock, ReportFollowsAssay,
        Effects, Driving, At, Stage
<1>1. ASSUME NEW e \in Effects, EffectStep(e) PROVE RootInv'
  <2>1. CASE CreateRoot(e)
    BY <1>1, <2>1 DEF CreateRoot, Fails, Goto
  <2>2. CASE InitializeState(e)
    <3>1. CASE effects' = [effects EXCEPT ![e] = "failed"] /\ runs' = runs
      BY <1>1, <3>1
    <3>2. CASE /\ runs' = [runs EXCEPT ![e[2]].stage = "search", ![e[2]].lock = e]
               /\ effects' = [effects EXCEPT ![e] = "drive"]
      <4>1. Stage(e[2]) = "new" /\ runs[e[2]].lock = Null
        BY <1>1, <2>2 DEF InitializeState
      <4>2. \A f \in Effects : f[2] = e[2] /\ f # e
                => effects[f] \notin Driving \cup {"setup", "check", "report"}
        BY <1>1, <2>2, <4>1 DEF InitializeState
      <4> QED
        BY <1>1, <3>2, <4>2
    <3> QED
      BY <2>2, <3>1, <3>2 DEF InitializeState, Fails, Goto
  <2>3. CASE Resume(e)
    BY <1>1, <2>3 DEF Resume, Locks, Fails, Goto
  <2>4. CASE RecordRetryEffects(e)
    BY <1>1, <2>4 DEF RecordRetryEffects, Fails, Goto
  <2>5. CASE ReserveRetry(e)
    BY <1>1, <2>5 DEF ReserveRetry, Retriable, Fails, Goto
  <2>6. CASE StartRound(e)
    BY <1>1, <2>6 DEF StartRound, Goto
  <2>7. CASE StartCall(e)
    BY <1>1, <2>7 DEF StartCall, Goto
  <2>8. CASE CallReturns(e)
    BY <1>1, <2>8 DEF CallReturns, Goto
  <2>9. CASE CallFails(e)
    BY <1>1, <2>9 DEF CallFails, Unlocks, Fails, Goto
  <2>10. CASE CheckpointReceipt(e)
    BY <1>1, <2>10 DEF CheckpointReceipt, Goto
  <2>11. CASE CommitRound(e)
    BY <1>1, <2>11 DEF CommitRound, Unlocks, Fails, Goto
  <2>12. CASE LeavePending(e)
    BY <1>1, <2>12 DEF LeavePending, Unlocks, Fails, SealedStages, Goto
  <2>13. CASE StopSearch(e)
    BY <1>1, <2>13 DEF StopSearch, Unlocks, SealedStages, Goto
  <2>14. CASE DeclareFinal(e)
    BY <1>1, <2>14 DEF DeclareFinal, Fails, PendingStages, Goto
  <2>15. CASE Assay(e)
    BY <1>1, <2>15 DEF Assay, Fails, Goto
  <2>16. CASE VerifyDriver(e)
    BY <1>1, <2>16 DEF VerifyDriver, Fails, Goto
  <2>17. CASE Report(e)
    BY <1>1, <2>17 DEF Report, Goto
  <2>18. CASE Replay(e)
    BY <1>1, <2>18 DEF Replay, Fails, Goto
  <2> QED
    BY <1>1, <2>1, <2>2, <2>3, <2>4, <2>5, <2>6, <2>7, <2>8, <2>9, <2>10, <2>11, <2>12, <2>13, <2>14, <2>15, <2>16, <2>17, <2>18 DEF EffectStep
<1>2. ASSUME NEW c \in calls, CallStep(c) PROVE RootInv'
  BY <1>2 DEF CallStep, CallWrites, OrphanEnds
<1>3. ASSUME NEW k \in Kinds, RemoveAbandonedLock(k) PROVE RootInv'
  BY <1>3 DEF RemoveAbandonedLock, Alive, Live
<1>4. CASE Spawned
  BY <1>4 DEF Spawned, Operations
<1>5. CASE Ended
  BY <1>5 DEF Ended
<1> QED
  BY <1>1, <1>2, <1>3, <1>4, <1>5 DEF RootStep

\* Every step of a workflow is one of those steps.
LEMMA NextIsRootStep == RootShape /\ [Next]_vars => RootStep
<1> SUFFICES ASSUME RootShape, [Next]_vars PROVE RootStep
  OBVIOUS
<1> USE DEF RootShape, Ended, RootStep
<1>1. CASE effects' = effects /\ runs' = runs
  BY <1>1
<1>2. ASSUME NEW S, Killed(S), runs' = runs PROVE RootStep
  BY <1>2 DEF Killed
<1>3. ASSUME NEW e \in Effects, NEW op \in Operations,
             effects' = [effects EXCEPT ![e] = op], runs' = runs
      PROVE  RootStep
  BY <1>3 DEF Spawned
<1>4. ASSUME NEW p \in Processes, CliStep(p) PROVE RootStep
  <2>1. CASE StopSignalsEffect(p)
    BY <1>2, <2>1 DEF StopSignalsEffect
  <2>2. CASE StopSignalsWorker(p)
    BY <1>1, <1>2, <2>2 DEF StopSignalsWorker
  <2>3. CASE StopKills(p)
    BY <1>2, <2>3 DEF StopKills
  <2>4. CASE QueueStart(p) \/ OpenLock(p) \/ CheckLaunch(p) \/ QueueWorker(p) \/ ForkWorker(p)
    BY <1>1, <2>4 DEF QueueStart, OpenLock, CheckLaunch, QueueWorker, ForkWorker, runVars
  <2>5. CASE Close(p) \/ Release(p) \/ StopReads(p) \/ StopSeesExit(p) \/ StopRecords(p)
    BY <1>1, <2>5 DEF Close, Release, StopReads, StopSeesExit, StopRecords, runVars
  <2> QED
    BY <1>4, <2>1, <2>2, <2>3, <2>4, <2>5 DEF CliStep
<1>5. ASSUME NEW j \in Jobs, WorkerStep(j) PROVE RootStep
  <2>1. CASE RunNext(j)
    <3>1. NextKind \in Kinds /\ <<j, NextKind>> \in Effects
      BY <2>1, NextKindIsFirst DEF RunNext, Effects
    <3> QED
      BY <1>1, <1>3, <2>1, <3>1 DEF RunNext, Spawn, Operations
  <2>2. CASE RunVerify(j)
    <3>1. <<j, Solution>> \in Effects
      BY SolutionIsKind DEF Effects
    <3> QED
      BY <1>1, <1>3, <2>2, <3>1 DEF RunVerify, Spawn, Operations
  <2>3. CASE AcceptJob(j) \/ NothingToRun(j) \/ AssignChild(j) \/ Heartbeat(j)
    BY <1>1, <2>3 DEF AcceptJob, NothingToRun, AssignChild, Heartbeat, runVars
  <2>4. CASE Reap(j) \/ Publish(j) \/ Fail(j) \/ Exit(j)
    BY <1>1, <2>4 DEF Reap, Publish, Fail, Exit, runVars
  <2> QED
    BY <1>5, <2>1, <2>2, <2>3, <2>4 DEF WorkerStep
<1>6. CASE \E p \in Processes : CliDies(p) \/ \E op \in Commands : Begin(p, op)
  BY <1>1, <1>6 DEF CliDies, Begin, runVars
<1>7. CASE \E j \in Jobs : WorkerDies(j)
  BY <1>1, <1>7 DEF WorkerDies, runVars
<1>8. CASE Experiment
  BY <1>8 DEF Experiment
<1>9. CASE \E e \in Effects : EffectDies(e)
  BY <1>2, <1>9 DEF EffectDies
<1>10. CASE HostReboots
  BY <1>2, <1>10 DEF HostReboots
<1>11. CASE \E k \in Kinds : RemoveAbandonedLock(k)
  BY <1>11
<1>12. CASE UNCHANGED vars
  BY <1>1, <1>12 DEF vars, runVars
<1> QED
  BY <1>4, <1>5, <1>6, <1>7, <1>8, <1>9, <1>10, <1>11, <1>12 DEF Next

THEOREM RootsAlwaysSound == Spec => []RootInv
<1>1. Init => RootInv
  BY NullAssumption
     DEF Init, InitRuns, Absent, RootInv, RootShape, RootFields, SetupIsAlone, DriverHasLock,
         ReportFollowsAssay, At, Stage, Driving
<1>2. RootInv /\ [Next]_vars => RootInv'
  BY NextIsRootStep, RootStepInvariant DEF RootInv
<1> QED
  BY <1>1, <1>2, PTL DEF Spec

\* At most one effect is inside the driver of a run root, an orphan of a dead
\* worker included: whoever drives it is the one its lock file names.
THEOREM OneDriverInARoot == Spec => []OneDriver
<1>1. RootInv => OneDriver
  <2> SUFFICES ASSUME RootInv, NEW k \in Kinds
               PROVE Cardinality({e \in Effects : e[2] = k /\ effects[e] \in Driving}) <= 1
    BY DEF OneDriver
  <2> \A e, f \in {e \in Effects : e[2] = k /\ effects[e] \in Driving} : e = f
    BY DEF RootInv, DriverHasLock
  <2> QED
    BY AtMostOne
<1> QED
  BY <1>1, RootsAlwaysSound, PTL

\* What no step takes back: a root that exists, a complete one, a sealed one.
LEMMA StagesMoveOn ==
    ASSUME RootInv, RootStep, NEW k \in Kinds
    PROVE  /\ Stage(k) # "absent" => Stage(k)' # "absent"
           /\ Complete(k) => Complete(k)'
           /\ Stage(k) \in SealedStages \cup {"overtaken"}
                => /\ Stage(k)' \in SealedStages \cup {"overtaken"}
                   /\ runs'[k].attempts = runs[k].attempts
<1> USE DEF RootInv, RootShape, RootFields, SetupIsAlone, ReportFollowsAssay, Complete, Stage,
            At, SealedStages
<1>1. ASSUME NEW e \in Effects, EffectStep(e)
      PROVE  /\ Stage(k) # "absent" => runs'[k].stage # "absent"
             /\ Complete(k) => runs'[k].stage = "complete"
             /\ Stage(k) \in SealedStages \cup {"overtaken"}
                  => /\ runs'[k].stage \in SealedStages \cup {"overtaken"}
                     /\ runs'[k].attempts = runs[k].attempts
  <2>1. CASE CreateRoot(e)
    BY <1>1, <2>1 DEF CreateRoot
  <2>2. CASE InitializeState(e)
    BY <1>1, <2>2 DEF InitializeState
  <2>3. CASE Resume(e)
    BY <1>1, <2>3 DEF Resume, Locks
  <2>4. CASE RecordRetryEffects(e)
    BY <1>1, <2>4 DEF RecordRetryEffects
  <2>5. CASE ReserveRetry(e)
    BY <1>1, <2>5 DEF ReserveRetry, Retriable
  <2>6. CASE StartRound(e)
    BY <1>1, <2>6 DEF StartRound
  <2>7. CASE StartCall(e)
    BY <1>1, <2>7 DEF StartCall
  <2>8. CASE CallReturns(e)
    BY <1>1, <2>8 DEF CallReturns
  <2>9. CASE CallFails(e)
    BY <1>1, <2>9 DEF CallFails, Unlocks
  <2>10. CASE CheckpointReceipt(e)
    BY <1>1, <2>10 DEF CheckpointReceipt
  <2>11. CASE CommitRound(e)
    BY <1>1, <2>11 DEF CommitRound, Unlocks
  <2>12. CASE LeavePending(e)
    BY <1>1, <2>12 DEF LeavePending, Unlocks
  <2>13. CASE StopSearch(e)
    BY <1>1, <2>13 DEF StopSearch, Unlocks
  <2>14. CASE DeclareFinal(e)
    BY <1>1, <2>14 DEF DeclareFinal, PendingStages
  <2>15. CASE Assay(e)
    BY <1>1, <2>15 DEF Assay
  <2>16. CASE VerifyDriver(e)
    BY <1>1, <2>16 DEF VerifyDriver
  <2>17. CASE Report(e)
    BY <1>1, <2>17 DEF Report
  <2>18. CASE Replay(e)
    BY <1>1, <2>18 DEF Replay
  <2> QED
    BY <1>1, <2>1, <2>2, <2>3, <2>4, <2>5, <2>6, <2>7, <2>8, <2>9, <2>10, <2>11, <2>12, <2>13, <2>14, <2>15, <2>16, <2>17, <2>18 DEF EffectStep
<1>2. CASE \E c \in calls : CallStep(c)
  BY <1>2 DEF CallStep, CallWrites, OrphanEnds
<1>3. CASE \E h \in Kinds : RemoveAbandonedLock(h)
  BY <1>3 DEF RemoveAbandonedLock
<1>4. CASE Spawned \/ Ended
  BY <1>4 DEF Spawned, Ended
<1> QED
  BY <1>1, <1>2, <1>3, <1>4 DEF RootStep

\* Once protected final work is declared, no later command reopens the search or
\* reserves another call.
THEOREM SealedSearchStays == Spec => SearchStaysSealed
<1>1. RootInv /\ [Next]_vars
        => [\A k \in Kinds : Stage(k) \in SealedStages \cup {"overtaken"}
              => runs'[k].stage \in SealedStages \cup {"overtaken"}
                 /\ Len(runs'[k].attempts) = Attempts(k)]_vars
  BY NextIsRootStep, StagesMoveOn DEF RootInv, Stage, Attempts
<1> QED
  BY <1>1, RootsAlwaysSound, PTL DEF Spec, SearchStaysSealed

-----------------------------------------------------------------------------
(* The lock of the workflow, the invocations and the workers.              *)

LockedPcs == {"queue", "check", "fork", "release", "close", "record"}
Locked(p) == cli[p].pc \in LockedPcs

ControlShape ==
    /\ DOMAIN cli = Processes
    /\ \A p \in Processes : DOMAIN cli[p] = {"op", "pc", "job", "worker", "effect"}
    /\ DOMAIN workers = Jobs
    /\ \A j \in Jobs : DOMAIN workers[j] = {"pc", "act", "stopped", "child"}
    /\ jobs \in Seq(Commands \cup {"start"}) /\ Len(jobs) <= MaxJobs
    /\ closed \in BOOLEAN
    /\ holders \subseteq Processes \cup Jobs
    /\ status # Null => status.worker \in Jobs \cup {0}
    /\ \A p \in Processes :
        /\ cli[p].pc # "idle" => cli[p].op \in Commands
        /\ cli[p].pc \in {"read", "term_effect", "term_worker", "grace"} => cli[p].op = "stop"
        /\ cli[p].pc \in {"queue", "fork"} \/ (cli[p].pc = "open" /\ cli[p].op = "start")
            => cli[p].job \in 1..Len(jobs)
        /\ cli[p].pc \in {"term_effect", "term_worker", "grace"} => cli[p].worker \in Jobs

\* The lock has one holder, or a launcher and the worker it has just forked: who
\* holds it is told by where the invocations and the workers are.
LockIsPassedOn ==
    /\ \A p \in Processes : p \in holders <=> Locked(p)
    /\ \A j \in Jobs : j \in holders <=> WorkerAlive(j)
    /\ \A p, q \in Processes : Locked(p) /\ Locked(q) => p = q
    /\ \A i, j \in Jobs : WorkerAlive(i) /\ WorkerAlive(j) => i = j
    /\ \A p \in Processes, j \in Jobs : Locked(p) /\ WorkerAlive(j) => cli[p].pc = "release"

\* A launcher forks a worker behind the status it has written.
ForkIsQueued == \A p \in Processes : AtCli(p, "fork") /\ status # Null => status.state = "queued"

\* A worker that may still start something belongs to an open workflow.
ClosedIsIdle ==
    closed => \A j \in Jobs : WorkerAlive(j) => workers[j].pc \in {"boot", "exit"}

ControlInv == ControlShape /\ LockIsPassedOn /\ ForkIsQueued /\ StoppedHasNoWorker /\ ClosedIsIdle

LEMMA ControlInit == Init => ControlInv
<1> SUFFICES ASSUME Init PROVE ControlInv
  OBVIOUS
<1>1. DOMAIN Idle = {"op", "pc", "job", "worker", "effect"} /\ Idle.pc = "idle"
  BY DEF Idle
<1>2. DOMAIN Unborn = {"pc", "act", "stopped", "child"} /\ Unborn.pc = "none"
  BY DEF Unborn
<1>3. <<>> \in Seq(Commands \cup {"start"}) /\ Len(<<>>) = 0
  OBVIOUS
<1>4. ControlShape
  <2>1. jobs \in Seq(Commands \cup {"start"}) /\ Len(jobs) <= MaxJobs
    BY <1>3, JobsAssumption DEF Init
  <2>2. /\ DOMAIN cli = Processes /\ \A p \in Processes : cli[p] = Idle
        /\ DOMAIN workers = Jobs /\ \A j \in Jobs : workers[j] = Unborn
        /\ closed \in BOOLEAN /\ holders = {} /\ status = Null
    BY DEF Init
  <2> QED
    BY <1>1, <1>2, <2>1, <2>2 DEF ControlShape
<1>5. LockIsPassedOn
  BY <1>1, <1>2 DEF Init, LockIsPassedOn, Locked, LockedPcs, WorkerAlive
<1>6. ForkIsQueued /\ StoppedHasNoWorker /\ ClosedIsIdle
  BY <1>1 DEF Init, ForkIsQueued, StoppedHasNoWorker, ClosedIsIdle, AtCli
<1> QED
  BY <1>4, <1>5, <1>6 DEF ControlInv

LEMMA ControlStepInvariant == ControlInv /\ [Next]_vars => ControlInv'
<1> SUFFICES ASSUME ControlInv, [Next]_vars PROVE ControlInv'
  OBVIOUS
<1> USE JobsAssumption, ProcessesAssumption
    DEF ControlInv, ControlShape, LockIsPassedOn, Locked, LockedPcs, ForkIsQueued,
        StoppedHasNoWorker, ClosedIsIdle, WorkerAlive, WorkersAlive, AtCli
<1>1. ASSUME UNCHANGED <<jobs, closed, status, holders, cli, workers>> PROVE ControlInv'
  BY <1>1
<1>2. ASSUME NEW p \in Processes, CliStep(p) PROVE ControlInv'
  <2>1. CASE QueueStart(p)
    <3>1. CASE CliReturns(p) /\ UNCHANGED jobs
      BY <2>1, <3>1 DEF QueueStart, CliReturns, Idle
    <3>2. CASE /\ Len(jobs) < MaxJobs /\ jobs' = Append(jobs, "start")
               /\ cli' = [cli EXCEPT ![p].pc = "open", ![p].job = Len(jobs) + 1]
      <4>1. jobs' \in Seq(Commands \cup {"start"}) /\ Len(jobs') = Len(jobs) + 1
        BY <3>2
      <4>2. /\ cli'[p].op \in Commands /\ cli'[p].pc = "open" /\ cli'[p].job = Len(jobs')
            /\ \A q \in Processes : q # p => cli'[q] = cli[q]
            /\ DOMAIN cli' = Processes /\ DOMAIN cli'[p] = DOMAIN cli[p]
        BY <2>1, <3>2, <4>1 DEF QueueStart
      <4> QED
        BY <2>1, <3>2, <4>1, <4>2 DEF QueueStart
    <3> QED
      BY <2>1, <3>1, <3>2 DEF QueueStart
  <2>2. CASE OpenLock(p)
    BY <1>2, <2>2 DEF OpenLock, CliGoto, CliReturns, Idle, controlVars
  <2>3. CASE CheckLaunch(p)
    <3>1. CASE Releases(p) /\ UNCHANGED jobs
      BY <2>3, <3>1 DEF CheckLaunch, Releases, CliReturns, Idle
    <3>2. CASE /\ Len(jobs) < MaxJobs /\ jobs' = Append(jobs, cli[p].op)
               /\ cli' = [cli EXCEPT ![p].pc = "queue", ![p].job = Len(jobs) + 1]
               /\ UNCHANGED holders
      <4>1. /\ jobs' \in Seq(Commands \cup {"start"}) /\ Len(jobs') = Len(jobs) + 1
            /\ cli[p].pc = "check" /\ UNCHANGED <<closed, status, workers>>
        BY <2>3, <3>2 DEF CheckLaunch
      <4>2. /\ cli'[p].op \in Commands /\ cli'[p].pc = "queue" /\ cli'[p].job = Len(jobs')
            /\ \A q \in Processes : q # p => cli'[q] = cli[q]
            /\ DOMAIN cli' = Processes /\ DOMAIN cli'[p] = DOMAIN cli[p]
        BY <3>2, <4>1
      <4> QED
        BY <3>2, <4>1, <4>2
    <3> QED
      BY <2>3, <3>1, <3>2 DEF CheckLaunch
  <2>4. CASE QueueWorker(p)
    BY <1>2, <2>4 DEF QueueWorker, WriteStatus, CliGoto
  <2>5. CASE ForkWorker(p)
    BY <1>2, <2>5 DEF ForkWorker, CliGoto, Unborn, controlVars
  <2>6. CASE Close(p)
    BY <1>2, <2>6 DEF Close, Releases, CliReturns, Idle
  <2>7. CASE Release(p)
    BY <1>2, <2>7 DEF Release, Releases, CliReturns, Idle, controlVars
  <2>8. CASE StopReads(p)
    BY <1>2, <2>8 DEF StopReads, CliReturns, Idle, controlVars
  <2>9. CASE StopSignalsEffect(p)
    BY <1>2, <2>9 DEF StopSignalsEffect, CliGoto, controlVars
  <2>10. CASE StopSignalsWorker(p)
    <3> DEFINE w == cli[p].worker
    <3>1. /\ w \in Jobs /\ UNCHANGED <<jobs, closed, status>>
          /\ cli' = [cli EXCEPT ![p].pc = "grace"] /\ cli[p].pc = "term_worker"
      BY <2>10 DEF StopSignalsWorker, CliGoto, controlVars
    <3>2. CASE /\ workers' = [workers EXCEPT ![w].stopped = TRUE] /\ UNCHANGED holders
      BY <3>1, <3>2
    <3>3. CASE WorkerEnds(w)
      BY <3>1, <3>3 DEF WorkerEnds, Dead, Unborn
    <3> QED
      BY <2>10, <3>2, <3>3 DEF StopSignalsWorker
  <2>11. CASE StopSeesExit(p)
    BY <1>2, <2>11 DEF StopSeesExit, CliGoto, controlVars
  <2>12. CASE StopKills(p)
    <3> DEFINE w == cli[p].worker
    <3>1. /\ w \in Jobs /\ UNCHANGED <<jobs, closed, status>>
          /\ cli' = [cli EXCEPT ![p].pc = "open"] /\ cli[p].pc = "grace" /\ WorkerEnds(w)
      BY <2>12 DEF StopKills, CliGoto, controlVars
    <3> QED
      BY <3>1 DEF WorkerEnds, Dead, Unborn
  <2>13. CASE StopRecords(p)
    BY <1>2, <2>13 DEF StopRecords, WriteStatus, Releases, CliReturns, Idle
  <2> QED
    BY <1>2, <2>1, <2>2, <2>3, <2>4, <2>5, <2>6, <2>7, <2>8, <2>9, <2>10, <2>11, <2>12, <2>13 DEF CliStep
<1>3. ASSUME NEW j \in Jobs, WorkerStep(j) PROVE ControlInv'
  <2>1. CASE AcceptJob(j)
    <3>1. /\ UNCHANGED <<jobs, closed, holders, cli>> /\ workers[j].pc = "boot"
          /\ closed => UNCHANGED status
          /\ ~closed => status'.worker = j
      BY <2>1 DEF AcceptJob, AtWorker, WriteStatus
    <3>2. /\ DOMAIN workers' = Jobs /\ DOMAIN workers'[j] = DOMAIN workers[j]
          /\ workers'[j].pc \in {"exit", "fail", "next"}
          /\ closed => workers'[j].pc = "exit"
          /\ \A i \in Jobs : i # j => workers'[i] = workers[i]
      BY <2>1 DEF AcceptJob, WorkerGoto
    <3> QED
      BY <3>1, <3>2
  <2>2. CASE RunNext(j)
    <3>1. UNCHANGED <<jobs, closed, status, holders, cli>> /\ workers[j].pc = "next"
      BY <2>2 DEF RunNext, AtWorker, controlVars
    <3>2. /\ DOMAIN workers' = Jobs /\ DOMAIN workers'[j] = DOMAIN workers[j]
          /\ workers'[j].pc \in {"fail", "popen"}
          /\ \A i \in Jobs : i # j => workers'[i] = workers[i]
      BY <2>2 DEF RunNext, WorkerGoto, Spawn
    <3> QED
      BY <3>1, <3>2
  <2>3. CASE RunVerify(j)
    <3>1. UNCHANGED <<jobs, closed, status, holders, cli>> /\ workers[j].pc = "next"
      BY <2>3 DEF RunVerify, AtWorker, controlVars
    <3>2. /\ DOMAIN workers' = Jobs /\ DOMAIN workers'[j] = DOMAIN workers[j]
          /\ workers'[j].pc \in {"fail", "popen"}
          /\ \A i \in Jobs : i # j => workers'[i] = workers[i]
      BY <2>3 DEF RunVerify, WorkerGoto, Spawn
    <3> QED
      BY <3>1, <3>2
  <2>4. CASE NothingToRun(j)
    BY <1>3, <2>4 DEF NothingToRun, WorkerGoto, AtWorker, controlVars
  <2>5. CASE AssignChild(j)
    BY <1>3, <2>5 DEF AssignChild, WorkerGoto, AtWorker, controlVars
  <2>6. CASE Heartbeat(j)
    BY <1>3, <2>6 DEF Heartbeat, WriteStatus, AtWorker
  <2>7. CASE Reap(j)
    BY <1>3, <2>7 DEF Reap, AtWorker, controlVars
  <2>8. CASE Publish(j)
    BY <1>3, <2>8 DEF Publish, WriteStatus, WorkerGoto, AtWorker
  <2>9. CASE Fail(j)
    BY <1>3, <2>9 DEF Fail, WriteStatus, WorkerGoto, AtWorker
  <2>10. CASE Exit(j)
    BY <1>3, <2>10 DEF Exit, WorkerEnds, Dead, Unborn, AtWorker, controlVars
  <2> QED
    BY <1>3, <2>1, <2>2, <2>3, <2>4, <2>5, <2>6, <2>7, <2>8, <2>9, <2>10 DEF WorkerStep
<1>4. ASSUME NEW p \in Processes, CliDies(p) PROVE ControlInv'
  BY <1>4 DEF CliDies, Releases, CliReturns, Idle, controlVars
<1>5. ASSUME NEW p \in Processes, NEW op \in Commands, Begin(p, op) PROVE ControlInv'
  BY <1>5 DEF Begin, Idle
<1>6. ASSUME NEW j \in Jobs, WorkerDies(j) PROVE ControlInv'
  BY <1>6 DEF WorkerDies, WorkerEnds, Dead, Unborn, controlVars
<1>7. CASE HostReboots
  BY <1>7 DEF HostReboots, Idle, Dead, Unborn, controlVars
<1>8. CASE Experiment /\ UNCHANGED <<controlVars, holders, cli, workers, deaths>>
  BY <1>1, <1>8 DEF controlVars
<1>9. CASE \E e \in Effects : EffectDies(e)
  BY <1>1, <1>9 DEF EffectDies, controlVars
<1>10. CASE \E k \in Kinds : RemoveAbandonedLock(k)
                              /\ UNCHANGED <<controlVars, holders, cli, workers, deaths>>
  BY <1>1, <1>10 DEF controlVars
<1>11. CASE UNCHANGED vars
  BY <1>1, <1>11 DEF vars, controlVars
<1> QED
  BY <1>2, <1>3, <1>4, <1>5, <1>6, <1>7, <1>8, <1>9, <1>10, <1>11 DEF Next

THEOREM ControlAlwaysSound == Spec => []ControlInv
<1> QED
  BY ControlInit, ControlStepInvariant, PTL DEF Spec

\* At most one worker of a workflow is alive, through launches, stops and deaths
\* that overlap: the lock goes from launcher to worker without a gap.
THEOREM OneWorkerAtATime == Spec => []OneWorker
<1>1. ControlInv => OneWorker
  BY AtMostOne DEF ControlInv, LockIsPassedOn, OneWorker, WorkersAlive
<1> QED
  BY <1>1, ControlAlwaysSound, PTL

-----------------------------------------------------------------------------
(* What a job does to its effects, and an effect to its root.              *)

\* An effect moves by its own step while it lives, and in its own root.
LEMMA EffectStepsAreLocal ==
    ASSUME RootInv, NEW e \in Effects, EffectStep(e)
    PROVE  /\ Alive(e) /\ effects'[e] # "none"
           /\ DOMAIN effects' = Effects
           /\ \A f \in Effects : f # e => effects'[f] = effects[f]
           /\ \A k \in Kinds : k # e[2] => runs'[k] = runs[k]
           /\ effects'[e] \in {"verify", "done"}
                => effects[e] = "verify" \/ runs'[e[2]].stage = "complete"
<1> USE DEF RootInv, RootShape, RootFields, Effects, At, Goto, Stage, Alive, Live, Operations, Driving
<1>1. CASE CreateRoot(e)
  BY <1>1 DEF CreateRoot, Fails
<1>2. CASE InitializeState(e)
  BY <1>2 DEF InitializeState, Fails
<1>3. CASE Resume(e)
  BY <1>3 DEF Resume, Locks, Fails
<1>4. CASE RecordRetryEffects(e)
  BY <1>4 DEF RecordRetryEffects, Fails
<1>5. CASE ReserveRetry(e)
  BY <1>5 DEF ReserveRetry, Retriable, Fails
<1>6. CASE StartRound(e)
  BY <1>6 DEF StartRound
<1>7. CASE StartCall(e)
  BY <1>7 DEF StartCall
<1>8. CASE CallReturns(e)
  BY <1>8 DEF CallReturns
<1>9. CASE CallFails(e)
  BY <1>9 DEF CallFails, Unlocks, Fails
<1>10. CASE CheckpointReceipt(e)
  BY <1>10 DEF CheckpointReceipt
<1>11. CASE CommitRound(e)
  BY <1>11 DEF CommitRound, Unlocks, Fails
<1>12. CASE LeavePending(e)
  BY <1>12 DEF LeavePending, Unlocks, Fails
<1>13. CASE StopSearch(e)
  BY <1>13 DEF StopSearch, Unlocks
<1>14. CASE DeclareFinal(e)
  BY <1>14 DEF DeclareFinal, Fails
<1>15. CASE Assay(e)
  BY <1>15 DEF Assay, Fails
<1>16. CASE VerifyDriver(e)
  BY <1>16 DEF VerifyDriver, Fails
<1>17. CASE Report(e)
  BY <1>17 DEF Report
<1>18. CASE Replay(e)
  BY <1>18 DEF Replay, Fails
<1> QED
  BY <1>1, <1>2, <1>3, <1>4, <1>5, <1>6, <1>7, <1>8, <1>9, <1>10, <1>11, <1>12, <1>13, <1>14, <1>15, <1>16, <1>17, <1>18 DEF EffectStep

\* A worker that starts an effect is at "next", and waits for that effect next.
Starts(j) ==
    \E k \in Kinds, op \in Operations :
        /\ AtWorker(j, "next") /\ ~workers[j].stopped
        /\ effects' = [effects EXCEPT ![<<j, k>>] = op]
        /\ workers' = [workers EXCEPT ![j] = workers'[j]]
        /\ DOMAIN workers'[j] = DOMAIN workers[j]
        /\ workers'[j].pc = "popen" /\ workers'[j].child = <<j, k>>
        /\ workers'[j].stopped = workers[j].stopped
        /\ \/ /\ op = "verify" /\ workers[j].act = "verify" /\ k = Solution
              /\ workers'[j].act = workers[j].act
           \/ /\ op # "verify" /\ workers[j].act # "verify" /\ k = NextKind /\ ~Complete(Solution)
              /\ Stage(k) = "absent" => op = "fresh" /\ workers'[j].act = workers[j].act
              /\ Stage(k) # "absent" =>
                    workers'[j].act = IF k # Solution THEN "resume" ELSE workers[j].act
        /\ UNCHANGED <<runs, calls, controlVars, holders, cli, deaths>>

LEMMA RunsStart ==
    ASSUME RootInv, ControlInv, NEW j \in Jobs, RunNext(j) \/ RunVerify(j)
    PROVE  \/ Starts(j)
           \/ WorkerGoto(j, "fail") /\ AtWorker(j, "next")
              /\ UNCHANGED <<runVars, controlVars, holders, cli, deaths>>
              /\ \/ workers[j].stopped
                 \/ /\ NextKind = Solution /\ Stage(Solution) = "absent"
                    /\ workers[j].act = "retry"
<1>0. DOMAIN workers = Jobs /\ DOMAIN workers[j] = {"pc", "act", "stopped", "child"}
  BY DEF ControlInv, ControlShape
<1>1. CASE RunNext(j)
  <2> DEFINE k == NextKind
             op == IF Stage(k) = "absent" THEN "fresh"
                   ELSE IF workers[j].act = "retry" THEN "retry" ELSE "resume"
  <2>1. /\ k \in Kinds /\ AtWorker(j, "next") /\ workers[j].act # "verify"
        /\ ~Complete(Solution) /\ op \in Operations /\ op # "verify"
        /\ UNCHANGED <<runs, calls, controlVars, holders, cli, deaths>>
    BY <1>1, NextKindIsFirst DEF RunNext, Operations
  <2>2. CASE ~workers[j].stopped /\ Spawn(j, k, op)
    <3>1. /\ effects' = [effects EXCEPT ![<<j, k>>] = op]
          /\ workers' = [workers EXCEPT ![j] = workers'[j]]
          /\ DOMAIN workers'[j] = DOMAIN workers[j]
          /\ workers'[j].pc = "popen" /\ workers'[j].child = <<j, k>>
          /\ workers'[j].stopped = workers[j].stopped
          /\ workers'[j].act = IF op \in {"retry", "resume"} /\ k # Solution THEN "resume"
                               ELSE workers[j].act
      BY <1>0, <2>2 DEF Spawn
    <3>2. /\ Stage(k) = "absent" => op = "fresh" /\ workers'[j].act = workers[j].act
          /\ Stage(k) # "absent" =>
                workers'[j].act = IF k # Solution THEN "resume" ELSE workers[j].act
      BY <3>1
    <3> HIDE DEF k, op
    <3>3. k = NextKind
      BY DEF k
    <3> QED
      BY <2>1, <2>2, <3>1, <3>2, <3>3 DEF Starts
  <2>3. CASE WorkerGoto(j, "fail") /\ UNCHANGED effects
               /\ \/ workers[j].stopped
                  \/ k = Solution /\ Stage(k) = "absent" /\ workers[j].act = "retry"
    BY <2>1, <2>3 DEF runVars
  <2> QED
    BY <1>1, <2>2, <2>3, Zenon DEF RunNext
<1>2. CASE RunVerify(j)
  <2>1. CASE ~workers[j].stopped /\ Spawn(j, Solution, "verify")
    <3>1. /\ effects' = [effects EXCEPT ![<<j, Solution>>] = "verify"]
          /\ workers' = [workers EXCEPT ![j] = workers'[j]]
          /\ DOMAIN workers'[j] = DOMAIN workers[j]
          /\ workers'[j].pc = "popen" /\ workers'[j].child = <<j, Solution>>
          /\ workers'[j].stopped = workers[j].stopped
          /\ workers'[j].act = workers[j].act
      BY <1>0, <2>1 DEF Spawn
    <3> QED
      BY <1>2, <2>1, <3>1, SolutionIsKind DEF RunVerify, Starts, Operations
  <2> QED
    BY <1>2, <2>1 DEF RunVerify, runVars
<1> QED
  BY <1>1, <1>2

\* Otherwise an effect only ends and a run root keeps its stage.
Calm ==
    /\ DOMAIN effects' = Effects
    /\ \A e \in Effects : effects'[e] = effects[e] \/ (Alive(e) /\ effects'[e] = "failed")
    /\ \A k \in Kinds : runs'[k].stage = Stage(k)

LEMMA CliStepsAreCalm ==
    ASSUME RootInv, NEW p \in Processes,
           CliStep(p) \/ CliDies(p) \/ \E op \in Commands : Begin(p, op)
    PROVE  Calm
<1> USE DEF RootInv, RootShape, Calm, Stage
<1>1. CASE effects' = effects /\ runs' = runs
  BY <1>1
<1>2. ASSUME NEW S, Killed(S), runs' = runs PROVE Calm
  BY <1>2 DEF Killed
<1>3. CASE StopSignalsEffect(p)
  BY <1>2, <1>3 DEF StopSignalsEffect
<1>4. CASE StopSignalsWorker(p)
  BY <1>1, <1>2, <1>4 DEF StopSignalsWorker
<1>5. CASE StopKills(p)
  BY <1>2, <1>5 DEF StopKills
<1>6. CASE QueueStart(p) \/ OpenLock(p) \/ CheckLaunch(p) \/ QueueWorker(p) \/ ForkWorker(p)
  BY <1>1, <1>6 DEF QueueStart, OpenLock, CheckLaunch, QueueWorker, ForkWorker, runVars
<1>7. CASE Close(p) \/ Release(p) \/ StopReads(p) \/ StopSeesExit(p) \/ StopRecords(p)
  BY <1>1, <1>7 DEF Close, Release, StopReads, StopSeesExit, StopRecords, runVars
<1>8. CASE CliDies(p) \/ \E op \in Commands : Begin(p, op)
  BY <1>1, <1>8 DEF CliDies, Begin, runVars
<1> QED
  BY <1>3, <1>4, <1>5, <1>6, <1>7, <1>8 DEF CliStep

LEMMA StepsOfWorkflow ==
    ASSUME RootInv, ControlInv, [Next]_vars
    PROVE  \/ \E j \in Jobs : Starts(j)
           \/ \E e \in Effects : /\ EffectStep(e)
                                 /\ UNCHANGED <<controlVars, holders, cli, workers, deaths>>
           \/ Calm
<1> USE DEF RootInv, RootShape
<1>1. ASSUME effects' = effects, \A k \in Kinds : runs'[k].stage = runs[k].stage PROVE Calm
  BY <1>1 DEF Calm, Stage
<1>2. ASSUME NEW S, Killed(S), runs' = runs PROVE Calm
  BY <1>2 DEF Killed, Calm, Stage
<1>3. ASSUME NEW j \in Jobs, WorkerStep(j) PROVE Calm \/ Starts(j)
  <2>1. CASE RunNext(j) \/ RunVerify(j)
    BY <1>1, <2>1, RunsStart DEF runVars
  <2>2. CASE AcceptJob(j) \/ NothingToRun(j) \/ AssignChild(j) \/ Heartbeat(j)
    BY <1>1, <2>2 DEF AcceptJob, NothingToRun, AssignChild, Heartbeat, runVars
  <2>3. CASE Reap(j) \/ Publish(j) \/ Fail(j) \/ Exit(j)
    BY <1>1, <2>3 DEF Reap, Publish, Fail, Exit, runVars
  <2> QED
    BY <1>3, <2>1, <2>2, <2>3 DEF WorkerStep
<1>4. CASE \E j \in Jobs : WorkerDies(j)
  BY <1>1, <1>4 DEF WorkerDies, runVars
<1>5. CASE /\ \E c \in calls : CallStep(c)
           /\ UNCHANGED <<controlVars, holders, cli, workers, deaths>>
  BY <1>1, <1>5 DEF CallStep, CallWrites, OrphanEnds, RootFields
<1>6. CASE \E e \in Effects : EffectDies(e)
  BY <1>2, <1>6 DEF EffectDies
<1>7. CASE HostReboots
  BY <1>2, <1>7 DEF HostReboots
<1>8. CASE \E k \in Kinds : RemoveAbandonedLock(k)
  BY <1>1, <1>8 DEF RemoveAbandonedLock, RootFields
<1>9. CASE UNCHANGED vars
  BY <1>1, <1>9 DEF vars, runVars
<1> QED
  BY <1>3, <1>4, <1>5, <1>6, <1>7, <1>8, <1>9, CliStepsAreCalm DEF Next, Experiment

\* No effect starts after close wrote closed.json, whatever launch was under way.
THEOREM ClosedStartsNothing == Spec => CloseIsFinal
<1>1. RootInv /\ ControlInv /\ [Next]_vars
        => [closed => \A e \in Effects : effects[e] = "none" => effects'[e] = "none"]_vars
  <2> SUFFICES ASSUME RootInv, ControlInv, [Next]_vars, closed,
                      NEW e \in Effects, effects[e] = "none"
               PROVE  effects'[e] = "none"
    OBVIOUS
  <2>1. ASSUME NEW j \in Jobs, Starts(j) PROVE FALSE
    BY <2>1 DEF Starts, AtWorker, ControlInv, ClosedIsIdle, WorkerAlive
  <2>2. ASSUME NEW f \in Effects, EffectStep(f) PROVE effects'[e] = "none"
    BY <2>2, EffectStepsAreLocal DEF Alive, Live, Operations, Driving
  <2>3. CASE Calm
    BY <2>3 DEF Calm, Alive, Live, Operations, Driving
  <2> QED
    BY <2>1, <2>2, <2>3, StepsOfWorkflow
<1> QED
  BY <1>1, RootsAlwaysSound, ControlAlwaysSound, PTL DEF Spec, CloseIsFinal

-----------------------------------------------------------------------------
(* The jobs: what a worker was asked to do, what it has started, and what  *)
(* its retry has been spent on.                                            *)

Launching(p) ==
    cli[p].pc \in {"queue", "fork"} \/ (cli[p].pc = "open" /\ cli[p].op = "start")

\* A job that is being launched has no worker yet, and one launcher.
LaunchInv ==
    /\ \A p \in Processes : Launching(p) => workers[cli[p].job].pc = "none"
    /\ \A p, q \in Processes : Launching(p) /\ Launching(q) /\ cli[p].job = cli[q].job => p = q
    /\ \A j \in Jobs : j > Len(jobs) => workers[j].pc = "none"
    /\ \A p \in Processes :
        cli[p].pc \in {"term_effect", "term_worker", "grace"} => workers[cli[p].worker].pc # "none"

\* An effect is "done", or about to replay, only with a complete run; the solution
\* run is not begun before every other is complete.
OutcomesAreTrue ==
    /\ \A e \in Effects : effects[e] \in {"verify", "done"} => Complete(e[2])
    /\ \A h \in Kinds \ {Solution} :
        Stage(Solution) # "absent" \/ (\E j \in Jobs : effects[<<j, Solution>>] # "none")
          => Complete(h)
    /\ \A j \in 1..Len(jobs) : jobs[j] = "retry" => \E k \in Kinds : Stage(k) # "absent"

\* A worker knows the one effect of its job that lives, and what it may still do.
WorkerTrue(j) ==
    /\ workers[j].stopped \in BOOLEAN
    /\ workers[j].pc \in {"none", "boot"} => \A k \in Kinds : effects[<<j, k>>] = "none"
    /\ workers[j].pc \in {"popen", "poll"}
        => \E k \in Kinds : workers[j].child = <<j, k>> /\ effects[<<j, k>>] # "none"
    /\ workers[j].pc = "publish" => Complete(Solution)
    /\ WorkerAlive(j) =>
        /\ \A k \in Kinds : Alive(<<j, k>>)
             => workers[j].pc \in {"popen", "poll"} /\ workers[j].child = <<j, k>>
        /\ workers[j].act \in {"retry", "verify"} => jobs[j] = workers[j].act
        /\ workers[j].act = "verify" /\ workers[j].pc \notin {"boot", "fail", "exit"}
             => Complete(Solution)
        /\ workers[j].act = "retry"
             => \A h \in Kinds \ {Solution} : effects[<<j, h>>] = "none"
WorkerIsTrue == \A j \in Jobs : WorkerTrue(j)

JobInv == LaunchInv /\ OutcomesAreTrue /\ WorkerIsTrue /\ CompletedIsTrue /\ RetryGoesOn

LEMMA LaunchStep == ControlInv /\ LaunchInv /\ [Next]_vars => LaunchInv'
<1> SUFFICES ASSUME ControlInv, LaunchInv, [Next]_vars PROVE LaunchInv'
  OBVIOUS
<1> USE JobsAssumption DEF ControlInv, ControlShape, LaunchInv, Launching, AtCli
<1>1. ASSUME UNCHANGED <<jobs, cli, workers>> PROVE LaunchInv'
  BY <1>1
<1>2. ASSUME NEW p \in Processes, CliStep(p) PROVE LaunchInv'
  <2>1. CASE QueueStart(p)
    <3>1. CASE CliReturns(p) /\ UNCHANGED jobs
      BY <2>1, <3>1 DEF QueueStart, CliReturns, Idle
    <3>2. CASE /\ Len(jobs) < MaxJobs /\ jobs' = Append(jobs, "start")
               /\ cli' = [cli EXCEPT ![p].pc = "open", ![p].job = Len(jobs) + 1]
      <4>1. Len(jobs') = Len(jobs) + 1 /\ UNCHANGED workers
        BY <2>1, <3>2 DEF QueueStart
      <4>2. /\ cli'[p].pc = "open" /\ cli'[p].job = Len(jobs) + 1
            /\ \A q \in Processes : q # p => cli'[q] = cli[q]
        BY <3>2
      <4>3. \A q \in Processes : Launching(q) => cli[q].job \in 1..Len(jobs)
        OBVIOUS
      <4>4. Len(jobs) + 1 \in Jobs
        BY <3>2
      <4> QED
        BY <4>1, <4>2, <4>3, <4>4
    <3> QED
      BY <2>1, <3>1, <3>2 DEF QueueStart
  <2>2. CASE OpenLock(p)
    BY <2>2 DEF OpenLock, CliGoto, CliReturns, Idle, controlVars
  <2>3. CASE CheckLaunch(p)
    <3>1. CASE Releases(p) /\ UNCHANGED jobs
      BY <2>3, <3>1 DEF CheckLaunch, Releases, CliReturns, Idle
    <3>2. CASE /\ Len(jobs) < MaxJobs /\ jobs' = Append(jobs, cli[p].op)
               /\ cli' = [cli EXCEPT ![p].pc = "queue", ![p].job = Len(jobs) + 1]
      <4>1. Len(jobs') = Len(jobs) + 1 /\ UNCHANGED workers
        BY <2>3, <3>2 DEF CheckLaunch
      <4>2. /\ cli'[p].pc = "queue" /\ cli'[p].job = Len(jobs) + 1
            /\ \A q \in Processes : q # p => cli'[q] = cli[q]
        BY <3>2
      <4>3. \A q \in Processes : Launching(q) => cli[q].job \in 1..Len(jobs)
        OBVIOUS
      <4>4. Len(jobs) + 1 \in Jobs
        BY <3>2
      <4> QED
        BY <4>1, <4>2, <4>3, <4>4
    <3> QED
      BY <2>3, <3>1, <3>2 DEF CheckLaunch
  <2>4. CASE QueueWorker(p)
    BY <2>4 DEF QueueWorker, CliGoto
  <2>5. CASE ForkWorker(p)
    <3>1. /\ cli[p].pc = "fork" /\ cli' = [cli EXCEPT ![p].pc = "release"] /\ UNCHANGED jobs
          /\ \A i \in Jobs : i # cli[p].job => workers'[i] = workers[i]
          /\ workers'[cli[p].job].pc = "boot"
      BY <2>5 DEF ForkWorker, CliGoto, Unborn, controlVars
    <3>2. cli[p].job \in 1..Len(jobs)
      BY <3>1
    <3> QED
      BY <3>1, <3>2
  <2>6. CASE Close(p) \/ Release(p) \/ StopRecords(p)
    BY <2>6 DEF Close, Release, StopRecords, Releases, CliReturns, Idle, controlVars
  <2>7. CASE StopReads(p)
    BY <2>7 DEF StopReads, CliReturns, Idle, WorkerAlive, controlVars
  <2>8. CASE StopSignalsEffect(p) \/ StopSeesExit(p)
    BY <2>8 DEF StopSignalsEffect, StopSeesExit, CliGoto, controlVars
  <2>9. CASE StopSignalsWorker(p)
    <3>1. /\ UNCHANGED jobs /\ cli[p].pc = "term_worker"
          /\ cli' = [cli EXCEPT ![p].pc = "grace"]
          /\ \A i \in Jobs : i # cli[p].worker => workers'[i] = workers[i]
          /\ workers[cli[p].worker].pc # "none" /\ workers'[cli[p].worker].pc # "none"
      BY <2>9 DEF StopSignalsWorker, CliGoto, WorkerEnds, Dead, Unborn, controlVars
    <3> QED
      BY <3>1
  <2>10. CASE StopKills(p)
    <3>1. /\ UNCHANGED jobs /\ cli[p].pc = "grace" /\ cli' = [cli EXCEPT ![p].pc = "open"]
          /\ \A i \in Jobs : i # cli[p].worker => workers'[i] = workers[i]
          /\ workers'[cli[p].worker].pc = "dead"
      BY <2>10 DEF StopKills, CliGoto, WorkerEnds, Dead, Unborn, controlVars
    <3> QED
      BY <3>1
  <2> QED
    BY <1>2, <2>1, <2>2, <2>3, <2>4, <2>5, <2>6, <2>7, <2>8, <2>9, <2>10 DEF CliStep
<1>3. ASSUME NEW j \in Jobs, WorkerStep(j) \/ WorkerDies(j) PROVE LaunchInv'
  <2>1. /\ UNCHANGED <<jobs, cli>> /\ workers[j].pc # "none"
        /\ \A i \in Jobs : i # j => workers'[i] = workers[i]
        /\ workers'[j].pc # "none"
    <3>1. CASE AcceptJob(j) \/ NothingToRun(j) \/ AssignChild(j) \/ Heartbeat(j)
      BY <3>1 DEF AcceptJob, NothingToRun, AssignChild, Heartbeat, WorkerGoto, AtWorker, controlVars
    <3>2. CASE Reap(j) \/ Publish(j) \/ Fail(j) \/ Exit(j) \/ WorkerDies(j)
      BY <3>2 DEF Reap, Publish, Fail, Exit, WorkerDies, WorkerEnds, WorkerAlive, WorkerGoto,
                  AtWorker, Dead, Unborn, controlVars
    <3>3. CASE RunNext(j)
      BY <3>3 DEF RunNext, Spawn, WorkerGoto, AtWorker, controlVars
    <3>4. CASE RunVerify(j)
      BY <3>4 DEF RunVerify, Spawn, WorkerGoto, AtWorker, controlVars
    <3> QED
      BY <1>3, <3>1, <3>2, <3>3, <3>4 DEF WorkerStep
  <2> QED
    BY <2>1
<1>4. ASSUME NEW p \in Processes, CliDies(p) PROVE LaunchInv'
  BY <1>4 DEF CliDies, Releases, CliReturns, Idle, controlVars
<1>5. ASSUME NEW p \in Processes, NEW op \in Commands, Begin(p, op) PROVE LaunchInv'
  BY <1>5 DEF Begin, Idle
<1>6. CASE HostReboots
  BY <1>6 DEF HostReboots, Idle, WorkerAlive, Dead, Unborn, controlVars
<1>7. CASE \E e \in Effects : EffectDies(e)
  BY <1>1, <1>7 DEF EffectDies, controlVars
<1>8. CASE UNCHANGED <<controlVars, holders, cli, workers, deaths>> \/ UNCHANGED vars
  BY <1>1, <1>8 DEF controlVars, vars
<1> QED
  BY <1>2, <1>3, <1>4, <1>5, <1>6, <1>7, <1>8 DEF Next

\* A job is added at the end, and a retry only beside a run that exists.
LEMMA JobsGrow ==
    ASSUME ControlInv, [Next]_vars
    PROVE  \/ UNCHANGED jobs
           \/ \E a \in Commands \cup {"start"} :
                 /\ jobs' = Append(jobs, a)
                 /\ a = "retry" => \E k \in Kinds : Stage(k) # "absent"
<1>1. ASSUME LaunchAllowed("retry") PROVE \E k \in Kinds : Stage(k) # "absent"
  BY <1>1, SolutionIsKind DEF LaunchAllowed, ActiveRuns
<1>2. ASSUME NEW p \in Processes, CliStep(p)
      PROVE  \/ UNCHANGED jobs
             \/ \E a \in Commands \cup {"start"} :
                   /\ jobs' = Append(jobs, a)
                   /\ a = "retry" => LaunchAllowed("retry")
  <2>1. CASE QueueStart(p)
    BY <2>1 DEF QueueStart
  <2>2. CASE CheckLaunch(p)
    <3>1. cli[p].op \in Commands
      BY <2>2 DEF CheckLaunch, ControlInv, ControlShape, AtCli
    <3> QED
      BY <2>2, <3>1 DEF CheckLaunch
  <2>3. CASE OpenLock(p) \/ QueueWorker(p) \/ ForkWorker(p) \/ Close(p) \/ Release(p)
    BY <2>3 DEF OpenLock, QueueWorker, ForkWorker, Close, Release, controlVars
  <2>4. CASE StopReads(p) \/ StopSignalsEffect(p) \/ StopSignalsWorker(p) \/ StopSeesExit(p)
             \/ StopKills(p) \/ StopRecords(p)
    BY <2>4 DEF StopReads, StopSignalsEffect, StopSignalsWorker, StopSeesExit, StopKills,
                StopRecords, controlVars
  <2> QED
    BY <1>2, <2>1, <2>2, <2>3, <2>4 DEF CliStep
<1>3. ASSUME NEW j \in Jobs, WorkerStep(j) \/ WorkerDies(j) PROVE UNCHANGED jobs
  BY <1>3 DEF WorkerStep, AcceptJob, RunNext, RunVerify, NothingToRun, AssignChild, Heartbeat,
              Reap, Publish, Fail, Exit, WorkerDies, controlVars
<1>4. ASSUME NEW p \in Processes, CliDies(p) \/ \E op \in Commands : Begin(p, op)
      PROVE  UNCHANGED jobs
  BY <1>4 DEF CliDies, Begin, controlVars
<1>5. CASE HostReboots \/ \E e \in Effects : EffectDies(e)
  BY <1>5 DEF HostReboots, EffectDies, controlVars
<1>6. CASE UNCHANGED controlVars \/ UNCHANGED vars
  BY <1>6 DEF controlVars, vars
<1> QED
  BY <1>1, <1>2, <1>3, <1>4, <1>5, <1>6 DEF Next

LEMMA OutcomesStep ==
    RootInv /\ ControlInv /\ OutcomesAreTrue /\ WorkerIsTrue /\ [Next]_vars => OutcomesAreTrue'
<1> SUFFICES ASSUME RootInv, ControlInv, OutcomesAreTrue, WorkerIsTrue, [Next]_vars
             PROVE OutcomesAreTrue'
  OBVIOUS
<1>1. /\ DOMAIN effects = Effects /\ DOMAIN runs = Kinds
      /\ \A k \in Kinds : /\ Stage(k) # "absent" => runs'[k].stage # "absent"
                          /\ Complete(k) => runs'[k].stage = "complete"
  BY NextIsRootStep, StagesMoveOn DEF RootInv, RootShape, Complete, Stage
<1>2. \A j \in 1..Len(jobs') : jobs'[j] = "retry" => \E k \in Kinds : runs'[k].stage # "absent"
  <2>1. CASE UNCHANGED jobs
    BY <1>1, <2>1 DEF OutcomesAreTrue
  <2>2. ASSUME NEW a \in Commands \cup {"start"}, jobs' = Append(jobs, a),
               a = "retry" => \E k \in Kinds : Stage(k) # "absent"
        PROVE  \A j \in 1..Len(jobs') : jobs'[j] = "retry" => \E k \in Kinds : runs'[k].stage # "absent"
    <3>1. /\ Len(jobs') = Len(jobs) + 1 /\ jobs'[Len(jobs) + 1] = a
          /\ \A j \in 1..Len(jobs) : jobs'[j] = jobs[j]
          /\ Len(jobs) \in Nat
      BY <2>2 DEF ControlInv, ControlShape
    <3> QED
      BY <1>1, <2>2, <3>1 DEF OutcomesAreTrue
  <2> QED
    BY <2>1, <2>2, JobsGrow
<1>3. /\ \A e \in Effects : effects'[e] \in {"verify", "done"} => runs'[e[2]].stage = "complete"
      /\ \A h \in Kinds \ {Solution} :
           runs'[Solution].stage # "absent" \/ (\E j \in Jobs : effects'[<<j, Solution>>] # "none")
             => runs'[h].stage = "complete"
  <2>1. ASSUME NEW j \in Jobs, Starts(j)
        PROVE  /\ \A e \in Effects : effects'[e] \in {"verify", "done"} => Complete(e[2])
               /\ \A h \in Kinds \ {Solution} :
                    Stage(Solution) # "absent" \/ (\E i \in Jobs : effects'[<<i, Solution>>] # "none")
                      => Complete(h)
               /\ runs' = runs
    <3>1. PICK k \in Kinds, op \in Operations :
            /\ effects' = [effects EXCEPT ![<<j, k>>] = op] /\ runs' = runs
            /\ op = "verify" => k = Solution /\ Complete(Solution)
            /\ op # "verify" => k = NextKind /\ ~Complete(Solution)
      BY <2>1 DEF Starts, WorkerIsTrue, WorkerTrue, WorkerAlive, AtWorker
    <3>2. k = Solution => \A h \in Kinds \ {Solution} : Complete(h)
      BY <3>1, NextKindIsFirst DEF OutcomesAreTrue, Complete, Stage
    <3>3. ASSUME NEW e \in Effects, effects'[e] \in {"verify", "done"} PROVE Complete(e[2])
      <4>1. CASE e = <<j, k>>
        BY <1>1, <3>1, <3>3, <4>1 DEF Operations
      <4>2. CASE e # <<j, k>>
        BY <1>1, <3>1, <3>3, <4>2 DEF OutcomesAreTrue
      <4> QED
        BY <4>1, <4>2
    <3>4. CASE k = Solution
      BY <3>1, <3>2, <3>3, <3>4
    <3>5. CASE k # Solution
      <4>1. \A i \in Jobs : effects'[<<i, Solution>>] = effects[<<i, Solution>>]
        BY <1>1, <3>1, <3>5, SolutionIsKind DEF Effects
      <4> QED
        BY <3>1, <3>3, <4>1 DEF OutcomesAreTrue
    <3> QED
      BY <3>4, <3>5
  <2>2. ASSUME NEW e \in Effects, EffectStep(e)
        PROVE  /\ \A f \in Effects : effects'[f] \in {"verify", "done"} => runs'[f[2]].stage = "complete"
               /\ \A h \in Kinds \ {Solution} :
                    runs'[Solution].stage # "absent"
                        \/ (\E j \in Jobs : effects'[<<j, Solution>>] # "none")
                      => runs'[h].stage = "complete"
    <3>1. /\ effects[e] # "none"
          /\ \A f \in Effects : f # e => effects'[f] = effects[f]
          /\ \A k \in Kinds : k # e[2] => runs'[k] = runs[k]
          /\ effects'[e] \in {"verify", "done"}
                => effects[e] = "verify" \/ runs'[e[2]].stage = "complete"
      BY <2>2, EffectStepsAreLocal DEF Alive, Live, Operations, Driving
    <3>2. e[1] \in Jobs /\ e[2] \in Kinds /\ e = <<e[1], e[2]>>
      BY DEF Effects
    <3>3. \A f \in Effects : effects'[f] \in {"verify", "done"} => runs'[f[2]].stage = "complete"
      BY <1>1, <3>1 DEF OutcomesAreTrue, Effects
    <3>4. ASSUME NEW h \in Kinds \ {Solution},
                 runs'[Solution].stage # "absent" \/ (\E j \in Jobs : effects'[<<j, Solution>>] # "none")
          PROVE  runs'[h].stage = "complete"
      <4>1. CASE e[2] = Solution
        BY <1>1, <3>1, <3>2, <4>1 DEF OutcomesAreTrue
      <4>2. CASE e[2] # Solution
        <5>1. \A j \in Jobs : effects'[<<j, Solution>>] = effects[<<j, Solution>>]
          BY <3>1, <4>2, SolutionIsKind DEF Effects
        <5>2. runs'[Solution] = runs[Solution]
          BY <3>1, <4>2, SolutionIsKind
        <5> QED
          BY <1>1, <3>4, <5>1, <5>2 DEF OutcomesAreTrue, Stage
      <4> QED
        BY <4>1, <4>2
    <3> QED
      BY <3>3, <3>4
  <2>3. CASE Calm
    <3>1. \A j \in Jobs : <<j, Solution>> \in Effects
      BY SolutionIsKind DEF Effects
    <3> QED
      BY <1>1, <2>3, <3>1, SolutionIsKind
         DEF Calm, OutcomesAreTrue, Alive, Live, Operations, Driving, Effects
  <2> QED
    BY <1>1, <2>1, <2>2, <2>3, StepsOfWorkflow DEF Effects, Complete, Stage
<1> QED
  BY <1>2, <1>3 DEF OutcomesAreTrue, Complete, Stage

\* What every step leaves of a job and of the effects of a worker that stays.
JobKept(j) ==
    /\ WorkerAlive(j) => jobs'[j] = jobs[j]
    /\ Complete(Solution) => runs'[Solution].stage = "complete"
EffectsKept(j) ==
    \A k \in Kinds :
        \/ effects'[<<j, k>>] = effects[<<j, k>>]
        \/ Alive(<<j, k>>) /\ effects'[<<j, k>>] # "none"

LEMMA JobsAreKept ==
    ASSUME RootInv, ControlInv, LaunchInv, [Next]_vars, NEW j \in Jobs
    PROVE  JobKept(j)
<1>1. Complete(Solution) => runs'[Solution].stage = "complete"
  BY NextIsRootStep, StagesMoveOn, SolutionIsKind DEF RootInv, Complete, Stage
<1>2. WorkerAlive(j) => jobs'[j] = jobs[j]
  <2>1. ASSUME WorkerAlive(j), NEW a, jobs' = Append(jobs, a) PROVE jobs'[j] = jobs[j]
    <3>1. j \in 1..Len(jobs)
      BY <2>1, JobsAssumption DEF LaunchInv, WorkerAlive, ControlInv, ControlShape
    <3> SUFFICES Append(jobs, a)[j] = jobs[j]
      BY <2>1
    <3>2. jobs \in Seq(Commands \cup {"start"})
      BY DEF ControlInv, ControlShape
    <3> QED
      BY <3>1, <3>2
  <2> QED
    BY <2>1, JobsGrow
<1> QED
  BY <1>1, <1>2 DEF JobKept

LEMMA WorkerStays ==
    ASSUME NEW j \in Jobs, WorkerTrue(j), JobKept(j), EffectsKept(j),
           /\ workers'[j].pc = workers[j].pc /\ workers'[j].act = workers[j].act
           /\ workers'[j].child = workers[j].child
           /\ workers'[j].stopped \in {workers[j].stopped, TRUE}
    PROVE  WorkerTrue(j)'
<1> USE DEF WorkerTrue, JobKept, EffectsKept, WorkerAlive, Complete, Stage, Alive, Live,
            Operations, Driving
<1>1. workers'[j].pc \in {"none", "boot"} => \A k \in Kinds : effects'[<<j, k>>] = "none"
  OBVIOUS
<1>2. workers'[j].pc \in {"popen", "poll"}
        => \E k \in Kinds : workers'[j].child = <<j, k>> /\ effects'[<<j, k>>] # "none"
  OBVIOUS
<1>3. WorkerAlive(j)' => \A k \in Kinds : Alive(<<j, k>>)'
        => workers'[j].pc \in {"popen", "poll"} /\ workers'[j].child = <<j, k>>
  OBVIOUS
<1> QED
  BY <1>1, <1>2, <1>3

\* A worker that ends leaves nothing to tell.
LEMMA WorkerGone ==
    ASSUME NEW j \in Jobs, workers'[j] = Dead
    PROVE  WorkerTrue(j)'
<1>1. workers'[j].pc = "dead" /\ workers'[j].stopped = FALSE
  BY DEF Dead, Unborn
<1> QED
  BY <1>1 DEF WorkerTrue, WorkerAlive

LEMMA WorkerMoves ==
    ASSUME RootInv, ControlInv, LaunchInv, OutcomesAreTrue, WorkerIsTrue,
           NEW j \in Jobs, WorkerStep(j), JobKept(j)
    PROVE  WorkerTrue(j)'
<1>0. /\ DOMAIN workers = Jobs /\ DOMAIN workers[j] = {"pc", "act", "stopped", "child"}
      /\ DOMAIN effects = Effects /\ WorkerTrue(j)
  BY DEF ControlInv, ControlShape, RootInv, RootShape, WorkerIsTrue
<1> USE <1>0 DEF WorkerTrue, WorkerAlive, AtWorker, Complete, Stage, Alive, JobKept
<1>1. CASE AcceptJob(j)
  BY <1>1 DEF AcceptJob, WorkerGoto, runVars
<1>2. CASE NothingToRun(j) \/ AssignChild(j) \/ Heartbeat(j)
  <2>1. CASE NothingToRun(j)
    BY <2>1 DEF NothingToRun, WorkerGoto, runVars, controlVars
  <2>2. CASE AssignChild(j)
    <3>1. /\ effects' = effects /\ runs' = runs /\ jobs' = jobs
          /\ workers[j].pc = "popen" /\ workers' = [workers EXCEPT ![j].pc = "poll"]
      BY <2>2 DEF AssignChild, WorkerGoto, runVars, controlVars
    <3> QED
      BY <3>1
  <2>3. CASE Heartbeat(j)
    BY <2>3 DEF Heartbeat, runVars
  <2> QED
    BY <1>2, <2>1, <2>2, <2>3
<1>3. CASE Reap(j)
  BY <1>3 DEF Reap, runVars, controlVars
<1>4. CASE Publish(j) \/ Fail(j)
  BY <1>4 DEF Publish, Fail, WorkerGoto, runVars
<1>5. CASE Exit(j)
  BY <1>5, WorkerGone DEF Exit, WorkerEnds
<1>6. CASE RunNext(j) \/ RunVerify(j)
  <2>1. CASE WorkerGoto(j, "fail") /\ AtWorker(j, "next") /\ UNCHANGED <<runVars, controlVars>>
    BY <2>1 DEF WorkerGoto, runVars, controlVars
  <2>2. CASE Starts(j)
    <3>1. PICK k \in Kinds, op \in Operations :
            /\ AtWorker(j, "next") /\ runs' = runs /\ jobs' = jobs
            /\ effects' = [effects EXCEPT ![<<j, k>>] = op]
            /\ workers'[j].pc = "popen" /\ workers'[j].child = <<j, k>>
            /\ workers'[j].stopped = workers[j].stopped
            /\ workers'[j].act = workers[j].act \/ workers'[j].act = "resume"
            /\ workers'[j].act = "retry" /\ k # Solution => ~Complete(k) /\ Stage(k) = "absent"
      BY <2>2, NextKindIsFirst DEF Starts, controlVars
    <3>2. /\ effects'[<<j, k>>] = op /\ op # "none"
          /\ \A h \in Kinds : h # k => effects'[<<j, h>>] = effects[<<j, h>>]
      BY <3>1 DEF Effects, Operations
    <3>3. \A h \in Kinds : ~Alive(<<j, h>>)
      BY <3>1
    <3>4. workers'[j].act = "retry" => k = Solution
      <4> SUFFICES ASSUME workers'[j].act = "retry", k # Solution PROVE FALSE
        OBVIOUS
      <4>1. j \in 1..Len(jobs) /\ jobs[j] = "retry"
        BY <3>1, JobsAssumption DEF LaunchInv, ControlInv, ControlShape
      <4>2. PICK h \in Kinds : Stage(h) # "absent"
        BY <4>1 DEF OutcomesAreTrue
      <4>3. h = Solution
        BY <3>1, <4>2, OneKindBefore
      <4> QED
        BY <3>1, <4>2, <4>3 DEF OutcomesAreTrue
    <3> QED
      BY <3>1, <3>2, <3>3, <3>4
  <2> QED
    BY <1>6, <2>1, <2>2, RunsStart
<1> QED
  BY <1>1, <1>2, <1>3, <1>4, <1>5, <1>6 DEF WorkerStep

\* A worker moves by its own step, is forked, ends, or is told to stop at most.
SameWorker(j) ==
    /\ workers'[j].pc = workers[j].pc /\ workers'[j].act = workers[j].act
    /\ workers'[j].child = workers[j].child
    /\ workers'[j].stopped \in {workers[j].stopped, TRUE}

LEMMA WorkerCases ==
    ASSUME RootInv, ControlInv, [Next]_vars, NEW j \in Jobs
    PROVE  \/ WorkerStep(j)
           \/ \E p \in Processes : ForkWorker(p) /\ j = cli[p].job
           \/ workers'[j] = Dead
           \/ SameWorker(j) /\ EffectsKept(j)
<1> DEFINE Goal == \/ WorkerStep(j)
                   \/ \E p \in Processes : ForkWorker(p) /\ j = cli[p].job
                   \/ workers'[j] = Dead
                   \/ SameWorker(j) /\ EffectsKept(j)
<1> SUFFICES Goal
  OBVIOUS
<1>2. /\ \A k \in Kinds : <<j, k>> \in Effects
      /\ DOMAIN workers = Jobs /\ DOMAIN workers[j] = {"pc", "act", "stopped", "child"}
  BY DEF Effects, ControlInv, ControlShape
<1>3. ASSUME Calm PROVE EffectsKept(j)
  BY <1>2, <1>3 DEF Calm, EffectsKept
<1>4. ASSUME workers'[j] = workers[j] \/ workers'[j] = Dead, EffectsKept(j) PROVE Goal
  BY <1>4 DEF SameWorker
<1>5. ASSUME NEW p \in Processes, CliStep(p) \/ CliDies(p) \/ \E op \in Commands : Begin(p, op)
      PROVE  Goal
  <2>1. EffectsKept(j) /\ Calm
    BY <1>3, <1>5, CliStepsAreCalm
  <2>2. CASE ForkWorker(p)
    <3>1. CASE j = cli[p].job
      BY <2>2, <3>1
    <3>2. CASE j # cli[p].job
      BY <1>4, <2>1, <2>2, <3>2 DEF ForkWorker, ControlInv, ControlShape
    <3> QED
      BY <3>1, <3>2
  <2>3. CASE StopSignalsWorker(p)
    <3> DEFINE w == cli[p].worker
    <3>1. CASE workers' = [workers EXCEPT ![w].stopped = TRUE]
      BY <1>2, <2>1, <3>1 DEF SameWorker
    <3>2. CASE WorkerEnds(w)
      BY <1>2, <1>4, <2>1, <3>2 DEF WorkerEnds
    <3> QED
      BY <2>3, <3>1, <3>2 DEF StopSignalsWorker
  <2>4. CASE StopKills(p)
    BY <1>2, <1>4, <2>1, <2>4 DEF StopKills, WorkerEnds
  <2>5. CASE UNCHANGED workers
    BY <1>4, <2>1, <2>5
  <2>6. QueueStart(p) \/ OpenLock(p) \/ CheckLaunch(p) \/ QueueWorker(p) \/ Close(p) \/ Release(p)
          => UNCHANGED workers
    BY DEF QueueStart, OpenLock, CheckLaunch, QueueWorker, Close, Release
  <2>7. /\ StopReads(p) \/ StopSignalsEffect(p) \/ StopSeesExit(p) \/ StopRecords(p) \/ CliDies(p)
             => UNCHANGED workers
        /\ (\E op \in Commands : Begin(p, op)) => UNCHANGED workers
    BY DEF StopReads, StopSignalsEffect, StopSeesExit, StopRecords, CliDies, Begin
  <2> QED
    BY <1>5, <2>2, <2>3, <2>4, <2>5, <2>6, <2>7 DEF CliStep
<1>6. ASSUME NEW i \in Jobs, WorkerStep(i) PROVE Goal
  <2>1. CASE i = j
    BY <1>6, <2>1
  <2>2. CASE i # j
    <3>1. workers'[j] = workers[j]
      <4>1. CASE RunNext(i)
        BY <1>2, <2>2, <4>1 DEF RunNext, Spawn, WorkerGoto
      <4>2. CASE RunVerify(i)
        BY <1>2, <2>2, <4>2 DEF RunVerify, Spawn, WorkerGoto
      <4>3. CASE AcceptJob(i) \/ NothingToRun(i) \/ AssignChild(i) \/ Heartbeat(i)
        BY <1>2, <2>2, <4>3 DEF AcceptJob, NothingToRun, AssignChild, Heartbeat, WorkerGoto
      <4>4. CASE Reap(i) \/ Publish(i) \/ Fail(i) \/ Exit(i)
        BY <1>2, <2>2, <4>4 DEF Reap, Publish, Fail, Exit, WorkerGoto, WorkerEnds
      <4> QED
        BY <1>6, <4>1, <4>2, <4>3, <4>4 DEF WorkerStep
    <3>2. EffectsKept(j)
      <4>1. CASE RunNext(i) \/ RunVerify(i)
        <5>1. Starts(i) \/ effects' = effects
          BY <4>1, RunsStart DEF runVars
        <5> QED
          BY <1>2, <2>2, <5>1 DEF Starts, EffectsKept, RootInv, RootShape
      <4>2. CASE AcceptJob(i) \/ NothingToRun(i) \/ AssignChild(i) \/ Heartbeat(i)
        BY <4>2 DEF AcceptJob, NothingToRun, AssignChild, Heartbeat, runVars, EffectsKept
      <4>3. CASE Reap(i) \/ Publish(i) \/ Fail(i) \/ Exit(i)
        BY <4>3 DEF Reap, Publish, Fail, Exit, runVars, EffectsKept
      <4> QED
        BY <1>6, <4>1, <4>2, <4>3 DEF WorkerStep
    <3> QED
      BY <1>4, <3>1, <3>2
  <2> QED
    BY <2>1, <2>2
<1>7. CASE \E i \in Jobs : WorkerDies(i)
  BY <1>2, <1>4, <1>7 DEF WorkerDies, WorkerEnds, runVars, EffectsKept
<1>8. CASE Experiment /\ UNCHANGED <<controlVars, holders, cli, workers, deaths>>
  <2>1. ASSUME NEW e \in Effects, EffectStep(e) PROVE EffectsKept(j)
    BY <1>2, <2>1, EffectStepsAreLocal DEF EffectsKept
  <2>2. ASSUME NEW c \in calls, CallStep(c) PROVE EffectsKept(j)
    BY <2>2 DEF CallStep, CallWrites, OrphanEnds, EffectsKept
  <2> QED
    BY <1>4, <1>8, <2>1, <2>2 DEF Experiment
<1>9. ASSUME NEW S, Killed(S) PROVE EffectsKept(j)
  BY <1>2, <1>9 DEF Killed, EffectsKept
<1>10. CASE HostReboots
  BY <1>2, <1>4, <1>9, <1>10 DEF HostReboots
<1>11. CASE \E e \in Effects : EffectDies(e)
  BY <1>4, <1>9, <1>11 DEF EffectDies
<1>12. CASE (\E k \in Kinds : RemoveAbandonedLock(k)) /\ UNCHANGED workers
  BY <1>4, <1>12 DEF RemoveAbandonedLock, EffectsKept
<1>13. CASE UNCHANGED vars
  BY <1>4, <1>13 DEF vars, runVars, EffectsKept
<1> QED
  BY <1>5, <1>6, <1>7, <1>8, <1>10, <1>11, <1>12, <1>13 DEF Next

LEMMA WorkerIsTrueStep ==
    /\ RootInv /\ ControlInv /\ LaunchInv /\ OutcomesAreTrue /\ WorkerIsTrue
    /\ [Next]_vars
    => WorkerIsTrue'
<1> SUFFICES ASSUME RootInv, ControlInv, LaunchInv, OutcomesAreTrue, WorkerIsTrue, [Next]_vars,
                    NEW j \in Jobs
             PROVE  WorkerTrue(j)'
  BY DEF WorkerIsTrue
<1>1. JobKept(j) /\ WorkerTrue(j)
  BY JobsAreKept DEF WorkerIsTrue
<1>2. CASE WorkerStep(j)
  BY <1>1, <1>2, WorkerMoves
<1>3. ASSUME NEW p \in Processes, ForkWorker(p), j = cli[p].job PROVE WorkerTrue(j)'
  <2>1. workers[j].pc = "none"
    BY <1>3 DEF ForkWorker, AtCli, LaunchInv, Launching
  <2>2. /\ workers'[j].pc = "boot" /\ workers'[j].act = jobs[j] /\ jobs' = jobs
        /\ workers'[j].stopped = FALSE /\ effects' = effects
    BY <1>3 DEF ForkWorker, Unborn, controlVars, runVars, ControlInv, ControlShape
  <2> QED
    BY <1>1, <2>1, <2>2 DEF WorkerTrue, WorkerAlive, Alive, Live, Operations, Driving
<1>4. CASE workers'[j] = Dead
  BY <1>4, WorkerGone
<1>5. CASE SameWorker(j) /\ EffectsKept(j)
  BY <1>1, <1>5, WorkerStays DEF SameWorker
<1> QED
  BY <1>2, <1>3, <1>4, <1>5, WorkerCases

\* Only a worker that published its report writes "completed" or "verified".
LEMMA CompletedStep ==
    RootInv /\ ControlInv /\ WorkerIsTrue /\ CompletedIsTrue /\ [Next]_vars => CompletedIsTrue'
<1> SUFFICES ASSUME RootInv, ControlInv, WorkerIsTrue, CompletedIsTrue, [Next]_vars
             PROVE CompletedIsTrue'
  OBVIOUS
<1>1. Complete(Solution) => Complete(Solution)'
  BY NextIsRootStep, StagesMoveOn, SolutionIsKind DEF RootInv
<1>2. CASE UNCHANGED status
  BY <1>1, <1>2 DEF CompletedIsTrue
<1>3. ASSUME NEW p \in Processes, CliStep(p) PROVE CompletedIsTrue'
  <2>1. CASE QueueWorker(p)
    BY <2>1 DEF QueueWorker, WriteStatus, CompletedIsTrue
  <2>2. CASE StopRecords(p)
    BY <1>2, <2>2 DEF StopRecords, WriteStatus, CompletedIsTrue
  <2>3. CASE QueueStart(p) \/ OpenLock(p) \/ CheckLaunch(p) \/ ForkWorker(p) \/ Close(p) \/ Release(p)
    BY <1>2, <2>3 DEF QueueStart, OpenLock, CheckLaunch, ForkWorker, Close, Release, controlVars
  <2>4. CASE StopReads(p) \/ StopSignalsEffect(p) \/ StopSignalsWorker(p) \/ StopSeesExit(p) \/ StopKills(p)
    BY <1>2, <2>4 DEF StopReads, StopSignalsEffect, StopSignalsWorker, StopSeesExit, StopKills,
                      controlVars
  <2> QED
    BY <1>3, <2>1, <2>2, <2>3, <2>4 DEF CliStep
<1>4. ASSUME NEW j \in Jobs, WorkerStep(j) PROVE CompletedIsTrue'
  <2>1. CASE AcceptJob(j)
    BY <1>2, <2>1 DEF AcceptJob, WriteStatus, CompletedIsTrue
  <2>2. CASE Heartbeat(j) \/ Fail(j)
    BY <2>2 DEF Heartbeat, Fail, WriteStatus, CompletedIsTrue
  <2>3. CASE Publish(j)
    BY <1>1, <2>3 DEF Publish, AtWorker, WorkerIsTrue, WorkerTrue, CompletedIsTrue
  <2>4. CASE RunNext(j) \/ RunVerify(j) \/ NothingToRun(j) \/ AssignChild(j) \/ Reap(j) \/ Exit(j)
    BY <1>2, <2>4 DEF RunNext, RunVerify, NothingToRun, AssignChild, Reap, Exit, controlVars
  <2> QED
    BY <1>4, <2>1, <2>2, <2>3, <2>4 DEF WorkerStep
<1>5. CASE \E j \in Jobs : WorkerDies(j)
  BY <1>2, <1>5 DEF WorkerDies, controlVars
<1>6. CASE \E p \in Processes : CliDies(p) \/ \E op \in Commands : Begin(p, op)
  BY <1>2, <1>6 DEF CliDies, Begin, controlVars
<1>7. CASE HostReboots \/ \E e \in Effects : EffectDies(e)
  BY <1>2, <1>7 DEF HostReboots, EffectDies, controlVars
<1>8. CASE UNCHANGED controlVars \/ UNCHANGED vars
  BY <1>2, <1>8 DEF controlVars, vars
<1> QED
  BY <1>3, <1>4, <1>5, <1>6, <1>7, <1>8 DEF Next

\* A worker reaches "fail" without a stop only from an effect of its job that did
\* not end well, or before any effect of another kind of run was paid by a retry.
LEMMA RetryGoesOnStep ==
    /\ RootInv /\ ControlInv /\ LaunchInv /\ OutcomesAreTrue /\ WorkerIsTrue /\ RetryGoesOn
    /\ [Next]_vars
    => RetryGoesOn'
<1> SUFFICES ASSUME RootInv, ControlInv, LaunchInv, OutcomesAreTrue, WorkerIsTrue, RetryGoesOn,
                    [Next]_vars, NEW j \in Jobs, j \in DOMAIN jobs',
                    workers'[j].pc = "fail", jobs'[j] = "retry",
                    effects'[<<j, Solution>>] = "none",
                    \A k \in Kinds \ {Solution} : effects'[<<j, k>>] = "done"
             PROVE  workers'[j].stopped
  BY DEF RetryGoesOn, AtWorker
<1>1. JobKept(j) /\ WorkerTrue(j)
  BY JobsAreKept DEF WorkerIsTrue
<1>2. ASSUME WorkerAlive(j)
      PROVE  j \in DOMAIN jobs /\ j \in 1..Len(jobs) /\ jobs[j] = "retry"
  BY <1>1, <1>2, JobsAssumption DEF LaunchInv, ControlInv, ControlShape, JobKept, WorkerAlive
<1>3. CASE SameWorker(j) /\ EffectsKept(j)
  <2>1. AtWorker(j, "fail") /\ WorkerAlive(j)
    BY <1>3 DEF SameWorker, AtWorker, WorkerAlive
  <2>2. \A k \in Kinds : effects'[<<j, k>>] = effects[<<j, k>>]
    BY <1>1, <1>3, <2>1 DEF EffectsKept, WorkerTrue, AtWorker
  <2>3. workers[j].stopped
    BY <1>2, <2>1, <2>2, SolutionIsKind DEF RetryGoesOn
  <2> QED
    BY <1>3, <2>3 DEF SameWorker
<1>4. CASE WorkerStep(j)
  <2>0. /\ DOMAIN workers = Jobs /\ DOMAIN workers[j] = {"pc", "act", "stopped", "child"}
    BY DEF ControlInv, ControlShape
  <2>1. CASE AcceptJob(j)
    <3>1. workers[j].act = "verify" /\ WorkerAlive(j)
      BY <2>0, <2>1 DEF AcceptJob, WorkerGoto, AtWorker, WorkerAlive
    <3> QED
      BY <1>1, <1>2, <3>1 DEF WorkerTrue
  <2>2. CASE RunNext(j) \/ RunVerify(j)
    <3>1. WorkerGoto(j, "fail") /\ AtWorker(j, "next") /\ UNCHANGED runVars
      BY <2>2, RunsStart DEF Starts
    <3>2. CASE workers[j].stopped
      BY <2>0, <3>1, <3>2 DEF WorkerGoto
    <3>3. CASE Stage(Solution) = "absent" /\ workers[j].act = "retry"
      <4>1. WorkerAlive(j)
        BY <3>1 DEF AtWorker, WorkerAlive
      <4>2. PICK k \in Kinds : Stage(k) # "absent"
        BY <1>2, <4>1 DEF OutcomesAreTrue
      <4>3. k # Solution /\ effects[<<j, k>>] = "none"
        BY <1>1, <3>3, <4>1, <4>2 DEF WorkerTrue
      <4> QED
        BY <3>1, <4>2, <4>3 DEF runVars
    <3> QED
      BY <2>2, <3>2, <3>3, RunsStart DEF Starts
  <2>3. CASE Reap(j)
    <3>1. PICK k \in Kinds : workers[j].child = <<j, k>> /\ effects[<<j, k>>] # "none"
      BY <1>1, <2>3 DEF Reap, AtWorker, WorkerTrue
    <3>2. effects' = effects
      BY <2>3 DEF Reap, runVars
    <3>3. k # Solution /\ effects[<<j, k>>] = "done" /\ <<j, k>> \in Effects
      BY <3>1, <3>2 DEF Effects
    <3>4. Complete(<<j, k>>[2])
      BY <3>3 DEF OutcomesAreTrue
    <3> QED
      BY <2>0, <2>3, <3>1, <3>3, <3>4 DEF Reap, At
  <2>4. CASE NothingToRun(j) \/ AssignChild(j) \/ Publish(j) \/ Fail(j) \/ Exit(j)
    BY <2>0, <2>4 DEF NothingToRun, AssignChild, Publish, Fail, Exit, WorkerGoto, WorkerEnds,
                      Dead, Unborn
  <2>5. CASE Heartbeat(j)
    BY <2>5 DEF Heartbeat, AtWorker
  <2> QED
    BY <1>4, <2>1, <2>2, <2>3, <2>4, <2>5 DEF WorkerStep
<1>5. ASSUME NEW p \in Processes, ForkWorker(p), j = cli[p].job PROVE FALSE
  BY <1>5 DEF ForkWorker, Unborn, ControlInv, ControlShape
<1>6. CASE workers'[j] = Dead
  BY <1>6 DEF Dead, Unborn
<1> QED
  BY <1>3, <1>4, <1>5, <1>6, WorkerCases

LEMMA JobsAlwaysSound == Spec => []JobInv
<1>1. Init => JobInv
  <2> SUFFICES ASSUME Init PROVE JobInv
    OBVIOUS
  <2>1. /\ \A p \in Processes : cli[p].pc = "idle"
        /\ \A j \in Jobs : workers[j].pc = "none" /\ workers[j].stopped = FALSE
        /\ Len(jobs) = 0 /\ status = Null
        /\ \A j \in Jobs, k \in Kinds : effects[<<j, k>>] = "none"
        /\ \A e \in Effects : effects[e] = "none"
        /\ \A k \in Kinds : Stage(k) = "absent"
    BY DEF Init, InitRuns, Idle, Unborn, Effects, Absent, Stage
  <2>2. LaunchInv
    BY <2>1 DEF LaunchInv, Launching
  <2>3. OutcomesAreTrue
    <3>1. \A j \in 1..Len(jobs) : FALSE
      BY <2>1
    <3>2. Stage(Solution) = "absent" /\ \A j \in Jobs : effects[<<j, Solution>>] = "none"
      BY <2>1, SolutionIsKind
    <3>3. \A e \in Effects : effects[e] \notin {"verify", "done"}
      BY <2>1
    <3> QED
      BY <3>1, <3>2, <3>3 DEF OutcomesAreTrue
  <2>4. WorkerIsTrue
    BY <2>1 DEF WorkerIsTrue, WorkerTrue, WorkerAlive
  <2>5. CompletedIsTrue /\ RetryGoesOn
    BY <2>1 DEF CompletedIsTrue, RetryGoesOn, AtWorker
  <2> QED
    BY <2>2, <2>3, <2>4, <2>5 DEF JobInv
<1>2. RootInv /\ ControlInv /\ JobInv /\ [Next]_vars => JobInv'
  BY LaunchStep, OutcomesStep, WorkerIsTrueStep, CompletedStep, RetryGoesOnStep DEF JobInv
<1> QED
  BY <1>1, <1>2, RootsAlwaysSound, ControlAlwaysSound, PTL DEF Spec

\* What the status tells the operator is so: nothing runs behind "stopped", and
\* "completed" has its report.
THEOREM StatusStaysTrue == Spec => []StatusIsTrue
<1>1. ControlInv /\ JobInv => StatusIsTrue
  BY DEF ControlInv, JobInv, StatusIsTrue
<1> QED
  BY <1>1, ControlAlwaysSound, JobsAlwaysSound, PTL

\* A retry whose effect carried the harness run to its end tries the solution: only
\* a stop ends its job before.
THEOREM RetriesGoOn == Spec => []RetryGoesOn
<1>1. JobInv => RetryGoesOn
  BY DEF JobInv
<1> QED
  BY <1>1, JobsAlwaysSound, PTL
=============================================================================
