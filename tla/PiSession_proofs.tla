-------------------------- MODULE PiSession_proofs --------------------------
(***************************************************************************)
(* What the Pi extension promises, for every number of submissions and of  *)
(* sessions: at most one unfinished workflow in the registry, a log that   *)
(* is right about every dispatch, and reports of the own workflow only.    *)
(***************************************************************************)
EXTENDS PiSession, FiniteSetTheorems, TLAPS

-----------------------------------------------------------------------------
(* The registry.  A start command that holds the lock has seen no          *)
(* unfinished workflow, and makes the only one there can be.               *)

Unfinished == {a \in Workflows : ~Finished(a) /\ a \notin closed}
Holds(a) == starter[a] \in {"locked", "made", "written"}

RegistryInv ==
    /\ phase \in [Attempts -> Phases]
    /\ starter \in [Attempts -> StarterPcs]
    /\ \A a, b \in Attempts : Holds(a) /\ Holds(b) => a = b
    /\ \A a \in Attempts : starter[a] = "locked" => Unfinished = {}
    /\ \A a \in Attempts : starter[a] \in {"made", "written"} => Unfinished \subseteq {a}
    /\ \A a, b \in Unfinished : a = b
    /\ \A a \in Attempts :
         starter[a] \in {"written", "answered"} => phase[a] \notin {"absent", "made"}

\* What a command or a worker does to the start commands: none runs that was not
\* dispatched, and an answer stays an answer.
StartersGoOn ==
    \A a \in Attempts : /\ starter[a] = "none" <=> starter'[a] = "none"
                        /\ starter[a] = "answered" => starter'[a] = "answered"

(* A step that moves no start command and finishes or closes workflows     *)
(* only keeps the registry's invariant.                                    *)
LEMMA RegistryShrinks ==
    ASSUME RegistryInv, starter' = starter, phase' \in [Attempts -> Phases],
           Unfinished' \subseteq Unfinished,
           \A a \in Attempts : phase[a] \notin {"absent", "made"} => phase'[a] \notin {"absent", "made"}
    PROVE  RegistryInv'
  BY DEF RegistryInv, Holds

(* A worker's step finishes at most: what runs was unfinished before.      *)
LEMMA WorkerKeepsRegistry ==
    ASSUME RegistryInv, NEW a \in Attempts, WorkerStep(a)
    PROVE  RegistryInv' /\ StartersGoOn
  <1>1. PICK p \in {"running", "complete", "waiting", "stopped"} : PhaseBecomes(a, p)
    BY DEF WorkerStep
  <1>2. /\ phase[a] \in {"launched", "running", "verifying"}
        /\ phase[a] = "verifying" => p = "complete"
        /\ closed' = closed /\ starter' = starter
    BY <1>1 DEF WorkerStep, PhaseBecomes, RegistryInv
  <1>3. phase' \in [Attempts -> Phases]
    BY <1>1 DEF PhaseBecomes, RegistryInv, Phases
  <1>4. Unfinished' \subseteq Unfinished
    BY <1>1, <1>2 DEF Unfinished, Workflows, Finished, PhaseBecomes, RegistryInv
  <1>5. \A x \in Attempts : phase[x] \notin {"absent", "made"} => phase'[x] \notin {"absent", "made"}
    BY <1>1 DEF PhaseBecomes, RegistryInv
  <1> QED BY <1>2, <1>3, <1>4, <1>5, RegistryShrinks DEF StartersGoOn

(* A guarded effect of management starts nothing that was not unfinished.  *)
LEMMA EffectKeepsRegistry ==
    ASSUME RegistryInv, NEW a \in Attempts, NEW m \in Actions, Accepts(m, a), Effect(m, a)
    PROVE  RegistryInv' /\ StartersGoOn
  <1>1. starter' = starter /\ closed \subseteq closed'
    BY DEF Effect
  <1>2. CASE m = "close"
    <2>1. phase' = phase
      BY <1>2 DEF Effect
    <2>2. Unfinished' \subseteq Unfinished
      BY <1>1, <2>1 DEF Unfinished, Workflows, Finished
    <2> QED BY <1>1, <2>1, <2>2, RegistryShrinks DEF StartersGoOn, RegistryInv
  <1>3. CASE m # "close"
    <2>1. PICK p \in {"launched", "verifying", "complete", "waiting", "stopped"} : PhaseBecomes(a, p)
      BY <1>3 DEF Effect
    <2>2. /\ closed' = closed /\ phase[a] \notin {"absent", "made"}
          /\ Finished(a) => p \in {"complete", "verifying"}
      BY <1>3, <2>1 DEF Effect, Accepts, PhaseBecomes, RegistryInv, Actions, Finished
    <2>3. phase' \in [Attempts -> Phases]
      BY <2>1 DEF PhaseBecomes, RegistryInv, Phases
    <2>4. Unfinished' \subseteq Unfinished
      BY <2>1, <2>2 DEF Unfinished, Workflows, Finished, PhaseBecomes, RegistryInv
    <2>5. \A x \in Attempts : phase[x] \notin {"absent", "made"} => phase'[x] \notin {"absent", "made"}
      BY <2>1 DEF PhaseBecomes, RegistryInv
    <2> QED BY <1>1, <2>3, <2>4, <2>5, RegistryShrinks DEF StartersGoOn
  <1> QED BY <1>2, <1>3

(* One step of a start command.                                            *)
LEMMA StarterKeepsRegistry ==
    ASSUME RegistryInv, NEW a \in Attempts, StarterStep(a)
    PROVE  RegistryInv' /\ StartersGoOn
  <1>1. CASE Preflight(a) \/ StarterDies(a)
    <2>1. PICK pc \in {"checked", "refused", "dead"} :
            starter' = [starter EXCEPT ![a] = pc] /\ starter[a] \notin {"none", "answered"}
      BY <1>1 DEF Preflight, StarterDies, StarterGoto
    <2>2. phase' = phase /\ closed' = closed
      BY <1>1 DEF Preflight, StarterDies
    <2>3. Unfinished' = Unfinished
      BY <2>2 DEF Unfinished, Workflows, Finished
    <2> QED BY <2>1, <2>2, <2>3 DEF RegistryInv, StartersGoOn, Holds, StarterPcs
  <1>2. CASE LockRegistry(a)
    <2>1. phase' = phase /\ closed' = closed /\ starter[a] = "checked"
      BY <1>2 DEF LockRegistry
    <2>2. Unfinished' = Unfinished
      BY <2>1 DEF Unfinished, Workflows, Finished
    <2>3. CASE ~RegistryLocked /\ RegistryReadable /\ Blockers = {}
      <3>1. starter' = [starter EXCEPT ![a] = "locked"]
        BY <1>2, <2>3 DEF LockRegistry, StarterGoto
      <3>2. Unfinished = {} /\ \A x \in Attempts : ~Holds(x)
        BY <2>3 DEF Unfinished, Blockers, Blocks, RegistryLocked, Holds
      <3> QED BY <2>1, <2>2, <3>1, <3>2 DEF RegistryInv, StartersGoOn, Holds, StarterPcs
    <2>4. CASE ~(~RegistryLocked /\ RegistryReadable /\ Blockers = {})
      <3>1. starter' = [starter EXCEPT ![a] = "refused"]
        BY <1>2, <2>4 DEF LockRegistry, StarterGoto
      <3> QED BY <2>1, <2>2, <3>1 DEF RegistryInv, StartersGoOn, Holds, StarterPcs
    <2> QED BY <2>3, <2>4
  <1>3. CASE MakeDirectory(a) \/ WriteRequest(a)
    <2>1. PICK pc \in {"made", "written"} :
            /\ starter' = [starter EXCEPT ![a] = pc] /\ phase' = [phase EXCEPT ![a] = pc]
            /\ starter[a] \in {"locked", "made"} /\ closed' = closed
      BY <1>3 DEF MakeDirectory, WriteRequest, StarterGoto, PhaseBecomes
    <2>2. Unfinished \subseteq {a} /\ Unfinished' \subseteq Unfinished \cup {a}
      BY <2>1 DEF RegistryInv, Unfinished, Workflows, Finished
    <2>3. Unfinished' \subseteq {a}
      BY <2>2
    <2>4. /\ starter' \in [Attempts -> StarterPcs] /\ phase' \in [Attempts -> Phases]
          /\ \A x \in Attempts : x # a => starter'[x] = starter[x] /\ phase'[x] = phase[x] /\ ~Holds(x)
          /\ starter'[a] = pc /\ phase'[a] = pc
      BY <2>1 DEF RegistryInv, Holds, StarterPcs, Phases
    <2>5. CASE pc = "written"
      BY <2>1, <2>3, <2>4, <2>5 DEF RegistryInv, StartersGoOn, Holds
    <2>6. CASE pc = "made"
      BY <2>1, <2>3, <2>4, <2>6 DEF RegistryInv, StartersGoOn, Holds
    <2> QED BY <2>5, <2>6
  <1>4. CASE SpawnWorker(a)
    <2>1. PICK pc \in {"refused", "answered"} :
            starter' = [starter EXCEPT ![a] = pc] /\ closed' = closed /\ starter[a] = "written"
      BY <1>4 DEF SpawnWorker, StarterGoto
    <2>2. \/ phase' = phase
          \/ \E p \in {"verifying", "waiting", "launched"} : phase' = [phase EXCEPT ![a] = p]
      BY <1>4 DEF SpawnWorker, PhaseBecomes
    <2>3. Unfinished \subseteq {a} /\ Unfinished' \subseteq Unfinished \cup {a}
      BY <2>1, <2>2 DEF RegistryInv, Unfinished, Workflows, Finished
    <2>4. Unfinished' \subseteq {a}
      BY <2>3
    <2>5. /\ starter' \in [Attempts -> StarterPcs] /\ phase' \in [Attempts -> Phases]
          /\ \A x \in Attempts : x # a => starter'[x] = starter[x] /\ phase'[x] = phase[x] /\ ~Holds(x)
          /\ starter'[a] = pc /\ phase'[a] \notin {"absent", "made"}
      BY <2>1, <2>2 DEF RegistryInv, Holds, StarterPcs, Phases
    <2> QED BY <2>1, <2>4, <2>5 DEF RegistryInv, StartersGoOn, Holds
  <1> QED BY <1>1, <1>2, <1>3, <1>4 DEF StarterStep

(* The dispatch of a start command: the process it begins holds nothing.   *)
LEMMA DispatchKeepsRegistry ==
    ASSUME RegistryInv, NEW a \in Attempts, StarterGoto(a, "begun"), phase' = phase, closed' = closed
    PROVE  RegistryInv'
  <1>1. Unfinished' = Unfinished
    BY DEF Unfinished, Workflows, Finished
  <1> QED BY <1>1 DEF RegistryInv, StarterGoto, Holds, StarterPcs

-----------------------------------------------------------------------------
(* The session.                                                            *)

Pcs == {"idle", "checking", "choosing", "reviewing", "deriving", "drafting", "reading",
        "validating", "registering", "dispatching", "launching", "returned", "failing", "configuring"}
Ops == [pc : Pcs, attempt : Attempts \cup {Null}, calls : Nat, aborted : BOOLEAN, current : BOOLEAN]
Reads == [root : Attempts, current : BOOLEAN, first : BOOLEAN]

SessionTypes ==
    /\ log \in [Attempts -> {Null} \cup LogRecords]
    /\ reported \in [Sessions -> SUBSET Attempts]
    /\ session \in Sessions \cup {Null}
    /\ submission \in {Null} \cup Submissions
    /\ op \in Ops
    /\ reads \subseteq Reads
    /\ manage \in {Null} \cup [root : Attempts, tool : Tools, action : Actions]

\* The durable records: what was dispatched is not recorded as undispatched, and what is
\* recorded as launched has been acknowledged.
LogInv ==
    /\ DispatchIsRecorded
    /\ \A a \in Attempts : log[a] # Null /\ log[a].state = "launched" =>
           log[a].root = a /\ starter[a] = "answered"

\* The submission shown agrees with the command it may have dispatched and, once it is
\* launched, with the open session's own record.
SubmissionInv ==
    submission # Null =>
      /\ starter[submission.attempt] # "none" =>
             submission.state \in {"uncertain-dispatch", "launched"}
      /\ submission.state = "launched" =>
             /\ submission.root = submission.attempt
             /\ starter[submission.attempt] = "answered"
             /\ session # Null => /\ log[submission.attempt] # Null
                                  /\ log[submission.attempt].session = session

\* A preparation whose epoch is current prepares the submission shown, in an open
\* session; one whose epoch is over has been aborted.
OpInv ==
    /\ op.attempt = Null => op.pc \in {"idle", "configuring"}
    /\ op.attempt # Null =>
         /\ op.current = TRUE => /\ session # Null /\ submission # Null
                                 /\ submission.attempt = op.attempt
                                 /\ submission.state # "launched"
         /\ op.aborted = FALSE => op.current = TRUE
         /\ op.pc = "returned" => starter[op.attempt] = "answered"

\* A read of the current epoch reads the workflow the open session is bound to.
ReadsInv ==
    \A r \in reads : r.current = TRUE =>
        session # Null /\ submission # Null /\ submission.state = "launched" /\ submission.root = r.root

SessionInv == SessionTypes /\ LogInv /\ SubmissionInv /\ OpInv /\ ReadsInv
IInv == RegistryInv /\ SessionInv

(* The invariant says what the runs check.                                 *)
LEMMA InvariantImpliesLog ==
    ASSUME IInv
    PROVE  LogIsTrue
  BY DEF IInv, RegistryInv, SessionInv, LogInv, LogIsTrue, LaunchIsItsOwn

LEMMA InvariantImpliesOne ==
    ASSUME IInv
    PROVE  OneUnfinishedWorkflow
  <1>1. \A a, b \in Unfinished : a = b
    BY DEF IInv, RegistryInv
  <1>2. CASE Unfinished = {}
    BY <1>2, FS_EmptySet DEF OneUnfinishedWorkflow, Unfinished
  <1>3. CASE Unfinished # {}
    <2>1. PICK a \in Unfinished : TRUE
      BY <1>3
    <2>2. Unfinished = {a}
      BY <1>1, <2>1
    <2>3. Cardinality(Unfinished) = 1
      BY <2>2, FS_Singleton
    <2> QED BY <2>3 DEF OneUnfinishedWorkflow, Unfinished
  <1> QED BY <1>2, <1>3

(* Init and the fields of the record updates.                              *)
LEMMA InitHolds == Init => IInv
  BY NullAssumption DEF Init, InitRegistry, Idle, IInv, RegistryInv, SessionInv, SessionTypes, LogInv, SubmissionInv, OpInv, ReadsInv, DispatchIsRecorded, Unfinished, Workflows, Holds, Phases, StarterPcs, Ops, Pcs

(* The commands and the workers go on by themselves.                       *)
LEMMA OthersKeepSession ==
    ASSUME SessionInv, RegistryInv, StartersGoOn, UNCHANGED <<log, reported, hostVars>>
    PROVE  SessionInv'
  <1>1. SessionTypes' /\ ReadsInv'
    BY DEF SessionInv, SessionTypes, ReadsInv, hostVars
  <1>2. LogInv'
    BY DEF SessionInv, LogInv, DispatchIsRecorded, StartersGoOn, hostVars
  <1>3. SubmissionInv'
    BY DEF SessionInv, SessionTypes, SubmissionInv, StartersGoOn, hostVars, Submissions
  <1>4. OpInv'
    BY DEF SessionInv, SessionTypes, OpInv, StartersGoOn, hostVars, Ops
  <1> QED BY <1>1, <1>2, <1>3, <1>4 DEF SessionInv

(* What persistSubmission writes: the submission shown, under the open     *)
(* session, and no other attempt's record.                                 *)
LEMMA PersistWrites ==
    ASSUME SessionTypes, session \in Sessions, NEW next \in Submissions, Persist(next)
    PROVE  /\ submission' = next /\ next # Null
           /\ log' \in [Attempts -> {Null} \cup LogRecords]
           /\ log'[next.attempt] # Null
           /\ log'[next.attempt].session = session
           /\ log'[next.attempt].state = next.state
           /\ log'[next.attempt].root = next.root
           /\ \A a \in Attempts : a # next.attempt => log'[a] = log[a]
  <1> DEFINE record == [session |-> session, state |-> next.state, root |-> next.root]
  <1>1. record \in LogRecords /\ record # Null /\ next.attempt \in Attempts /\ next # Null
    BY NullAssumption DEF LogRecords, Submissions
  <1>2. log' = [log EXCEPT ![next.attempt] = record] /\ submission' = next
    BY DEF Persist
  <1>3. /\ record.session = session /\ record.state = next.state /\ record.root = next.root
    OBVIOUS
  <1> HIDE DEF record
  <1> QED BY <1>1, <1>2, <1>3 DEF SessionTypes

(* Persisting keeps the log's invariant: a record replaced by one that is  *)
(* right about its attempt.                                                *)
LEMMA PersistKeepsLog ==
    ASSUME SessionTypes, LogInv, session \in Sessions, session' \in {session, Null},
           NEW next \in Submissions, Persist(next),
           \A a \in Attempts : a # next.attempt => starter'[a] = starter[a],
           starter'[next.attempt] # "none" => next.state \in {"uncertain-dispatch", "launched"},
           next.state = "launched" => next.root = next.attempt /\ starter'[next.attempt] = "answered"
    PROVE  LogInv' /\ SubmissionInv'
  <1>1. /\ submission' = next /\ next # Null /\ next.attempt \in Attempts
        /\ log'[next.attempt] # Null
        /\ log'[next.attempt].session = session
        /\ log'[next.attempt].state = next.state
        /\ log'[next.attempt].root = next.root
        /\ \A a \in Attempts : a # next.attempt => log'[a] = log[a]
    BY PersistWrites DEF Submissions
  <1>2. LogInv'
    BY <1>1 DEF LogInv, DispatchIsRecorded
  <1>3. SubmissionInv'
    BY <1>1 DEF SubmissionInv
  <1> QED BY <1>2, <1>3

(* A step that only moves the preparation on, or ends it.                  *)
LEMMA OpMovesKeepSession ==
    ASSUME SessionInv, UNCHANGED <<starter, log, reported, session, submission, reads, manage>>,
           op' \in Ops,
           \/ op'.attempt = Null /\ op'.pc \in {"idle", "configuring"}
           \/ /\ op.attempt # Null /\ op'.attempt = op.attempt
              /\ op'.current = op.current
              /\ op'.aborted = FALSE => op.aborted = FALSE
              /\ op'.pc = "returned" => starter[op.attempt] = "answered"
    PROVE  SessionInv'
  <1>1. SessionTypes' /\ ReadsInv'
    BY DEF SessionInv, SessionTypes, ReadsInv
  <1>2. LogInv' /\ SubmissionInv'
    BY DEF SessionInv, LogInv, DispatchIsRecorded, SubmissionInv
  <1>3. OpInv'
    BY NullAssumption DEF SessionInv, OpInv
  <1> QED BY <1>1, <1>2, <1>3 DEF SessionInv

LEMMA GotoFields ==
    ASSUME op \in Ops, NEW pc \in Pcs, OpGoto(pc)
    PROVE  /\ op' \in Ops /\ op'.pc = pc /\ op'.attempt = op.attempt
           /\ op'.current = op.current /\ op'.aborted = op.aborted
  BY DEF OpGoto, Ops

LEMMA IdleFields ==
    /\ Idle \in Ops /\ Idle.pc = "idle" /\ Idle.attempt = Null
    /\ [Idle EXCEPT !.pc = "configuring"] \in Ops
    /\ [Idle EXCEPT !.pc = "configuring"].pc = "configuring"
    /\ [Idle EXCEPT !.pc = "configuring"].attempt = Null
  BY DEF Idle, Ops, Pcs

(* A preparation under way moves on, to its end or to a failure.           *)
LEMMA GotoKeepsSession ==
    ASSUME SessionInv, UNCHANGED <<starter, log, reported, session, submission, reads, manage>>,
           op.pc \notin {"idle", "configuring"}, NEW pc \in Pcs, OpGoto(pc),
           pc = "returned" => starter[op.attempt] = "answered"
    PROVE  SessionInv'
  <1>1. op \in Ops /\ op.attempt # Null
    BY DEF SessionInv, SessionTypes, OpInv
  <1>2. /\ op' \in Ops /\ op'.pc = pc /\ op'.attempt = op.attempt
        /\ op'.current = op.current /\ op'.aborted = op.aborted
    BY <1>1, GotoFields
  <1> QED BY <1>1, <1>2, OpMovesKeepSession

(* The steps before the dispatch and the return of the start command.      *)
LEMMA PreparingKeepsSession ==
    ASSUME SessionInv, CheckRegistry \/ Prepare \/ StartReturns
    PROVE  SessionInv'
  <1>1. /\ UNCHANGED <<starter, log, reported, session, submission, reads, manage>>
        /\ op \in Ops
    BY DEF CheckRegistry, Prepare, StartReturns, ChooseRepository, ReviewExecution, Derive,
           DraftTask, ReadInputs, ValidateDraft, RegisterTask, Passes, registryVars, SessionInv, SessionTypes
  <1>2. ASSUME NEW from \in Pcs \ {"idle", "configuring"}, NEW next \in Pcs \ {"returned"}, Passes(from, next)
        PROVE  SessionInv'
    <2>1. PICK pc \in {"failing", next} : OpGoto(pc)
      BY <1>2 DEF Passes
    <2>2. pc \in Pcs /\ pc # "returned" /\ op.pc \notin {"idle", "configuring"}
      BY <1>2, <2>1 DEF Passes, Pcs
    <2> QED BY <1>1, <2>1, <2>2, GotoKeepsSession
  <1>3. CASE CheckRegistry
    <2>1. PICK pc \in {"failing", "choosing"} : OpGoto(pc)
      BY <1>3 DEF CheckRegistry
    <2>2. pc \in Pcs /\ pc # "returned" /\ op.pc \notin {"idle", "configuring"}
      BY <1>3, <2>1 DEF CheckRegistry, Pcs
    <2> QED BY <1>1, <2>1, <2>2, GotoKeepsSession
  <1>4. CASE Prepare
    <2>1. CASE DraftTask
      <3>1. CASE OpGoto("failing")
        <4>1. "failing" \in Pcs /\ op.pc \notin {"idle", "configuring"}
          BY <2>1 DEF DraftTask, Pcs
        <4> QED BY <1>1, <3>1, <4>1, GotoKeepsSession
      <3>2. ASSUME NEW n \in Nat, NEW pc \in {"reading", "failing", "validating"},
                   op' = [op EXCEPT !.calls = n, !.pc = pc]
            PROVE  SessionInv'
        <4>1. /\ op' \in Ops /\ op'.pc = pc /\ op'.attempt = op.attempt
              /\ op'.current = op.current /\ op'.aborted = op.aborted
          BY <1>1, <3>2 DEF Ops, Pcs
        <4>2. op.attempt # Null /\ op'.pc # "returned"
          BY <2>1, <4>1 DEF DraftTask, SessionInv, OpInv
        <4> QED BY <1>1, <4>1, <4>2, OpMovesKeepSession
      <3>3. op.calls + 1 \in Nat
        BY <1>1 DEF Ops
      <3>4. \/ OpGoto("failing")
            \/ op' = [op EXCEPT !.calls = op.calls + 1, !.pc = "reading"]
            \/ op' = [op EXCEPT !.calls = op.calls + 1, !.pc = "failing"]
            \/ op' = [op EXCEPT !.calls = 0, !.pc = "validating"]
        BY <2>1 DEF DraftTask
      <3> QED BY <3>1, <3>2, <3>3, <3>4
    <2>2. CASE ~DraftTask
      BY <1>2, <1>4, <2>2 DEF Prepare, ChooseRepository, ReviewExecution, Derive, ReadInputs,
                              ValidateDraft, RegisterTask, Pcs
    <2> QED BY <2>1, <2>2
  <1>5. CASE StartReturns
    <2>1. PICK pc \in {"failing", "returned"} :
            OpGoto(pc) /\ (pc = "returned" => starter[op.attempt] = "answered")
      BY <1>5 DEF StartReturns
    <2>2. pc \in Pcs /\ op.pc \notin {"idle", "configuring"}
      BY <1>5, <2>1 DEF StartReturns, Pcs
    <2> QED BY <1>1, <2>1, <2>2, GotoKeepsSession
  <1> QED BY <1>3, <1>4, <1>5

(* A workflow configuration, its end, and an abort.                        *)
LEMMA ConfiguringKeepsSession ==
    ASSUME SessionInv, Configure \/ EndConfigure \/ Abort
    PROVE  SessionInv'
  <1>1. /\ UNCHANGED <<starter, log, reported, session, submission, reads, manage>>
        /\ op \in Ops
    BY DEF Configure, EndConfigure, Abort, registryVars, SessionInv, SessionTypes
  <1>2. CASE Configure \/ EndConfigure
    <2>1. op' = Idle \/ op' = [Idle EXCEPT !.pc = "configuring"]
      BY <1>2 DEF Configure, EndConfigure
    <2>2. op' \in Ops /\ op'.attempt = Null /\ op'.pc \in {"idle", "configuring"}
      BY <2>1, IdleFields
    <2> QED BY <1>1, <2>2, OpMovesKeepSession
  <1>3. CASE Abort
    <2>1. \E b \in BOOLEAN : op' = [op EXCEPT !.aborted = b] /\ (op.attempt # Null => b = TRUE)
      BY <1>3 DEF Abort
    <2>2. /\ op' \in Ops /\ op'.pc = op.pc /\ op'.attempt = op.attempt /\ op'.current = op.current
          /\ op.attempt # Null => op'.aborted = TRUE
      BY <1>1, <2>1 DEF Ops
    <2>3. CASE op.attempt = Null
      BY <1>1, <2>2, <2>3, OpMovesKeepSession DEF SessionInv, OpInv
    <2>4. CASE op.attempt # Null
      BY <1>1, <2>2, <2>4, OpMovesKeepSession DEF SessionInv, OpInv
    <2> QED BY <2>3, <2>4
  <1> QED BY <1>2, <1>3

(* What stopWorkflowMonitor leaves of the reads: none that is current.     *)
LEMMA StaleReads ==
    ASSUME reads \subseteq Reads
    PROVE  Stale(reads) \subseteq Reads /\ \A r \in Stale(reads) : r.current = FALSE
  BY DEF Stale, Reads

LEMMA MonitorStarts ==
    ASSUME SessionTypes, NEW sub \in {Null} \cup Submissions, StartMonitor(sub),
           sub # Null /\ sub.state = "launched" => sub.root \in Attempts
    PROVE  /\ reads' \subseteq Reads
           /\ \A r \in reads' : r.current = TRUE =>
                  sub # Null /\ sub.state = "launched" /\ sub.root = r.root
  <1>1. Stale(reads) \subseteq Reads /\ \A r \in Stale(reads) : r.current = FALSE
    BY StaleReads DEF SessionTypes
  <1>2. \A root \in Attempts : FirstRead(root) \in Reads /\ FirstRead(root).root = root
    BY DEF FirstRead, Reads
  <1>3. CASE sub # Null /\ sub.state = "launched"
    <2>1. reads' = Stale(reads) \cup {FirstRead(sub.root)}
      BY <1>3 DEF StartMonitor
    <2> QED BY <1>1, <1>2, <1>3, <2>1
  <1>4. CASE ~(sub # Null /\ sub.state = "launched")
    <2>1. reads' = Stale(reads)
      BY <1>4 DEF StartMonitor
    <2> QED BY <1>1, <2>1
  <1> QED BY <1>3, <1>4

(* session_start: what is restored is owned by the session that opens.     *)
LEMMA StartKeepsSession ==
    ASSUME SessionInv, NEW s \in Sessions, SessionStart(s)
    PROVE  SessionInv'
  <1>1. PICK sub \in Restorable(s) : submission' = sub /\ StartMonitor(sub)
    BY DEF SessionStart
  <1>2. /\ UNCHANGED <<starter, log, reported, manage>> /\ session = Null /\ session' = s /\ s # Null
        /\ op' = [op EXCEPT !.current = FALSE]
    BY NullAssumption DEF SessionStart, registryVars
  <1>3. CASE sub = Null
    <2>1. reads' \subseteq Reads /\ \A r \in reads' : r.current # TRUE
      BY <1>1, <1>3, MonitorStarts DEF SessionInv
    <2> QED BY <1>1, <1>2, <1>3, <2>1 DEF SessionInv, SessionTypes, LogInv, DispatchIsRecorded, SubmissionInv, OpInv, ReadsInv, Ops
  <1>4. CASE sub # Null
    <2>1. PICK a \in Owned(s) :
            sub = [attempt |-> a, root |-> log[a].root,
                   state |-> IF log[a].state = "preparing" THEN "not-launched" ELSE log[a].state]
      BY <1>1, <1>4 DEF Restorable
    <2>2. /\ a \in Attempts /\ log[a] # Null /\ log[a].session = s /\ log[a] \in LogRecords
          /\ sub.attempt = a /\ sub.root = log[a].root
          /\ sub.state = "launched" => log[a].state = "launched"
          /\ log[a].state \in {"uncertain-dispatch", "launched"} => sub.state = log[a].state
          /\ sub \in Submissions
      BY <2>1 DEF Owned, SessionInv, SessionTypes, LogRecords, Submissions, States
    <2>3. sub.state = "launched" => sub.root = a /\ starter[a] = "answered"
      BY <2>2 DEF SessionInv, LogInv
    <2>4. starter[a] # "none" => sub.state \in {"uncertain-dispatch", "launched"}
      BY <2>2 DEF SessionInv, LogInv, DispatchIsRecorded
    <2>5. /\ reads' \subseteq Reads
          /\ \A r \in reads' : r.current = TRUE =>
                 sub # Null /\ sub.state = "launched" /\ sub.root = r.root
      BY <1>1, <2>2, <2>3, MonitorStarts DEF SessionInv
    <2>6. SubmissionInv' /\ ReadsInv'
      BY <1>1, <1>2, <2>2, <2>3, <2>4, <2>5 DEF SubmissionInv, ReadsInv
    <2> QED BY <1>1, <1>2, <2>2, <2>5, <2>6 DEF SessionInv, SessionTypes, LogInv, DispatchIsRecorded, OpInv, Ops
  <1> QED BY <1>3, <1>4

(* session_shutdown.                                                       *)
LEMMA ShutdownKeepsSession ==
    ASSUME SessionInv, Shutdown
    PROVE  SessionInv'
  <1>1. /\ UNCHANGED <<starter, reported, manage>> /\ session \in Sessions /\ session' = Null
        /\ reads' = Stale(reads)
    BY DEF Shutdown, registryVars, SessionInv, SessionTypes
  <1>2. \E b \in BOOLEAN : /\ op' = [op EXCEPT !.aborted = b, !.current = FALSE]
                           /\ op.attempt # Null => b = TRUE
    BY DEF Shutdown
  <1>3. /\ op' \in Ops /\ op'.pc = op.pc /\ op'.attempt = op.attempt
        /\ op'.current = FALSE /\ (op.attempt # Null => op'.aborted = TRUE)
    BY <1>2 DEF SessionInv, SessionTypes, Ops
  <1>4. OpInv'
    BY <1>1, <1>3 DEF SessionInv, OpInv
  <1>5. reads' \subseteq Reads /\ ReadsInv'
    BY <1>1, StaleReads DEF SessionInv, SessionTypes, ReadsInv
  <1>6. CASE Showing("preparing")
    <2> DEFINE next == [submission EXCEPT !.state = "cancelled"]
    <2>1. /\ next \in Submissions /\ next.attempt = submission.attempt /\ next.state = "cancelled"
          /\ starter[submission.attempt] = "none" /\ submission.attempt \in Attempts
      BY <1>6 DEF Showing, SessionInv, SessionTypes, SubmissionInv, Submissions, States
    <2>2. Persist(next)
      BY <1>6 DEF Shutdown
    <2> HIDE DEF next
    <2>3. LogInv' /\ SubmissionInv'
      BY <1>1, <2>1, <2>2, PersistKeepsLog DEF SessionInv
    <2>4. log' \in [Attempts -> {Null} \cup LogRecords] /\ submission' = next
      BY <1>1, <2>1, <2>2, PersistWrites DEF SessionInv
    <2> QED BY <1>1, <1>3, <1>4, <1>5, <2>1, <2>3, <2>4 DEF SessionInv, SessionTypes
  <1>7. CASE ~Showing("preparing")
    <2>1. UNCHANGED <<log, submission>>
      BY <1>7 DEF Shutdown
    <2> QED BY <1>1, <1>3, <1>4, <1>5, <2>1 DEF SessionInv, SessionTypes, LogInv, DispatchIsRecorded, SubmissionInv
  <1> QED BY <1>6, <1>7

(* The process dies: only the log and the registry remain.                 *)
LEMMA DeathKeepsSession ==
    ASSUME SessionInv, HostDies
    PROVE  SessionInv'
  BY IdleFields DEF HostDies, registryVars, SessionInv, SessionTypes, LogInv, DispatchIsRecorded, SubmissionInv, OpInv, ReadsInv

(* A request is queued: its start command was never dispatched.            *)
LEMMA QueueKeepsSession ==
    ASSUME SessionInv, Queue
    PROVE  SessionInv'
  <1>1. PICK a \in Attempts :
          /\ log[a] = Null
          /\ op' = [Idle EXCEPT !.pc = "checking", !.attempt = a, !.current = TRUE]
          /\ Persist([attempt |-> a, state |-> "preparing", root |-> Null])
    BY DEF Queue
  <1> DEFINE next == [attempt |-> a, state |-> "preparing", root |-> Null]
  <1>2. /\ UNCHANGED <<starter, reported, manage>> /\ session \in Sessions /\ session' = session
        /\ reads' = Stale(reads)
    BY DEF Queue, Free, registryVars, SessionInv, SessionTypes
  <1>3. next \in Submissions /\ next.attempt = a /\ next.state = "preparing"
    BY DEF Submissions, States, Roots
  <1>4. /\ op' \in Ops /\ op'.pc = "checking" /\ op'.attempt = a
        /\ op'.current = TRUE /\ op'.aborted = FALSE
    BY <1>1 DEF Idle, Ops, Pcs
  <1> HIDE DEF next
  <1>5. starter[a] = "none"
    BY <1>1 DEF SessionInv, LogInv, DispatchIsRecorded
  <1>6. Persist(next)
    BY <1>1 DEF next
  <1>7. LogInv' /\ SubmissionInv'
    BY <1>2, <1>3, <1>5, <1>6, PersistKeepsLog DEF SessionInv
  <1>8. submission' = next /\ next # Null /\ log' \in [Attempts -> {Null} \cup LogRecords]
    BY <1>2, <1>3, <1>6, PersistWrites DEF SessionInv
  <1>9. reads' \subseteq Reads /\ ReadsInv'
    BY <1>2, StaleReads DEF SessionInv, SessionTypes, ReadsInv
  <1>10. OpInv'
    BY <1>2, <1>3, <1>4, <1>8, NullAssumption DEF OpInv
  <1> QED BY <1>2, <1>3, <1>4, <1>7, <1>8, <1>9, <1>10 DEF SessionInv, SessionTypes

(* The dispatch: recorded as uncertain in the step that begins the command. *)
LEMMA DispatchKeepsSession ==
    ASSUME SessionInv, RegistryInv, Dispatch
    PROVE  SessionInv' /\ RegistryInv'
  <1>1. /\ phase' = phase /\ closed' = closed /\ reported' = reported /\ session' = session
        /\ reads' = reads /\ manage' = manage
        /\ op \in Ops /\ op.pc = "dispatching" /\ op.attempt \in Attempts /\ op.attempt # Null
    BY DEF Dispatch, SessionInv, SessionTypes, OpInv, Ops
  <1>2. CASE op.aborted = TRUE
    <2>1. OpGoto("failing") /\ UNCHANGED <<starter, log, submission>>
      BY <1>2 DEF Dispatch
    <2>2. SessionInv'
      BY <1>1, <2>1, GotoKeepsSession DEF Pcs
    <2> QED BY <1>1, <2>1, <2>2 DEF RegistryInv, Holds, Unfinished, Workflows, Finished
  <1>3. CASE op.aborted = FALSE
    <2> DEFINE next == [submission EXCEPT !.state = "uncertain-dispatch"]
    <2>1. Persist(next) /\ StarterGoto(op.attempt, "begun") /\ OpGoto("launching")
      BY <1>3 DEF Dispatch
    <2>2. /\ op.current = TRUE /\ session \in Sessions /\ submission \in Submissions
          /\ submission.attempt = op.attempt /\ submission.state # "launched"
      BY <1>1, <1>3 DEF SessionInv, SessionTypes, OpInv
    <2>3. next \in Submissions /\ next.attempt = op.attempt /\ next.state = "uncertain-dispatch"
      BY <2>2 DEF Submissions, States
    <2> HIDE DEF next
    <2>4. starter' = [starter EXCEPT ![op.attempt] = "begun"] /\ starter \in [Attempts -> StarterPcs]
      BY <2>1 DEF StarterGoto, RegistryInv
    <2>5. LogInv' /\ SubmissionInv'
      BY <1>1, <2>1, <2>2, <2>3, <2>4, PersistKeepsLog DEF SessionInv
    <2>6. submission' = next /\ next # Null /\ log' \in [Attempts -> {Null} \cup LogRecords]
      BY <2>1, <2>2, <2>3, PersistWrites DEF SessionInv
    <2>7. /\ op' \in Ops /\ op'.pc = "launching" /\ op'.attempt = op.attempt
          /\ op'.current = op.current /\ op'.aborted = op.aborted
      BY <1>1, <2>1, GotoFields DEF Pcs
    <2>8. OpInv'
      BY <1>1, <2>2, <2>3, <2>6, <2>7, NullAssumption DEF OpInv
    <2>9. ReadsInv'
      BY <1>1, <2>2 DEF SessionInv, ReadsInv
    <2>10. RegistryInv'
      BY <1>1, <2>1, DispatchKeepsRegistry
    <2> QED BY <1>1, <2>3, <2>5, <2>6, <2>7, <2>8, <2>9, <2>10 DEF SessionInv, SessionTypes
  <1> QED BY <1>1, <1>2, <1>3 DEF Ops

(* The acknowledgement: the command has answered, so its workflow is there. *)
LEMMA AcknowledgeKeepsSession ==
    ASSUME SessionInv, Acknowledge
    PROVE  SessionInv'
  <1>1. /\ UNCHANGED <<starter, reported, session, manage>>
        /\ op \in Ops /\ op.pc = "returned" /\ op.attempt \in Attempts /\ op.attempt # Null
        /\ starter[op.attempt] = "answered"
    BY DEF Acknowledge, registryVars, SessionInv, SessionTypes, OpInv, Ops
  <1>2. CASE session # Null /\ op.current = TRUE
    <2> DEFINE next == [submission EXCEPT !.state = "launched", !.root = op.attempt]
    <2>1. Persist(next) /\ StartMonitor(next) /\ op' = Idle
      BY <1>2 DEF Acknowledge
    <2>2. session \in Sessions /\ submission \in Submissions /\ submission.attempt = op.attempt
      BY <1>1, <1>2 DEF SessionInv, SessionTypes, OpInv
    <2>3. /\ next \in Submissions /\ next.attempt = op.attempt /\ next.state = "launched"
          /\ next.root = op.attempt
      BY <1>1, <2>2 DEF Submissions, States, Roots
    <2> HIDE DEF next
    <2>4. LogInv' /\ SubmissionInv'
      BY <1>1, <2>1, <2>2, <2>3, PersistKeepsLog DEF SessionInv
    <2>5. submission' = next /\ next # Null /\ log' \in [Attempts -> {Null} \cup LogRecords]
      BY <2>1, <2>2, <2>3, PersistWrites DEF SessionInv
    <2>6. reads' \subseteq Reads /\ ReadsInv'
      BY <1>1, <1>2, <2>1, <2>3, <2>5, MonitorStarts DEF SessionInv, ReadsInv
    <2>7. op' \in Ops /\ OpInv'
      BY <2>1, IdleFields DEF OpInv
    <2> QED BY <1>1, <2>3, <2>4, <2>5, <2>6, <2>7 DEF SessionInv, SessionTypes
  <1>3. CASE ~(session # Null /\ op.current = TRUE)
    <2>1. OpGoto("failing") /\ UNCHANGED <<log, submission, reads, ticking>>
      BY <1>1, <1>3 DEF Acknowledge, Ops
    <2> QED BY <1>1, <2>1, GotoKeepsSession DEF Pcs
  <1> QED BY <1>2, <1>3

(* The end of a failed preparation.                                        *)
LEMMA FailKeepsSession ==
    ASSUME SessionInv, Fail
    PROVE  SessionInv'
  <1>1. /\ UNCHANGED <<starter, reported, session, reads, manage>> /\ op' = Idle
        /\ op \in Ops /\ op.attempt \in Attempts /\ op.attempt # Null
    BY DEF Fail, registryVars, SessionInv, SessionTypes, OpInv, Ops
  <1>2. op' \in Ops /\ OpInv' /\ op'.attempt = Null /\ op'.pc = "idle"
    BY <1>1, IdleFields DEF OpInv
  <1>3. CASE session # Null /\ op.current = TRUE /\ ~Launched
    <2>1. PICK state \in {"uncertain-dispatch", "cancelled", "not-launched", "failed"} :
            /\ Persist([submission EXCEPT !.state = state])
            /\ Showing("uncertain-dispatch") => state = "uncertain-dispatch"
      BY <1>3 DEF Fail
    <2> DEFINE next == [submission EXCEPT !.state = state]
    <2>2. /\ session \in Sessions /\ submission \in Submissions /\ submission # Null
          /\ submission.attempt \in Attempts
          /\ next \in Submissions /\ next.attempt = submission.attempt /\ next.state = state
      BY <1>1, <1>3, <2>1 DEF SessionInv, SessionTypes, OpInv, Submissions, States
    <2>3. Persist(next)
      BY <2>1
    <2> HIDE DEF next
    <2>4. starter[next.attempt] # "none" => next.state = "uncertain-dispatch"
      BY <1>3, <2>1, <2>2 DEF SessionInv, SubmissionInv, Showing, Launched
    <2>5. LogInv' /\ SubmissionInv'
      BY <1>1, <2>1, <2>2, <2>3, <2>4, PersistKeepsLog DEF SessionInv
    <2>6. submission' = next /\ next # Null /\ log' \in [Attempts -> {Null} \cup LogRecords]
      BY <2>2, <2>3, PersistWrites DEF SessionInv
    <2>7. ReadsInv'
      BY <1>1, <1>3 DEF SessionInv, ReadsInv, Launched
    <2> QED BY <1>1, <1>2, <2>2, <2>5, <2>6, <2>7 DEF SessionInv, SessionTypes
  <1>4. CASE ~(session # Null /\ op.current = TRUE /\ ~Launched)
    <2>1. UNCHANGED <<log, submission>>
      BY <1>1, <1>4 DEF Fail, Ops
    <2> QED BY <1>1, <1>2, <2>1, OpMovesKeepSession
  <1> QED BY <1>3, <1>4

(* A read of the workflow bound now, or none.                              *)
LEMMA ReadBegins ==
    ASSUME SessionInv
    PROVE  /\ BeginRead(reads) \subseteq Reads
           /\ \A r \in BeginRead(reads) : r.current = TRUE =>
                /\ session # Null /\ submission # Null
                /\ submission.state = "launched" /\ submission.root = r.root
  <1> DEFINE read == [root |-> submission.root, current |-> TRUE, first |-> FALSE]
  <1>1. CASE session # Null /\ Launched /\ ~Reading
    <2>1. read \in Reads /\ read.root = submission.root
      BY <1>1 DEF Launched, SessionInv, SessionTypes, SubmissionInv, Submissions, Reads
    <2>2. BeginRead(reads) = reads \cup {read}
      BY <1>1 DEF BeginRead
    <2> HIDE DEF read
    <2> QED BY <1>1, <2>1, <2>2 DEF SessionInv, SessionTypes, ReadsInv, Launched
  <1>2. CASE ~(session # Null /\ Launched /\ ~Reading)
    <2>1. BeginRead(reads) = reads
      BY <1>2 DEF BeginRead
    <2> QED BY <2>1 DEF SessionInv, SessionTypes, ReadsInv
  <1> QED BY <1>1, <1>2

(* A step that changes what is read, what is reported or what is managed.  *)
LEMMA ReadingKeepsSession ==
    ASSUME SessionInv, StartersGoOn, UNCHANGED <<log, session, submission, op>>,
           reads' \subseteq Reads,
           \A r \in reads' : r.current = TRUE =>
                /\ session # Null /\ submission # Null
                /\ submission.state = "launched" /\ submission.root = r.root,
           reported' \in [Sessions -> SUBSET Attempts],
           manage' \in {Null} \cup [root : Attempts, tool : Tools, action : Actions]
    PROVE  SessionInv'
  <1>1. SessionTypes' /\ ReadsInv'
    BY DEF SessionInv, SessionTypes, ReadsInv
  <1>2. LogInv'
    BY DEF SessionInv, LogInv, DispatchIsRecorded, StartersGoOn
  <1>3. SubmissionInv'
    BY DEF SessionInv, SessionTypes, SubmissionInv, StartersGoOn, Submissions
  <1>4. OpInv'
    BY DEF SessionInv, SessionTypes, OpInv, StartersGoOn, Ops
  <1> QED BY <1>1, <1>2, <1>3, <1>4 DEF SessionInv

(* The monitor.                                                            *)
LEMMA MonitorKeepsSession ==
    ASSUME SessionInv, Tick \/ \E r \in reads : EndRead(r)
    PROVE  SessionInv'
  <1>1. /\ UNCHANGED <<log, session, submission, op, manage>> /\ StartersGoOn
    BY DEF Tick, EndRead, registryVars, StartersGoOn
  <1>2. CASE Tick
    <2>1. reads' = BeginRead(reads) /\ reported' = reported
      BY <1>2 DEF Tick
    <2> QED BY <1>1, <2>1, ReadBegins, ReadingKeepsSession DEF SessionInv, SessionTypes
  <1>3. ASSUME NEW r \in reads, EndRead(r)
        PROVE  SessionInv'
    <2>1. reads' \subseteq reads /\ r.root \in Attempts
      BY <1>3 DEF EndRead, SessionInv, SessionTypes, Reads
    <2>2. reported' \in [Sessions -> SUBSET Attempts]
      BY <1>3, <2>1 DEF EndRead, SessionInv, SessionTypes
    <2> QED BY <1>1, <2>1, <2>2, ReadingKeepsSession DEF SessionInv, SessionTypes, ReadsInv
  <1> QED BY <1>2, <1>3

(* Management: a request, and its guarded effect.                          *)
LEMMA ManageKeepsSession ==
    ASSUME SessionInv, NEW a \in Attempts, NEW t \in Tools, NEW m \in Actions, Manage(a, t, m)
    PROVE  SessionInv'
  <1>1. UNCHANGED <<log, session, submission, op, reads, reported>> /\ StartersGoOn
    BY DEF Manage, registryVars, StartersGoOn
  <1>2. manage' \in [root : Attempts, tool : Tools, action : Actions]
    BY DEF Manage
  <1> QED BY <1>1, <1>2, ReadingKeepsSession DEF SessionInv, SessionTypes, ReadsInv

LEMMA EffectKeepsSession ==
    ASSUME SessionInv, RegistryInv, TakeEffect
    PROVE  SessionInv' /\ RegistryInv'
  <1>1. /\ UNCHANGED <<log, reported, session, submission, op>> /\ manage' = Null
        /\ manage.root \in Attempts /\ manage.action \in Actions
    BY DEF TakeEffect, SessionInv, SessionTypes
  <1>2. RegistryInv' /\ StartersGoOn
    <2>1. CASE Accepts(manage.action, manage.root)
      BY <1>1, <2>1, EffectKeepsRegistry DEF TakeEffect
    <2>2. CASE ~Accepts(manage.action, manage.root)
      BY <2>2 DEF TakeEffect, registryVars, RegistryInv, Holds, Unfinished, Workflows, Finished, StartersGoOn
    <2> QED BY <2>1, <2>2
  <1>3. reads' = reads \/ reads' = Stale(reads) \/ reads' = BeginRead(reads)
    BY DEF TakeEffect
  <1>4. CASE reads' = reads
    BY <1>1, <1>2, <1>4, ReadingKeepsSession DEF SessionInv, SessionTypes, ReadsInv
  <1>5. CASE reads' = Stale(reads)
    BY <1>1, <1>2, <1>5, StaleReads, ReadingKeepsSession DEF SessionInv, SessionTypes
  <1>6. CASE reads' = BeginRead(reads)
    BY <1>1, <1>2, <1>6, ReadBegins, ReadingKeepsSession DEF SessionInv, SessionTypes
  <1> QED BY <1>2, <1>3, <1>4, <1>5, <1>6

-----------------------------------------------------------------------------
(* The specification.                                                      *)

LEMMA StepKeepsInvariant == IInv /\ [Next]_vars => IInv'
  <1> SUFFICES ASSUME IInv, [Next]_vars PROVE IInv'
    OBVIOUS
  <1>1. RegistryInv /\ SessionInv
    BY DEF IInv
  <1>2. ASSUME UNCHANGED registryVars
        PROVE  RegistryInv'
    BY <1>1, <1>2 DEF registryVars, RegistryInv, Holds, Unfinished, Workflows, Finished
  <1>3. CASE UNCHANGED vars
    <2>1. StartersGoOn /\ UNCHANGED registryVars /\ UNCHANGED <<log, reported, hostVars>>
      BY <1>3 DEF vars, registryVars, StartersGoOn
    <2> QED BY <1>1, <1>2, <2>1, OthersKeepSession DEF IInv
  <1>4. ASSUME NEW s \in Sessions, SessionStart(s)
        PROVE  IInv'
    BY <1>1, <1>2, <1>4, StartKeepsSession DEF SessionStart, IInv
  <1>5. CASE Shutdown
    BY <1>1, <1>2, <1>5, ShutdownKeepsSession DEF Shutdown, IInv
  <1>6. CASE HostDies
    BY <1>1, <1>2, <1>6, DeathKeepsSession DEF HostDies, IInv
  <1>7. CASE Queue
    BY <1>1, <1>2, <1>7, QueueKeepsSession DEF Queue, IInv
  <1>8. CASE Configure \/ EndConfigure \/ Abort
    BY <1>1, <1>2, <1>8, ConfiguringKeepsSession DEF Configure, EndConfigure, Abort, IInv
  <1>9. CASE CheckRegistry \/ Prepare \/ StartReturns
    <2>1. UNCHANGED registryVars
      BY <1>9 DEF CheckRegistry, Prepare, StartReturns, ChooseRepository, ReviewExecution, Derive,
                  DraftTask, ReadInputs, ValidateDraft, RegisterTask, Passes
    <2> QED BY <1>1, <1>2, <1>9, <2>1, PreparingKeepsSession DEF IInv
  <1>10. CASE Dispatch
    BY <1>1, <1>10, DispatchKeepsSession DEF IInv
  <1>11. CASE Acknowledge
    BY <1>1, <1>2, <1>11, AcknowledgeKeepsSession DEF Acknowledge, IInv
  <1>12. CASE Fail
    BY <1>1, <1>2, <1>12, FailKeepsSession DEF Fail, IInv
  <1>13. CASE Tick \/ \E r \in reads : EndRead(r)
    <2>1. UNCHANGED registryVars
      BY <1>13 DEF Tick, EndRead
    <2> QED BY <1>1, <1>2, <1>13, <2>1, MonitorKeepsSession DEF IInv
  <1>14. ASSUME NEW a \in Attempts, NEW t \in Tools, NEW m \in Actions, Manage(a, t, m)
         PROVE  IInv'
    BY <1>1, <1>2, <1>14, ManageKeepsSession DEF Manage, IInv
  <1>15. CASE TakeEffect
    BY <1>1, <1>15, EffectKeepsSession DEF IInv
  <1>16. ASSUME NEW a \in Attempts, StarterStep(a) \/ WorkerStep(a), UNCHANGED <<log, reported, hostVars>>
         PROVE  IInv'
    <2>1. RegistryInv' /\ StartersGoOn
      BY <1>1, <1>16, StarterKeepsRegistry, WorkerKeepsRegistry
    <2> QED BY <1>1, <1>16, <2>1, OthersKeepSession DEF IInv
  <1>17. CASE OpStep
    BY <1>8, <1>9, <1>10, <1>11, <1>12, <1>17 DEF OpStep
  <1> QED BY <1>3, <1>4, <1>5, <1>6, <1>7, <1>8, <1>13, <1>14, <1>15, <1>16, <1>17 DEF Next

THEOREM InvariantHolds == Spec => []IInv
  BY InitHolds, StepKeepsInvariant, PTL DEF Spec

(* The session's log is right about every dispatch: an attempt whose start *)
(* command ever ran is recorded as uncertain or launched, and a launched   *)
(* record names the workflow of its own attempt, wherever the process, the *)
(* session or the command was cut off (solveGoal, launchDetachedWorkflow). *)
THEOREM LogIsAlwaysTrue == Spec => []LogIsTrue
  BY InvariantHolds, InvariantImpliesLog, PTL

(* start_workflow's check under the registry lock keeps the workflows that *)
(* are neither finished nor closed to one, however many start commands     *)
(* were given up and go on.                                                *)
THEOREM OneWorkflowAtATime == Spec => []OneUnfinishedWorkflow
  BY InvariantHolds, InvariantImpliesOne, PTL

(* refreshWorkflowMonitor reports a completion only to the session whose   *)
(* own submission started the workflow, whatever read returns when.        *)
LEMMA ReportsAreOwn ==
    ASSUME IInv, [Next]_vars, NEW s \in Sessions, NEW a \in reported'[s] \ reported[s]
    PROVE  s = session /\ submission # Null /\ submission.root = a /\ log[a].session = s
  <1>1. SessionInv
    BY DEF IInv
  <1>2. reported' # reported
    OBVIOUS
  <1>3. PICK r \in reads : EndRead(r)
    BY <1>2 DEF Next, vars, SessionStart, Shutdown, HostDies, Queue, Configure, Abort, OpStep, CheckRegistry,
                Prepare, ChooseRepository, ReviewExecution, Derive, DraftTask, ReadInputs, ValidateDraft,
                RegisterTask, Passes, Dispatch, StartReturns, Acknowledge, Fail, EndConfigure, Tick, Manage,
                TakeEffect
  <1>4. /\ session # Null /\ r.current = TRUE
        /\ reported' = [reported EXCEPT ![session] = @ \cup {r.root}]
    BY <1>1, <1>2, <1>3 DEF EndRead, SessionInv, SessionTypes, Reads
  <1>5. s = session /\ a = r.root
    BY <1>1, <1>4 DEF SessionInv, SessionTypes
  <1>6. submission # Null /\ submission.state = "launched" /\ submission.root = r.root
    BY <1>1, <1>4 DEF SessionInv, ReadsInv
  <1> QED BY <1>1, <1>4, <1>5, <1>6 DEF SessionInv, SubmissionInv

THEOREM ReportsStayOwn == Spec => OwnReportsOnly
  <1>1. IInv /\ [Next]_vars =>
          [\A s \in Sessions : \A a \in reported'[s] \ reported[s] :
             /\ s = session /\ submission # Null /\ submission.root = a
             /\ log[a].session = s]_vars
    BY ReportsAreOwn
  <1> QED BY <1>1, InvariantHolds, PTL DEF Spec, OwnReportsOnly
=============================================================================
