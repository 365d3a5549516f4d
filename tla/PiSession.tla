----------------------------- MODULE PiSession -----------------------------
(***************************************************************************)
(* The Agentvolve extension of one Pi process: a request is prepared in    *)
(* the background, its start command is dispatched, and the workflow the   *)
(* acknowledgement names is followed until the session ends.  Commands are *)
(* processes of their own (AgentvolveRegistry); the session's log outlives *)
(* the process.                                                            *)
(*                                                                         *)
(* The extension numbers its epochs and everything started in an earlier   *)
(* one is ignored when it ends; here what is under way carries whether the *)
(* epoch it started in is still current.                                   *)
(***************************************************************************)
EXTENDS AgentvolveRegistry

CONSTANTS
    Sessions,
    MaxDraftCalls,   \* the model calls one preparation may spend on a draft
    Null

\* What a session's log keeps of a submission, and what the process shows of it.
States == {"preparing", "not-launched", "cancelled", "failed", "uncertain-dispatch", "launched"}
Roots == Attempts \cup {Null}
LogRecords == [session : Sessions, state : States, root : Roots]
Submissions == [attempt : Attempts, state : States, root : Roots]

ASSUME AttemptsAssumption == Attempts \subseteq Nat
ASSUME NullAssumption == Null \notin Attempts \cup Sessions \cup LogRecords \cup Submissions

VARIABLES
    log,        \* durable: the last submission record of each attempt
    reported,   \* durable: the workflows whose completion each session's log reports
    session,    \* the open session, Null between a shutdown and the next start
    submission, \* the submission the process shows
    op,         \* the preparation under way
    reads,      \* progress reads under way
    ticking,    \* the monitor's two-second timer is set
    manage      \* a management request under way

hostVars == <<session, submission, op, reads, ticking, manage>>
vars == <<registryVars, log, reported, hostVars>>

Idle == [pc |-> "idle", attempt |-> Null, calls |-> 0, aborted |-> FALSE, current |-> FALSE]

Init ==
    /\ InitRegistry
    /\ log = [a \in Attempts |-> Null]
    /\ reported = [s \in Sessions |-> {}]
    /\ session = Null /\ submission = Null /\ op = Idle
    /\ reads = {} /\ ticking = FALSE /\ manage = Null

-----------------------------------------------------------------------------
(* Submissions.                                                            *)

Launched == submission # Null /\ submission.state = "launched"
Showing(state) == submission # Null /\ submission.state = state

\* persistSubmission
Persist(next) ==
    /\ submission' = next
    /\ log' = [log EXCEPT ![next.attempt] =
                 [session |-> session, state |-> next.state, root |-> next.root]]

\* The owned record appended last; a new or forked session owns none.
Owned(s) == {a \in Attempts : log[a] # Null /\ log[a].session = s}
Restorable(s) ==
    IF Owned(s) = {} THEN {Null}
    ELSE {[attempt |-> a, root |-> log[a].root,
           state |-> IF log[a].state = "preparing" THEN "not-launched" ELSE log[a].state] :
              a \in {x \in Owned(s) : \A y \in Owned(s) : y <= x}}

\* stopWorkflowMonitor: the epoch moves on.
Stale(rs) == {[r EXCEPT !.current = FALSE, !.first = FALSE] : r \in rs}
FirstRead(root) == [root |-> root, current |-> TRUE, first |-> TRUE]

\* startWorkflowMonitor: the timer is set once the first read has ended.
StartMonitor(sub) ==
    /\ reads' = Stale(reads) \cup (IF sub # Null /\ sub.state = "launched"
                                   THEN {FirstRead(sub.root)} ELSE {})
    /\ ticking' = FALSE

-----------------------------------------------------------------------------
(* The session.                                                            *)

\* session_start
SessionStart(s) ==
    /\ session = Null
    /\ session' = s
    /\ \E sub \in Restorable(s) : submission' = sub /\ StartMonitor(sub)
    /\ op' = [op EXCEPT !.current = FALSE]
    /\ UNCHANGED <<registryVars, log, reported, manage>>

\* session_shutdown
Shutdown ==
    /\ session # Null
    /\ IF Showing("preparing") THEN Persist([submission EXCEPT !.state = "cancelled"])
       ELSE UNCHANGED <<log, submission>>
    /\ session' = Null
    /\ op' = [op EXCEPT !.aborted = op.attempt # Null, !.current = FALSE]
    /\ reads' = Stale(reads) /\ ticking' = FALSE
    /\ UNCHANGED <<registryVars, reported, manage>>

\* The process dies, or a reload leaves the closed extension behind for a new one.
HostDies ==
    /\ session' = Null /\ submission' = Null /\ op' = Idle
    /\ reads' = {} /\ ticking' = FALSE /\ manage' = Null
    /\ UNCHANGED <<registryVars, log, reported>>

-----------------------------------------------------------------------------
(* solveGoal and launchDetachedWorkflow.                                   *)

OpGoto(pc) == op' = [op EXCEPT !.pc = pc]

\* queueGoal
Free == session # Null /\ op.pc = "idle"

\* solveGoal up to its first await.
Queue ==
    /\ Free
    /\ \E a \in Attempts :
         /\ log[a] = Null /\ \A b \in Attempts : b < a => log[b] # Null
         /\ op' = [Idle EXCEPT !.pc = "checking", !.attempt = a, !.current = TRUE]
         /\ Persist([attempt |-> a, state |-> "preparing", root |-> Null])
    /\ reads' = Stale(reads) /\ ticking' = FALSE
    /\ UNCHANGED <<registryVars, reported, session, manage>>

\* registryStatus; an aborted command throws.
CheckRegistry ==
    /\ op.pc = "checking"
    /\ OpGoto(IF op.aborted \/ ~RegistryReadable \/ Blockers # {} THEN "failing" ELSE "choosing")
    /\ UNCHANGED <<registryVars, log, reported, session, submission, reads, ticking, manage>>

\* Each step of a preparation may fail, and fails once the request was aborted.
Passes(from, next) ==
    /\ op.pc = from
    /\ OpGoto("failing") \/ (~op.aborted /\ OpGoto(next))
    /\ UNCHANGED <<registryVars, log, reported, session, submission, reads, ticking, manage>>

ChooseRepository == Passes("choosing", "reviewing")

\* A configured task is derived with the goal; any other is drafted.
ReviewExecution == Passes("reviewing", "deriving") \/ Passes("reviewing", "drafting")
Derive == Passes("deriving", "dispatching")

\* One model call of a bounded number: a draft, a request for inputs, or neither.
DraftTask ==
    /\ op.pc = "drafting"
    /\ \/ OpGoto("failing")
       \/ /\ ~op.aborted
          /\ op' = [op EXCEPT !.calls = @ + 1,
                              !.pc = IF op.calls + 1 < MaxDraftCalls THEN "reading" ELSE "failing"]
       \/ ~op.aborted /\ op' = [op EXCEPT !.calls = 0, !.pc = "validating"]
    /\ UNCHANGED <<registryVars, log, reported, session, submission, reads, ticking, manage>>

ReadInputs == Passes("reading", "drafting")
ValidateDraft == Passes("validating", "registering")
RegisterTask == Passes("registering", "dispatching")

Prepare == \/ ChooseRepository \/ ReviewExecution \/ Derive
           \/ DraftTask \/ ReadInputs \/ ValidateDraft \/ RegisterTask

\* The record precedes the command; both follow the last look at the signal.
Dispatch ==
    /\ op.pc = "dispatching"
    /\ IF op.aborted
       THEN OpGoto("failing") /\ UNCHANGED <<starter, log, submission>>
       ELSE /\ Persist([submission EXCEPT !.state = "uncertain-dispatch"])
            /\ StarterGoto(op.attempt, "begun")
            /\ OpGoto("launching")
    /\ UNCHANGED <<phase, closed, reported, session, reads, ticking, manage>>

Ended(a) == starter[a] \in {"answered", "refused", "dead"}

\* Mutant: the start command has no time limit.
StartReturnsUnlimited ==
    /\ op.pc = "launching"
    /\ \/ starter[op.attempt] = "answered" /\ OpGoto("returned")
       \/ Ended(op.attempt) /\ starter[op.attempt] # "answered" /\ OpGoto("failing")
    /\ UNCHANGED <<registryVars, log, reported, session, submission, reads, ticking, manage>>

\* pi.exec ends with the command's answer, or gives the command up: aborted or after
\* 180 s.  Giving up does not undo what the command has done, nor surely end it.
StartReturns ==
    /\ op.pc = "launching"
    /\ \/ starter[op.attempt] = "answered" /\ ~op.aborted /\ OpGoto("returned")
       \/ OpGoto("failing")
    /\ UNCHANGED <<registryVars, log, reported, session, submission, reads, ticking, manage>>

\* Mutant: an acknowledgement is taken whatever happened while the transport was removed.
AcknowledgeLate ==
    /\ op.pc = "returned"
    /\ IF session # Null /\ submission # Null
       THEN LET next == [submission EXCEPT !.state = "launched", !.root = op.attempt] IN
            /\ Persist(next) /\ StartMonitor(next) /\ op' = Idle
       ELSE OpGoto("failing") /\ UNCHANGED <<log, submission, reads, ticking>>
    /\ UNCHANGED <<registryVars, reported, session, manage>>

\* After the review transport is removed: the acknowledgement binds its workflow only in
\* the session, and the epoch, that dispatched.
Acknowledge ==
    /\ op.pc = "returned"
    /\ IF session # Null /\ op.current
       THEN LET next == [submission EXCEPT !.state = "launched", !.root = op.attempt] IN
            /\ Persist(next) /\ StartMonitor(next) /\ op' = Idle
       ELSE OpGoto("failing") /\ UNCHANGED <<log, submission, reads, ticking>>
    /\ UNCHANGED <<registryVars, reported, session, manage>>

\* Mutant: a cancelled preparation is recorded as cancelled whether or not it dispatched.
FailForgetting ==
    /\ op.pc = "failing"
    /\ IF session # Null /\ op.current /\ ~Launched
       THEN \E state \in IF op.aborted THEN {"cancelled"}
                         ELSE IF Showing("uncertain-dispatch") THEN {"uncertain-dispatch"}
                         ELSE {"not-launched", "failed"} :
              Persist([submission EXCEPT !.state = state])
       ELSE UNCHANGED <<log, submission>>
    /\ op' = Idle
    /\ UNCHANGED <<registryVars, reported, session, reads, ticking, manage>>

\* The catch and finally of solveGoal.
Fail ==
    /\ op.pc = "failing"
    /\ IF session # Null /\ op.current /\ ~Launched
       THEN \E state \in IF Showing("uncertain-dispatch") THEN {"uncertain-dispatch"}
                         ELSE IF op.aborted THEN {"cancelled"}
                         ELSE {"not-launched", "failed"} :
              Persist([submission EXCEPT !.state = state])
       ELSE UNCHANGED <<log, submission>>
    /\ op' = Idle
    /\ UNCHANGED <<registryVars, reported, session, reads, ticking, manage>>

\* stopAgentvolve with no workflow named, during a preparation.
Abort ==
    /\ session # Null /\ op.pc # "idle"
    /\ op' = [op EXCEPT !.aborted = op.attempt # Null]
    /\ UNCHANGED <<registryVars, log, reported, session, submission, reads, ticking, manage>>

\* workflow_configure is busy as a preparation is, and binds nothing, aborted or not.
Configure ==
    /\ Free
    /\ op' = [Idle EXCEPT !.pc = "configuring"]
    /\ UNCHANGED <<registryVars, log, reported, session, submission, reads, ticking, manage>>
EndConfigure ==
    /\ op.pc = "configuring"
    /\ op' = Idle
    /\ UNCHANGED <<registryVars, log, reported, session, submission, reads, ticking, manage>>

OpStep == \/ CheckRegistry \/ Prepare \/ Dispatch
          \/ StartReturns \/ Acknowledge \/ Fail \/ EndConfigure

-----------------------------------------------------------------------------
(* refreshWorkflowMonitor.                                                 *)

Reading == \E r \in reads : r.current

\* Called by the timer, and by whoever changes the model or manages a workflow.
BeginRead(rs) ==
    IF session # Null /\ Launched /\ ~Reading
    THEN rs \cup {[root |-> submission.root, current |-> TRUE, first |-> FALSE]} ELSE rs

Tick ==
    /\ ticking
    /\ ~Reading
    /\ reads' = BeginRead(reads)
    /\ UNCHANGED <<registryVars, log, reported, session, submission, op, ticking, manage>>

\* Mutant: what a read returns is shown whatever the session now is.
EndReadLate(r) ==
    /\ reads' = reads \ {r}
    /\ reported' = IF session # Null /\ Finished(r.root)
                   THEN [reported EXCEPT ![session] = @ \cup {r.root}] ELSE reported
    /\ ticking' = (ticking \/ (r.current /\ r.first))
    /\ UNCHANGED <<registryVars, log, session, submission, op, manage>>

\* A read of an earlier epoch, or of a closed session, is dropped; the sixth stage of
\* another is reported once.
EndRead(r) ==
    /\ reads' = reads \ {r}
    /\ reported' = IF session # Null /\ r.current /\ Finished(r.root)
                   THEN [reported EXCEPT ![session] = @ \cup {r.root}] ELSE reported
    /\ ticking' = (ticking \/ (r.current /\ r.first))
    /\ UNCHANGED <<registryVars, log, session, submission, op, manage>>

-----------------------------------------------------------------------------
(* manageWorkflow, one request at a time.                                  *)

\* availableActions
Available(c) ==
    IF c.closed THEN {}
    ELSE IF c.active THEN {"stop"}
    ELSE IF c.complete THEN {"verify"}
    ELSE {IF c.retry THEN "retry" ELSE "resume", "close"}

\* The workflow's state is read, and read again just before the effect: a change in
\* between gives up.  workflow_manage is refused during a preparation; workflow_stop
\* and workflow_verify naming a workflow are not.
Manage(a, tool, action) ==
    /\ session # Null /\ manage = Null
    /\ a \in Workflows /\ Readable(a)
    /\ action \in Available(Control(a))
    /\ CASE tool = "workflow_stop"   -> action = "stop"
         [] tool = "workflow_verify" -> action = "verify"
         [] OTHER                    -> op.pc = "idle"
    /\ manage' = [root |-> a, tool |-> tool, action |-> action]
    /\ UNCHANGED <<registryVars, log, reported, session, submission, op, reads, ticking>>

\* A stop stops following the workflow it stopped, workflow_manage reads the bound one
\* once more.
TakeEffect ==
    /\ manage # Null
    /\ manage' = Null
    /\ IF Accepts(manage.action, manage.root)
       THEN /\ Effect(manage.action, manage.root)
            /\ CASE manage.tool = "workflow_stop" /\ submission # Null
                       /\ submission.root = manage.root
                    -> reads' = Stale(reads) /\ ticking' = FALSE
                 [] manage.tool = "workflow_manage"
                    -> reads' = BeginRead(reads) /\ UNCHANGED ticking
                 [] OTHER -> UNCHANGED <<reads, ticking>>
       ELSE UNCHANGED <<registryVars, reads, ticking>>
    /\ UNCHANGED <<log, reported, session, submission, op>>

Tools == {"workflow_manage", "workflow_stop", "workflow_verify"}

-----------------------------------------------------------------------------
Next ==
    \/ \E s \in Sessions : SessionStart(s)
    \/ Shutdown \/ HostDies
    \/ Queue \/ Configure \/ Abort \/ OpStep
    \/ Tick \/ \E r \in reads : EndRead(r)
    \/ \E a \in Attempts, t \in Tools, m \in Actions : Manage(a, t, m)
    \/ TakeEffect
    \/ \E a \in Attempts : /\ StarterStep(a) \/ WorkerStep(a)
                           /\ UNCHANGED <<log, reported, hostVars>>

Spec == Init /\ [][Next]_vars

\* A command is killed at its time limit and a read at its own, the timer fires, and what
\* awaits them goes on.  Neither a command nor a worker need ever end by itself.
FairSpec == /\ Spec
            /\ WF_vars(OpStep)
            /\ WF_vars(Tick)
            /\ \A root \in Attempts, c, f \in BOOLEAN :
                 LET r == [root |-> root, current |-> c, first |-> f] IN WF_vars(r \in reads /\ EndRead(r))

-----------------------------------------------------------------------------
(* Invariants.                                                             *)

TypeOK ==
    /\ phase \in [Attempts -> Phases] /\ closed \subseteq Attempts
    /\ starter \in [Attempts -> StarterPcs]
    /\ log \in [Attempts -> {Null} \cup LogRecords]
    /\ reported \in [Sessions -> SUBSET Attempts]
    /\ session \in Sessions \cup {Null}
    /\ submission \in {Null} \cup Submissions
    /\ op.pc \in {"idle", "checking", "choosing", "reviewing", "deriving", "drafting", "reading",
                 "validating", "registering", "dispatching", "launching", "returned", "failing", "configuring"}
    /\ op.attempt \in Attempts \cup {Null} /\ op.calls \in 0..MaxDraftCalls
    /\ reads \subseteq [root : Attempts, current : BOOLEAN, first : BOOLEAN]
    /\ ticking \in BOOLEAN

\* An attempt whose start command ever ran is never recorded as one that dispatched
\* nothing, wherever the process, the session or the command was cut off.
DispatchIsRecorded ==
    \A a \in Attempts : starter[a] # "none" =>
        log[a] # Null /\ log[a].state \in {"uncertain-dispatch", "launched"}

\* A session is bound only to the workflow its own submission started, and only once
\* that workflow has a request; an answer that outlived its session binds nothing.
LaunchIsItsOwn ==
    \A a \in Attempts : log[a] # Null /\ log[a].state = "launched" =>
        log[a].root = a /\ phase[a] \notin {"absent", "made"}

\* The session's log is right about every dispatch, the ones that were cut off
\* between the command and its answer included.
LogIsTrue == DispatchIsRecorded /\ LaunchIsItsOwn

\* The registry never holds two workflows that are neither finished nor closed, even
\* though start commands nobody waits for any more overlap with later ones.
OneUnfinishedWorkflow ==
    Cardinality({a \in Workflows : ~Finished(a) /\ a \notin closed}) <= 1

(* Action properties.                                                      *)

\* A session reports the completion of the workflow it is bound to and of no other: not
\* of the one it followed when the read began, nor of another session's.
OwnReportsOnly ==
    [][\A s \in Sessions : \A a \in reported'[s] \ reported[s] :
         /\ s = session /\ submission # Null /\ submission.root = a
         /\ log[a].session = s]_vars

(* Liveness.                                                               *)

\* A preparation ends, whatever hangs: nothing keeps the next request out for ever.
PreparationsEnd == op.pc # "idle" ~> op.pc = "idle"

-----------------------------------------------------------------------------
(* What the code does not do.                                              *)

\* After "preparation cancellation requested. No worker will be launched.", the start
\* command of that preparation launches no worker.
CancelMeansNoWorker ==
    [][op.aborted /\ op.pc = "launching" /\ session # Null =>
         (starter'[op.attempt] = "answered" => starter[op.attempt] = "answered")]_vars

\* "The compact tracker polls only the exact bound workflow every two seconds": the
\* workflow the open session is bound to is read again for as long as it runs.
Following(a) == session # Null /\ Launched /\ submission.root = a
FollowedJobsArePolled ==
    \A a \in Attempts :
        (Following(a) /\ phase[a] = "running") ~>
            (ticking \/ Reading \/ phase[a] # "running" \/ ~Following(a))
=============================================================================
