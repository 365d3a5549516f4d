--------------------------- MODULE ExperimentRun ---------------------------
(***************************************************************************)
(* The run roots of an Agentvolve workflow (a harness run, a solution run) *)
(* and the experiment processes, called effects here, that work on them.   *)
(*                                                                         *)
(* A run root is durable: the stage its ledgers and its pending intent     *)
(* stand for, the driver's lock file, the attempts of the Controller, and  *)
(* the receipts and retry-effects files beside them.  An effect is one     *)
(* "fresh", "resume", "retry" or "verify" command.  The Controller of an   *)
(* attempt runs in a session of its own (process.py:71), so that it is a   *)
(* process here too, which may outlive its effect.                         *)
(***************************************************************************)
EXTENDS Naturals, Sequences, FiniteSets

CONSTANTS
    Kinds,      \* the kinds of run, "harness" and "solution"
    Jobs,       \* job ordinals; effect <<j, k>> works for job j on run k
    MaxCalls,   \* the limit max_proposal_calls of a run
    Null

ASSUME MaxCallsAssumption == MaxCalls \in Nat
ASSUME NullAssumption == Null \notin Jobs \X Kinds

VARIABLES
    runs,       \* the run root of each kind
    effects,    \* the experiment processes
    calls       \* the Controller processes that run, with their attempt

runVars == <<runs, effects, calls>>

Stages == {"absent", "new", "search", "calling", "receipt", "received",
           "sealed", "assayed", "complete", "overtaken"}
\* "overtaken": final work was declared, by an effect that had left the driver,
\* while a later effect's round was pending.  No driver accepts that state.
PendingStages == {"calling", "receipt", "received", "overtaken"}
SealedStages == {"sealed", "assayed", "complete"}

Effects == Jobs \X Kinds
Operations == {"fresh", "resume", "retry", "verify"}
Driving == {"drive", "intent", "calling"}
Live == Operations \cup Driving \cup {"setup", "reserve", "final", "assay", "check", "report"}

Alive(e) == effects[e] \in Live
Stage(k) == runs[k].stage
Attempts(k) == Len(runs[k].attempts)
CallsOf(e) == {c \in calls : c.effect = e}

Absent == [stage |-> "absent", lock |-> Null, attempts |-> <<>>,
           written |-> {}, bound |-> {}, kept |-> [a \in {} |-> {}]]

InitRuns ==
    /\ runs = [k \in Kinds |-> Absent]
    /\ effects = [e \in Effects |-> "none"]
    /\ calls = {}

Goto(e, pc) == effects' = [effects EXCEPT ![e] = pc]
Fails(e) == Goto(e, "failed")
At(e, pc) == effects[e] = pc

\* locked_driver: the lock file is created exclusively and removed on the way out.
Locks(e) == runs' = [runs EXCEPT ![e[2]].lock = e]
Unlocks(e) == runs' = [runs EXCEPT ![e[2]].lock = Null]

NewAttempt(e, intent) == Append(runs[e[2]].attempts, [job |-> e[1], intent |-> intent])
Intent(k) == IF Attempts(k) = 0 THEN 0 ELSE runs[k].attempts[Attempts(k)].intent

-----------------------------------------------------------------------------
(* What each command does before it holds the driver's lock.  An effect    *)
(* that was just spawned is at the name of its command.                    *)

\* The preflight and the conformance run may refuse: the root then stays as it is.
CreateRoot(e) ==
    /\ At(e, "fresh")
    /\ \/ /\ Stage(e[2]) = "absent"
          /\ runs' = [runs EXCEPT ![e[2]].stage = "new"]
          /\ Goto(e, "setup")
       \/ Fails(e) /\ UNCHANGED runs
    /\ UNCHANGED calls

InitializeState(e) ==
    /\ At(e, "setup")
    /\ \/ /\ runs' = [runs EXCEPT ![e[2]].stage = "search", ![e[2]].lock = e]
          /\ Goto(e, "drive")
       \/ Fails(e) /\ UNCHANGED runs
    /\ UNCHANGED calls

\* Mutant: resume does not look at the lock file.
ResumeLocked(e) ==
    /\ At(e, "resume")
    /\ \/ Stage(e[2]) = "complete" /\ Goto(e, "verify") /\ UNCHANGED runs
       \/ Stage(e[2]) \notin {"absent", "new", "complete"} /\ Locks(e) /\ Goto(e, "drive")
       \/ Stage(e[2]) \in {"absent", "new"} /\ Fails(e) /\ UNCHANGED runs
    /\ UNCHANGED calls

Resume(e) ==
    /\ At(e, "resume")
    /\ \/ Stage(e[2]) = "complete" /\ Goto(e, "verify") /\ UNCHANGED runs
       \/ /\ Stage(e[2]) \notin {"absent", "new", "complete"}
          /\ runs[e[2]].lock = Null
          /\ Locks(e) /\ Goto(e, "drive")
       \/ /\ \/ Stage(e[2]) \in {"absent", "new"}
             \/ Stage(e[2]) # "complete" /\ runs[e[2]].lock # Null
          /\ Fails(e) /\ UNCHANGED runs
    /\ UNCHANGED calls

\* _record_solution_retry_effects: before the driver is asked, the receipts that
\* exist are written down once for the last attempt; a second retry of the same
\* attempt must find the same receipts.
RecordRetryEffects(e) ==
    LET r == runs[e[2]]
        a == Attempts(e[2])
        kept == [x \in DOMAIN r.kept \cup {a} |-> IF x = a THEN r.written ELSE r.kept[x]]
    IN  /\ At(e, "retry")
        /\ \/ /\ r.stage \in PendingStages
              /\ a \in DOMAIN r.kept => r.kept[a] = r.written
              /\ runs' = [runs EXCEPT ![e[2]].kept = kept]
              /\ Goto(e, "reserve")
           \/ /\ \/ r.stage \notin PendingStages
                 \/ a \in DOMAIN r.kept /\ r.kept[a] # r.written
              /\ Fails(e) /\ UNCHANGED runs
        /\ UNCHANGED calls

\* retry_population_driver: only an attempt without a receipt may be repeated,
\* within the call limit.
Retriable(k) == Stage(k) = "calling" /\ Attempts(k) < MaxCalls

ReserveRetry(e) ==
    LET k == e[2]
    IN  /\ At(e, "reserve")
        /\ \/ /\ Retriable(k) /\ runs[k].lock = Null
              /\ runs' = [runs EXCEPT ![k].lock = e, ![k].attempts = NewAttempt(e, Intent(k))]
              /\ Goto(e, "intent")
           \/ /\ ~Retriable(k) \/ runs[k].lock # Null
              /\ Fails(e) /\ UNCHANGED runs
        /\ UNCHANGED calls

-----------------------------------------------------------------------------
(* Inside the driver.                                                      *)

\* Mutant: the planner forgets that final work was declared.
StartRoundUnsealed(e) ==
    /\ At(e, "drive") /\ Stage(e[2]) \in {"search", "sealed"} /\ Attempts(e[2]) < MaxCalls
    /\ runs' = [runs EXCEPT ![e[2]].stage = "calling",
                            ![e[2]].attempts = NewAttempt(e, Intent(e[2]) + 1)]
    /\ Goto(e, "intent")
    /\ UNCHANGED calls

StartRound(e) ==
    /\ At(e, "drive") /\ Stage(e[2]) = "search" /\ Attempts(e[2]) < MaxCalls
    /\ runs' = [runs EXCEPT ![e[2]].stage = "calling",
                            ![e[2]].attempts = NewAttempt(e, Intent(e[2]) + 1)]
    /\ Goto(e, "intent")
    /\ UNCHANGED calls

StartCall(e) ==
    /\ At(e, "intent")
    /\ calls' = calls \cup {[effect |-> e, attempt |-> Attempts(e[2])]}
    /\ Goto(e, "calling")
    /\ UNCHANGED runs

\* A proposer or an evaluator below the Controller writes its receipt.
CallWrites(c) ==
    /\ c \in calls
    /\ c.attempt \notin runs[c.effect[2]].written
    /\ runs' = [runs EXCEPT ![c.effect[2]].written = @ \cup {c.attempt}]
    /\ UNCHANGED <<effects, calls>>

\* Mutant: a Controller result is bound before its receipts exist.
CallReturnsEarly(e) ==
    /\ At(e, "calling")
    /\ \E c \in CallsOf(e) :
        /\ calls' = calls \ {c}
        /\ runs' = [runs EXCEPT ![e[2]].stage = IF @ = "calling" THEN "receipt" ELSE @,
                                ![e[2]].bound = @ \cup {c.attempt}]
    /\ Goto(e, "drive")

CallReturns(e) ==
    /\ At(e, "calling")
    /\ \E c \in CallsOf(e) :
        /\ c.attempt \in runs[e[2]].written
        /\ calls' = calls \ {c}
        /\ runs' = [runs EXCEPT ![e[2]].stage = IF @ = "calling" THEN "receipt" ELSE @,
                                ![e[2]].bound = @ \cup {c.attempt}]
    /\ Goto(e, "drive")

CallFails(e) ==
    /\ At(e, "calling")
    /\ calls' = calls \ CallsOf(e)
    /\ Unlocks(e) /\ Fails(e)

\* The checkpoint after the receipt, by the effect that wrote it or by a resume.
CheckpointReceipt(e) ==
    /\ At(e, "drive") /\ Stage(e[2]) = "receipt"
    /\ runs' = [runs EXCEPT ![e[2]].stage = "received"]
    /\ UNCHANGED <<effects, calls>>

CommitRound(e) ==
    /\ At(e, "drive") /\ Stage(e[2]) = "received"
    /\ \/ runs' = [runs EXCEPT ![e[2]].stage = "search"] /\ UNCHANGED effects
       \/ Unlocks(e) /\ Fails(e)        \* the evidence adapter failed
    /\ UNCHANGED calls

\* Mutant: resume repeats an indeterminate call.
RepeatPending(e) ==
    /\ At(e, "drive") /\ Stage(e[2]) = "calling" /\ Attempts(e[2]) < MaxCalls
    /\ runs' = [runs EXCEPT ![e[2]].attempts = NewAttempt(e, Intent(e[2]))]
    /\ Goto(e, "intent")
    /\ UNCHANGED calls

LeavePending(e) ==
    /\ At(e, "drive") /\ Stage(e[2]) \in {"calling", "overtaken"}
    /\ Unlocks(e) /\ Fails(e) /\ UNCHANGED calls

StopSearch(e) ==
    /\ At(e, "drive") /\ Stage(e[2]) \in {"search"} \cup SealedStages
    /\ Unlocks(e) /\ Goto(e, "final") /\ UNCHANGED calls

-----------------------------------------------------------------------------
(* The protected final assay, without the driver's lock, and the report.   *)

DeclareFinal(e) ==
    /\ At(e, "final")
    /\ \/ /\ Stage(e[2]) \in {"search"} \cup PendingStages
          /\ runs' = [runs EXCEPT ![e[2]].stage = IF @ = "search" THEN "sealed" ELSE "overtaken"]
          /\ Goto(e, "assay")
       \/ Stage(e[2]) \in {"assayed", "complete"} /\ Goto(e, "check") /\ UNCHANGED runs
       \/ Stage(e[2]) \notin {"assayed", "complete"} /\ Fails(e) /\ UNCHANGED runs
    /\ UNCHANGED calls

Assay(e) ==
    /\ At(e, "assay")
    /\ \/ /\ Stage(e[2]) = "sealed"
          /\ runs' = [runs EXCEPT ![e[2]].stage = "assayed"]
          /\ Goto(e, "check")
       \/ Fails(e) /\ UNCHANGED runs
    /\ UNCHANGED calls

VerifyDriver(e) ==
    /\ At(e, "check")
    /\ IF runs[e[2]].lock = Null THEN Goto(e, "report") ELSE Fails(e)
    /\ UNCHANGED <<runs, calls>>

Report(e) ==
    /\ At(e, "report")
    /\ runs' = [runs EXCEPT ![e[2]].stage = "complete"]
    /\ Goto(e, "done")
    /\ UNCHANGED calls

\* verify_experiment's closure of receipts: a receipt belongs to a committed
\* round or is the recorded residue of a superseded attempt, and retry effects
\* are recorded for the superseded attempts and no other.
Superseded(k, a) ==
    /\ a < Attempts(k)
    /\ runs[k].attempts[a + 1].intent = runs[k].attempts[a].intent
Verifies(k) ==
    /\ DOMAIN runs[k].kept = {a \in 1..Attempts(k) : Superseded(k, a)}
    /\ runs[k].written \subseteq runs[k].bound \cup UNION {runs[k].kept[a] : a \in DOMAIN runs[k].kept}

Replay(e) ==
    /\ At(e, "verify")
    /\ IF runs[e[2]].lock = Null /\ Verifies(e[2]) THEN Goto(e, "done") ELSE Fails(e)
    /\ UNCHANGED <<runs, calls>>

-----------------------------------------------------------------------------
(* Deaths.  An effect installs no handler for SIGTERM: whatever kills it   *)
(* leaves its lock file behind, and its Controller running.                *)

Killed(S) ==
    effects' = [e \in Effects |-> IF e \in S /\ Alive(e) THEN "failed" ELSE effects[e]]

OrphanEnds(c) ==
    /\ c \in calls /\ ~Alive(c.effect)
    /\ calls' = calls \ {c}
    /\ UNCHANGED <<runs, effects>>

RemoveAbandonedLock(k) ==
    /\ runs[k].lock # Null /\ ~Alive(runs[k].lock)
    /\ runs' = [runs EXCEPT ![k].lock = Null]
    /\ UNCHANGED <<effects, calls>>

EffectStep(e) ==
    \/ CreateRoot(e) \/ InitializeState(e)
    \/ Resume(e) \/ RecordRetryEffects(e) \/ ReserveRetry(e)
    \/ StartRound(e) \/ StartCall(e) \/ CallReturns(e) \/ CallFails(e)
    \/ CheckpointReceipt(e) \/ CommitRound(e) \/ LeavePending(e) \/ StopSearch(e)
    \/ DeclareFinal(e) \/ Assay(e) \/ VerifyDriver(e) \/ Report(e)
    \/ Replay(e)

CallStep(c) == CallWrites(c) \/ OrphanEnds(c)
=============================================================================
