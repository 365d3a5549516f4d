-------------------------- MODULE PopulationDriver --------------------------
(***************************************************************************)
(* The bounded Population Driver (apps/population_driver): rounds of one   *)
(* Controller call, one evidence adapter call, a batch of Population       *)
(* records and one driver record, each preceded by a durable checkpoint,   *)
(* so that an invocation which dies anywhere is resumed by the next one    *)
(* without repeating a model call.                                         *)
(*                                                                         *)
(* An invocation reads the Population ledger without its lock and keeps    *)
(* that snapshot (the first `seen` records) while an operator may append   *)
(* to the same ledger through the Population command line.                 *)
(***************************************************************************)
EXTENDS PopulationRules, SequencesExt

CONSTANTS
    Seed,               \* config.initial_parent
    Development,        \* config.population.experiment_id
    MaxRounds,          \* config.limits
    MaxProposalCalls,
    MaxWall,
    MaxCost,            \* [ResourceNames -> Nat], max_total_candidate_cost
    Draws,              \* config.allocation_draws, MaxRounds - 1 of them
    MinimumReplicates,  \* config.stopping.minimum_replicates
    ControllerTimeout,  \* controller_timeout_seconds(config)
    EvidenceTimeout,    \* config.evidence_adapter.timeout_seconds
    Evidence,           \* what the adapter may report: <<incumbent, challenger>>
    OperatorRecord,     \* records an operator may try to append
    MaxCrashes,         \* bound on deaths of a process
    MaxFailures,        \* bound on failing Controller and adapter calls
    MaxAppends          \* bound on the operator's records

ASSUME LimitsAssumption ==
    /\ MaxRounds \in Nat \ {0} /\ MaxProposalCalls \in Nat \ {0} /\ MaxWall \in Nat \ {0}
    /\ ControllerTimeout \in Nat \ {0} /\ EvidenceTimeout \in Nat \ {0}
    /\ Len(Draws) = MaxRounds - 1
\* What the decoders of the configuration and of requests check of single values.
ASSUME ValuesAssumption ==
    /\ Seed \in Candidate
    /\ \A n \in 1..Len(Draws) : Draws[n].denominator \in Nat
    /\ \A pair \in Evidence : IsEvidence(pair[1]) /\ IsEvidence(pair[2])
    /\ \A r \in OperatorRecord :
          /\ r.kind = "candidate" => r.cand \in Candidate
          /\ r.kind = "run" => IsEvidence(r.ev)
          /\ r.kind = "allocation" => r.draw.denominator \in Nat

VARIABLES
    ledger,     \* population/population.jsonl, complete lines
    rounds,     \* driver.jsonl after its header
    pending,    \* pending/round-intent.json
    receipts,   \* receipts/: [controller |-> [attempt -> child], evidence |-> [attempt -> pair]]
    torn,       \* which of the two ledgers end in an incomplete line
    popLock,    \* population.lock: "free" or its holder
    lock,       \* STATE.lock: "free", "held" or "abandoned"
    pc,         \* the invocation's next step, "off" between invocations
    mode,       \* its command
    allow,      \* allow_controller of _drive
    seen,       \* length of the ledger verify_context loaded
    status,     \* status of the last finished invocation
    called,     \* history: attempts whose Controller was started
    calls,      \* history: how often the Controller was started
    adapters,   \* history: how often the evidence adapter was started
    crashes, failures, appends

durable == <<ledger, rounds, pending, receipts, torn>>
locks == <<popLock, lock>>
invocation == <<pc, mode, allow, seen, status>>
history == <<called, calls, adapters>>
bounds == <<crashes, failures, appends>>
vars == <<ledger, rounds, pending, receipts, torn, popLock, lock, pc, mode,
          allow, seen, status, called, calls, adapters, crashes, failures, appends>>

NoPending == [stage |-> "none"]
NoCandidate == 0
NoRecord == 0

Stages == {"controller_pending", "controller_complete", "evidence_complete"}
States == {"off", "verifying", "planning", "controller", "controller_receipt", "evidence",
           "counting", "adapter", "evidence_receipt", "ingest", "ingesting", "commit",
           "remove", "refresh"}

----------------------------------------------------------------------------
\* The ledger a new state directory is published with.

InitialLedger ==
    <<Header,
      [kind |-> "candidate", cand |-> Seed, parents |-> {}, variation |-> "seed",
       loci |-> << >>, choice |-> 0],
      [kind |-> "experiment", exp |-> Development]>>

\* What the cursor of _replay_rounds expects of round n.
ExpectedStart(n) == IF n = 1 THEN Len(InitialLedger) ELSE rounds[n - 1].head
ExpectedAllocation(n) == IF n = 1 THEN NoRecord ELSE rounds[n - 1].allocation
ExpectedParent(n) ==
    IF n = 1 THEN Seed
    ELSE IF rounds[n - 1].allocation = NoRecord THEN NoCandidate
    ELSE ledger[rounds[n - 1].allocation].selected

CurrentRound == Len(rounds) + 1
Attempt(p) == <<p.round, p.attempts>>
\* A receipt is written once and never replaced.
Recorded(written, a, result) ==
    [x \in DOMAIN written \cup {a} |-> IF x \in DOMAIN written THEN written[x] ELSE result]
Child(a) == receipts.controller[a]

\* archive_reaches_development_goal
GoalReached(archive) ==
    \E c \in DOMAIN archive.members :
        LET m == archive.members[c]
        IN  m.survival /\ m.replicates >= MinimumReplicates /\ m.cases > 0 /\ m.passed = m.cases

\* state_reaches_development_goal
StateReachesGoal(l) ==
    LET a == LatestArchive(l, Development) IN a # NoRecord /\ GoalReached(l[a])

RunRecord(n, who, c, ev) ==
    [kind |-> "run", cand |-> c, exp |-> Development, rep |-> <<n, who>>, ev |-> ev]

Suffix(l, start) == SubSeq(l, start + 1, Len(l))

\* Mutant: a new child is evaluated without being registered.
RoundRecordsUnregistered(l, n, parent, child, ev) ==
    LET evaluated == l \o <<RunRecord(n, "incumbent", parent, ev[1]),
                             RunRecord(n, "challenger", child, ev[2])>>
    IN  SubSeq(evaluated, Len(l) + 1, Len(evaluated)) \o <<ArchiveBody(evaluated, Development)>>

\* The Population records of round n, given the ledger l it started from.
RoundRecords(l, n, parent, child, ev) ==
    LET Registration ==
            IF child \in Candidates(l) THEN << >>
            ELSE <<[kind |-> "candidate", cand |-> child, parents |-> {parent},
                    variation |-> "mutation", loci |-> << >>, choice |-> n]>>
        Runs == <<RunRecord(n, "incumbent", parent, ev[1]),
                  RunRecord(n, "challenger", child, ev[2])>>
        Continues(archive) ==
            DOMAIN archive.members # {} /\ n < MaxRounds /\ ~ GoalReached(archive)
        Closed(archived) ==  \* the ledger, ending in its new archive
            IF Continues(archived[Len(archived)])
              THEN Append(archived, AllocationBody(archived, Len(archived), Draws[n]))
              ELSE archived
        Archived(evaluated) == Append(evaluated, ArchiveBody(evaluated, Development))
    IN  With(With(With(l \o Registration \o Runs, Archived), Closed),
             LAMBDA closed : Suffix(closed, Len(l)))

RecordsOf(p, l) ==
    RoundRecords(SubSeq(l, 1, p.start), p.round, p.parent, Child(Attempt(p)),
                 receipts.evidence[Attempt(p)])

\* Mutant: a half ingested round is not recognised.
OwnsTailEmpty(p, l) == p.start = Len(l)

\* Everything appended since the round started is a prefix of its records.
OwnsTail(p, l) == p.start <= Len(l) /\ IsPrefix(Suffix(l, p.start), RecordsOf(p, l))

----------------------------------------------------------------------------
\* verify_context: replay of everything durable, against the ledger l.

\* _verify_population_round_records: from its start to its head the ledger is
\* exactly what round n prepares, and the driver record refers to it.
OneExactSuffix(l, n) ==
    LET r == rounds[n]
        start == ExpectedStart(n)
        allocated == l[r.head].kind = "allocation"
    IN  /\ SubSeq(l, start + 1, r.head) =
               RoundRecords(SubSeq(l, 1, start), n, r.parent, r.child,
                            receipts.evidence[Attempt(r)])
        /\ r.allocation = IF allocated THEN r.head ELSE NoRecord
        /\ r.members = DOMAIN (IF allocated THEN l[r.head - 1] ELSE l[r.head]).members

\* _replay_round
RoundReplays(l, n) ==
    LET r == rounds[n]
    IN  /\ r.round = n
        /\ r.parent = ExpectedParent(n) /\ r.parentAllocation = ExpectedAllocation(n)
        /\ r.parent \in Candidates(l)
        /\ r.attempts >= 1 /\ r.evidenceAttempts >= 1
        /\ r.evidenceWall = r.evidenceAttempts * EvidenceTimeout
        /\ Attempt(r) \in DOMAIN receipts.controller \cap DOMAIN receipts.evidence
        /\ r.child = Child(Attempt(r))
        /\ r.head <= Len(l) /\ OneExactSuffix(l, n)

\* _verify_pending
PendingValid(l) ==
    LET p == pending
    IN  /\ p.parent = ExpectedParent(p.round) /\ p.allocation = ExpectedAllocation(p.round)
        /\ p.start = ExpectedStart(p.round) /\ p.start <= Len(l)
        /\ p.parent \in Candidates(l)
        /\ p.attempts >= 1
        /\ p.evidenceWall = Max({1, p.evidenceAttempts}) * EvidenceTimeout
        /\ p.stage # "evidence_complete" => Len(l) = p.start
        /\ p.stage # "controller_pending" => Attempt(p) \in DOMAIN receipts.controller
        /\ p.stage = "evidence_complete" =>
               /\ p.evidenceAttempts >= 1
               /\ Attempt(p) \in DOMAIN receipts.evidence
               /\ OwnsTail(p, l)

\* _classify_pending: a checkpoint of a round that is already committed.
CommittedPending == pending # NoPending /\ pending.round = Len(rounds)
ActivePending == pending # NoPending /\ pending.round = CurrentRound

Verifiable(l) ==
    /\ \A n \in 1..Len(rounds) : RoundReplays(l, n)
    /\ pending # NoPending => CommittedPending \/ (ActivePending /\ PendingValid(l))

----------------------------------------------------------------------------
\* The limits, as the cursor of the replay accumulates them.

\* Committed rounds, and the pending one.
Accounted == {rounds[n] : n \in 1..Len(rounds)} \cup (IF ActivePending THEN {pending} ELSE {})

ProposalCalls == MapThenSumSet(LAMBDA r : r.attempts, Accounted)
ReservedWall ==
    MapThenSumSet(LAMBDA r : r.attempts * ControllerTimeout + r.evidenceWall, Accounted)
TotalCost(l, name) ==
    MapThenSumSet(LAMBDA r : r.ev.cost[name],
                  {r \in Records(l, "run") : r.exp = Development})

FinalPhaseStarted(l) ==
    FinalEvaluationStarted(l) \/ \E e \in Experiments(l) : Role[e] = "final"

\* stop_status: the first reason not to start a round, given the ledger l.
StopStatus(l) ==
    LET atHead == Len(l) = ExpectedStart(CurrentRound)
        CostLeft == \A name \in ResourceNames :
                        TotalCost(l, name) + 2 * Budget[name] <= MaxCost[name]
        WallForRound == ReservedWall + ControllerTimeout + EvidenceTimeout <= MaxWall
    IN  IF FinalPhaseStarted(l) THEN "final_evidence_sealed"
        ELSE IF atHead /\ StateReachesGoal(l) THEN "development_goal_reached"
        ELSE IF Len(rounds) >= MaxRounds THEN "round_limit"
        ELSE IF ~ atHead THEN "population_state_advanced"
        ELSE IF ExpectedParent(CurrentRound) = NoCandidate THEN "empty_archive"
        ELSE IF ProposalCalls >= MaxProposalCalls THEN "proposal_call_limit"
        ELSE IF ~ CostLeft THEN "candidate_cost_limit"
        ELSE IF ~ WallForRound THEN "wall_reservation_limit"
        ELSE "none"

\* plan: the reason to stop, or "none" to start or to advance a round.
PlanStatus(l) ==
    IF pending = NoPending THEN StopStatus(l)
    ELSE IF FinalPhaseStarted(l) THEN "final_evidence_sealed"
    ELSE IF pending.stage # "evidence_complete" /\ Len(l) # pending.start
      THEN "population_state_advanced"
    ELSE "none"

----------------------------------------------------------------------------
\* Invocations.

TypeOK ==
    /\ IsLedger(ledger)
    /\ IsLedger(rounds)
    /\ pending.stage \in Stages \cup {"none"}
    /\ DOMAIN receipts = {"controller", "evidence"}
    /\ torn \subseteq {"population", "driver"}
    /\ popLock \in {"free", "driver", "operator", "abandoned"}
    /\ lock \in {"free", "held", "abandoned"}
    /\ pc \in States
    /\ pc # "off" <=> lock = "held"
    /\ popLock = "driver" <=> pc = "ingesting"
    /\ allow \in BOOLEAN
    /\ seen \in Nat
    /\ crashes \in 0..MaxCrashes /\ failures \in 0..MaxFailures /\ appends \in 0..MaxAppends

Init ==
    /\ ledger = << >>
    /\ rounds = << >>
    /\ pending = NoPending
    /\ receipts = [controller |-> << >>, evidence |-> << >>]
    /\ torn = {}
    /\ popLock = "free"
    /\ lock = "free"
    /\ pc = "off"
    /\ mode = <<"run">>
    /\ allow = FALSE
    /\ seen = 0
    /\ status = "none"
    /\ called = {}
    /\ calls = 0
    /\ adapters = 0
    /\ crashes = 0 /\ failures = 0 /\ appends = 0

Goto(s) == pc' = s /\ UNCHANGED <<lock, mode, seen, status>>

\* The command ends, with a summary or an error; locked_driver unlinks the lock.
Exit(s) ==
    /\ pc' = "off" /\ lock' = "free" /\ status' = s
    /\ mode' = <<"run">> /\ allow' = FALSE /\ seen' = 0

Modes == {<<"run">>, <<"verify">>} \cup {<<"retry", n>> : n \in 1..MaxRounds}

\* run, retry or verify, under the driver's lock file; run publishes a new
\* state directory with one rename.
Invoke(m) ==
    /\ pc = "off" /\ lock = "free"
    /\ m[1] = "run" \/ ledger # << >>
    /\ lock' = "held" /\ mode' = m /\ pc' = "verifying"
    /\ ledger' = IF ledger = << >> THEN InitialLedger ELSE ledger
    /\ UNCHANGED <<rounds, pending, receipts, torn, popLock, allow, seen, status,
                   history, bounds>>

\* verify_context.  A line the operator is writing may look torn.
Verify ==
    /\ pc = "verifying"
    /\ \/ /\ torn = {} /\ Verifiable(ledger)
          /\ pc' = "planning" /\ seen' = Len(ledger)
          /\ UNCHANGED <<lock, mode, allow, status>>
       \/ /\ torn # {} \/ ~ Verifiable(ledger) \/ popLock = "operator"
          /\ Exit("error")
    /\ UNCHANGED <<durable, popLock, history, bounds>>

\* The ledger as this invocation knows it.
Snapshot == SubSeq(ledger, 1, seen)

ClearCommitted ==
    /\ pc = "planning" /\ CommittedPending
    /\ pending' = NoPending
    /\ Goto("verifying")
    /\ UNCHANGED <<ledger, rounds, receipts, torn, popLock, allow, history, bounds>>

FinishVerify ==
    /\ pc = "planning" /\ ~ CommittedPending /\ mode[1] = "verify"
    /\ Exit("verified")
    /\ UNCHANGED <<durable, popLock, history, bounds>>

RetryAllowed ==
    /\ ActivePending /\ pending.round = mode[2]
    /\ pending.stage = "controller_pending"
    /\ Attempt(pending) \notin DOMAIN receipts.controller
    /\ ~ FinalPhaseStarted(Snapshot)
    /\ seen = pending.start
    /\ ProposalCalls < MaxProposalCalls
    /\ ReservedWall + ControllerTimeout <= MaxWall

\* retry_population_driver: one more attempt, which this invocation may call.
Retry ==
    /\ pc = "planning" /\ ~ CommittedPending /\ mode[1] = "retry"
    /\ IF RetryAllowed
         THEN /\ pending' = [pending EXCEPT !.attempts = @ + 1, !.error = FALSE]
              /\ pc' = "verifying" /\ mode' = <<"run">> /\ allow' = TRUE
              /\ UNCHANGED <<lock, seen, status>>
         ELSE pending' = pending /\ Exit("error")
    /\ UNCHANGED <<ledger, rounds, receipts, torn, popLock, history, bounds>>

Planning == pc = "planning" /\ ~ CommittedPending /\ mode[1] = "run"

\* _drive: stop, write a round intent, or advance the pending round.
Stop ==
    /\ Planning
    /\ PlanStatus(Snapshot) # "none"
    /\ Exit(PlanStatus(Snapshot))
    /\ UNCHANGED <<durable, popLock, history, bounds>>

StartPending ==
    /\ Planning /\ pending = NoPending
    /\ PlanStatus(Snapshot) = "none"
    /\ pending' = [stage |-> "controller_pending",
                   round |-> CurrentRound,
                   parent |-> ExpectedParent(CurrentRound),
                   allocation |-> ExpectedAllocation(CurrentRound),
                   start |-> seen,
                   attempts |-> 1,
                   evidenceAttempts |-> 0,
                   evidenceWall |-> EvidenceTimeout,
                   error |-> FALSE]
    /\ allow' = TRUE
    /\ Goto("verifying")
    /\ UNCHANGED <<ledger, rounds, receipts, torn, popLock, history, bounds>>

Advancing == Planning /\ pending # NoPending /\ PlanStatus(Snapshot) = "none"

----------------------------------------------------------------------------
\* advance_pending: the Controller.

\* A receipt of the last attempt exists: adopt it, call nothing.
AdoptControllerReceipt ==
    /\ Advancing /\ pending.stage = "controller_pending"
    /\ Attempt(pending) \in DOMAIN receipts.controller
    /\ pending' = [pending EXCEPT !.stage = "controller_complete", !.error = FALSE]
    /\ Goto("evidence")
    /\ UNCHANGED <<ledger, rounds, receipts, torn, popLock, allow, history, bounds>>

\* The call may have happened: only retry may repeat it.
LeaveIndeterminate ==
    /\ Advancing /\ pending.stage = "controller_pending"
    /\ Attempt(pending) \notin DOMAIN receipts.controller
    /\ ~ allow
    /\ Goto("refresh")
    /\ UNCHANGED <<durable, popLock, allow, history, bounds>>

\* Mutant: an existing intent is executed by an ordinary run.
CallControllerAgain ==
    /\ Advancing /\ pending.stage = "controller_pending"
    /\ Attempt(pending) \notin DOMAIN receipts.controller
    /\ called' = called \cup {Attempt(pending)}
    /\ calls' = calls + 1
    /\ Goto("controller")
    /\ UNCHANGED <<durable, popLock, allow, adapters, bounds>>

CallController ==
    /\ Advancing /\ pending.stage = "controller_pending"
    /\ Attempt(pending) \notin DOMAIN receipts.controller
    /\ allow
    /\ called' = called \cup {Attempt(pending)}
    /\ calls' = calls + 1
    /\ Goto("controller")
    /\ UNCHANGED <<durable, popLock, allow, adapters, bounds>>

\* A validated result becomes an immutable receipt, before the checkpoint.
ControllerReturns(c) ==
    /\ pc = "controller" /\ c # pending.parent
    /\ receipts' = [receipts EXCEPT !.controller = Recorded(@, Attempt(pending), c)]
    /\ Goto("controller_receipt")
    /\ UNCHANGED <<ledger, rounds, pending, torn, popLock, allow, history, bounds>>

CheckpointController ==
    /\ pc = "controller_receipt"
    /\ pending' = [pending EXCEPT !.stage = "controller_complete", !.error = FALSE]
    /\ Goto("evidence")
    /\ UNCHANGED <<ledger, rounds, receipts, torn, popLock, allow, history, bounds>>

\* Timeout, bad output, failing write of the receipt.
ControllerFails ==
    /\ pc = "controller" /\ failures < MaxFailures
    /\ failures' = failures + 1
    /\ pending' = [pending EXCEPT !.error = TRUE]
    /\ Goto("refresh")
    /\ UNCHANGED <<ledger, rounds, receipts, torn, popLock, allow, history, crashes, appends>>

----------------------------------------------------------------------------
\* run_evidence_adapter.

ReachEvidence ==
    /\ Advancing /\ pending.stage = "controller_complete"
    /\ Goto("evidence")
    /\ UNCHANGED <<durable, popLock, allow, history, bounds>>

AdoptEvidenceReceipt ==
    /\ pc = "evidence" /\ Attempt(pending) \in DOMAIN receipts.evidence
    /\ pending' = [pending EXCEPT !.stage = "evidence_complete", !.error = FALSE]
    /\ Goto("ingest")
    /\ UNCHANGED <<ledger, rounds, receipts, torn, popLock, allow, history, bounds>>

NeedsAdapter == pc = "evidence" /\ Attempt(pending) \notin DOMAIN receipts.evidence
WallLeft == ReservedWall + EvidenceTimeout <= MaxWall

EvidenceWallLimit ==
    /\ NeedsAdapter /\ pending.evidenceAttempts > 0 /\ ~ WallLeft
    /\ pending' = [pending EXCEPT !.error = TRUE]
    /\ Goto("refresh")
    /\ UNCHANGED <<ledger, rounds, receipts, torn, popLock, allow, history, bounds>>

\* Mutant: a repeated adapter call reserves nothing.
ReserveNothing ==
    /\ NeedsAdapter /\ pending.evidenceAttempts > 0
    /\ Goto("counting")
    /\ UNCHANGED <<durable, popLock, allow, history, bounds>>

\* Two checkpoints: the reservation first, then the attempt.
ReserveEvidence ==
    /\ NeedsAdapter /\ pending.evidenceAttempts > 0 /\ WallLeft
    /\ pending' = [pending EXCEPT !.evidenceWall = @ + EvidenceTimeout]
    /\ Goto("counting")
    /\ UNCHANGED <<ledger, rounds, receipts, torn, popLock, allow, history, bounds>>

CountEvidence ==
    /\ pc = "counting" \/ (NeedsAdapter /\ pending.evidenceAttempts = 0)
    /\ pending' = [pending EXCEPT !.evidenceAttempts = @ + 1, !.error = FALSE]
    /\ adapters' = adapters + 1
    /\ Goto("adapter")
    /\ UNCHANGED <<ledger, rounds, receipts, torn, popLock, allow, called, calls, bounds>>

AdapterReturns(ev) ==
    /\ pc = "adapter"
    /\ receipts' = [receipts EXCEPT !.evidence = Recorded(@, Attempt(pending), ev)]
    /\ Goto("evidence_receipt")
    /\ UNCHANGED <<ledger, rounds, pending, torn, popLock, allow, history, bounds>>

CheckpointEvidence ==
    /\ pc = "evidence_receipt"
    /\ pending' = [pending EXCEPT !.stage = "evidence_complete", !.error = FALSE]
    /\ Goto("ingest")
    /\ UNCHANGED <<ledger, rounds, receipts, torn, popLock, allow, history, bounds>>

AdapterFails ==
    /\ pc = "adapter" /\ failures < MaxFailures
    /\ failures' = failures + 1
    /\ pending' = [pending EXCEPT !.error = TRUE]
    /\ Goto("refresh")
    /\ UNCHANGED <<ledger, rounds, receipts, torn, popLock, allow, history, crashes, appends>>

----------------------------------------------------------------------------
\* complete_pending_round.

ReachIngest ==
    /\ Advancing /\ pending.stage = "evidence_complete"
    /\ Goto("ingest")
    /\ UNCHANGED <<durable, popLock, allow, history, bounds>>

\* Mutant: a round whose head has moved on is rebased on the current head.
BeginIngestRebased ==
    /\ pc = "ingest"
    /\ IF popLock = "free" /\ "population" \notin torn
         THEN /\ popLock' = "driver" /\ allow' = allow /\ Goto("ingesting")
              /\ pending' = IF OwnsTail(pending, ledger) THEN pending
                            ELSE [pending EXCEPT !.start = Len(ledger)]
         ELSE popLock' = popLock /\ pending' = pending /\ Exit("error")
    /\ UNCHANGED <<ledger, rounds, receipts, torn, history, bounds>>

\* The Population lock, a fresh load, and the check of what is there already.
BeginIngest ==
    /\ pc = "ingest"
    /\ IF popLock = "free" /\ "population" \notin torn /\ OwnsTail(pending, ledger)
         THEN popLock' = "driver" /\ allow' = allow /\ Goto("ingesting")
         ELSE popLock' = popLock /\ Exit("error")
    /\ UNCHANGED <<durable, history, bounds>>

Ingested == Len(ledger) - pending.start
Complete == Ingested = Len(RecordsOf(pending, ledger))

\* ensure_population_record appends what is missing, one record at a time.
IngestRecord ==
    /\ pc = "ingesting" /\ ~ Complete
    /\ LET r == RecordsOf(pending, ledger)[Ingested + 1]
       IN  IF RecordValid(ledger, r)
             THEN /\ ledger' = Append(ledger, r)
                  /\ UNCHANGED <<popLock, invocation, lock>>
             ELSE ledger' = ledger /\ popLock' = "free" /\ Exit("error")
    /\ UNCHANGED <<rounds, pending, receipts, torn, history, bounds>>

\* Mutant: the Population lock is kept.
FinishIngestLocked ==
    /\ pc = "ingesting" /\ Complete
    /\ Goto("commit")
    /\ UNCHANGED <<durable, popLock, allow, history, bounds>>

FinishIngest ==
    /\ pc = "ingesting" /\ Complete
    /\ popLock' = "free"
    /\ Goto("commit")
    /\ UNCHANGED <<durable, allow, history, bounds>>

\* The driver record, from the references collected during ingestion.
Commit ==
    /\ pc = "commit"
    /\ LET head == pending.start + Len(RecordsOf(pending, ledger))
           allocated == ledger[head].kind = "allocation"
       IN  rounds' = Append(rounds,
             [round |-> pending.round,
              parent |-> pending.parent,
              parentAllocation |-> pending.allocation,
              child |-> Child(Attempt(pending)),
              attempts |-> pending.attempts,
              evidenceAttempts |-> pending.evidenceAttempts,
              evidenceWall |-> pending.evidenceWall,
              head |-> head,
              allocation |-> IF allocated THEN head ELSE NoRecord,
              members |-> DOMAIN ledger[IF allocated THEN head - 1 ELSE head].members])
    /\ Goto("remove")
    /\ UNCHANGED <<ledger, pending, receipts, torn, popLock, allow, history, bounds>>

RemovePending ==
    /\ pc = "remove"
    /\ pending' = NoPending
    /\ allow' = TRUE
    /\ Goto("verifying")
    /\ UNCHANGED <<ledger, rounds, receipts, torn, popLock, history, bounds>>

\* _drive after an advance that did not complete the round.
Refresh ==
    /\ pc = "refresh"
    /\ IF torn = {} /\ Verifiable(ledger) THEN Exit("pending_round") ELSE Exit("error")
    /\ UNCHANGED <<durable, popLock, history, bounds>>

----------------------------------------------------------------------------
\* The environment.

\* The invocation ends in the middle: an exception releases its locks, a kill
\* leaves them.  The line it was appending may be incomplete.
Crash ==
    /\ pc # "off" /\ crashes < MaxCrashes
    /\ crashes' = crashes + 1
    /\ \E killed \in BOOLEAN :
          /\ lock' = IF killed THEN "abandoned" ELSE "free"
          /\ popLock' = IF pc # "ingesting" THEN popLock
                        ELSE IF killed THEN "abandoned" ELSE "free"
    /\ torn' \in {torn, torn \cup (CASE pc = "commit" -> {"driver"}
                                     [] pc = "ingesting" /\ ~ Complete -> {"population"}
                                     [] OTHER -> {})}
    /\ pc' = "off" /\ mode' = <<"run">> /\ allow' = FALSE /\ seen' = 0 /\ status' = "crashed"
    /\ UNCHANGED <<ledger, rounds, pending, receipts, history, failures, appends>>

\* A caller inspects abandoned locks and removes them.
RemoveAbandonedLocks ==
    /\ lock = "abandoned" \/ popLock = "abandoned"
    /\ lock' = IF lock = "abandoned" THEN "free" ELSE lock
    /\ popLock' = IF popLock = "abandoned" THEN "free" ELSE popLock
    /\ UNCHANGED <<durable, invocation, history, bounds>>

\* The operator appends to the ledger with the Population command line, under
\* the Population lock only; PopulationCommands is the detailed model.
OperatorBegins ==
    /\ ledger # << >> /\ popLock = "free" /\ appends < MaxAppends
    /\ popLock' = "operator" /\ appends' = appends + 1
    /\ UNCHANGED <<durable, lock, invocation, history, crashes, failures>>

OperatorAppends(r) ==
    /\ popLock = "operator" /\ torn = {}
    /\ RecordValid(ledger, r)
    /\ ledger' = Append(ledger, r)
    /\ popLock' = "free"
    /\ UNCHANGED <<rounds, pending, receipts, torn, lock, invocation, history, bounds>>

OperatorGivesUp ==
    /\ popLock = "operator"
    /\ popLock' = "free"
    /\ UNCHANGED <<durable, lock, invocation, history, bounds>>

OperatorDies ==
    /\ popLock = "operator" /\ crashes < MaxCrashes
    /\ popLock' = "abandoned" /\ crashes' = crashes + 1
    /\ torn' \in {torn, torn \cup {"population"}}
    /\ UNCHANGED <<ledger, rounds, pending, receipts, lock, invocation, history, failures, appends>>

Controller == CallController \/ CheckpointController \/ AdoptControllerReceipt
                  \/ LeaveIndeterminate \/ \E c \in Candidate : ControllerReturns(c)
Adapter == ReachEvidence \/ AdoptEvidenceReceipt \/ EvidenceWallLimit \/ ReserveEvidence
               \/ CountEvidence \/ CheckpointEvidence \/ \E ev \in Evidence : AdapterReturns(ev)
Ingestion == ReachIngest \/ BeginIngest \/ IngestRecord \/ FinishIngest \/ Commit \/ RemovePending
Planner == Verify \/ ClearCommitted \/ FinishVerify \/ Retry \/ Stop \/ StartPending
               \/ Refresh

Driver == Planner \/ Controller \/ Adapter \/ Ingestion

Next ==
    \/ \E m \in Modes : Invoke(m)
    \/ Driver
    \/ ControllerFails \/ AdapterFails
    \/ Crash \/ RemoveAbandonedLocks
    \/ OperatorBegins \/ (\E r \in OperatorRecord : OperatorAppends(r)) \/ OperatorGivesUp
    \/ OperatorDies

Spec == Init /\ [][Next]_vars

\* A running invocation proceeds; locks are dealt with; run is run again.  The
\* first conjunct is WF_vars(Driver) with its ENABLED written out: while an
\* invocation runs it has a next step.
Fairness ==
    /\ []<>(pc = "off") \/ []<><<Driver>>_vars
    /\ WF_vars(RemoveAbandonedLocks)
    /\ SF_vars(Invoke(<<"run">>))
    /\ WF_vars(OperatorGivesUp)

FairSpec == Spec /\ Fairness

----------------------------------------------------------------------------
\* Properties.

Approvals(r) == {<<r.round, k>> : k \in 1..r.attempts}

Approved == UNION {Approvals(r) : r \in Accounted}

Protocol == INSTANCE RoundProtocol
    WITH completed <- Len(rounds), approved <- Approved

\* Every Controller call is approved by a durable intent first and an approval
\* is spent at most once, through every death and resumption: an ordinary run
\* never repeats a possibly completed model call, and no round is committed
\* without one (allow_controller in _drive, retry_population_driver).
ImplementsProtocol == Protocol!Spec

\* The records a round prepares are never refused by the rules of the
\* Population ledger (append_validated_record inside ensure_population_record):
\* a refusal would leave the round half ingested for ever.
RecordsAccepted ==
    (pc = "ingesting" /\ ~ Complete)
        => RecordValid(ledger, RecordsOf(pending, ledger)[Ingested + 1])

\* What was started was reserved durably before, and the reservations never
\* exceed the configured limits, through failures, retries and resumptions
\* (stop_status, retry_population_driver, run_evidence_adapter).
SpendWithinReservation ==
    /\ calls <= ProposalCalls
    /\ ProposalCalls <= MaxProposalCalls
    /\ calls * ControllerTimeout + adapters * EvidenceTimeout <= ReservedWall
    /\ ReservedWall <= MaxWall

\* Every committed round can be recomputed from the ledger before it, its
\* receipts and the configuration, whatever else is appended later
\* (_replay_round; a round that stopped replaying would lock the state up).
RoundsReplay == \A n \in 1..Len(rounds) : RoundReplays(ledger, n)

\* No round has a record after the declaration of a final experiment: no
\* search is informed by final work, although the driver decides on a
\* snapshot the operator may have outrun (final_phase_started, the prefix
\* check of ensure_population_record).
SearchPrecedesFinal ==
    \A n \in 1..Len(rounds) :
        \A i \in Indices(ledger, "experiment") :
            Role[ledger[i].exp] = "final" => i > rounds[n].head

\* The reservation of a repeated adapter call is written, its attempt not.
ReservationGap ==
    /\ ActivePending
    /\ pending.evidenceWall # Max({1, pending.evidenceAttempts}) * EvidenceTimeout

Undisturbed == appends = 0 /\ torn = {}

\* Whatever step an invocation died at, the next one can replay the state,
\* as long as nobody else appended and no line is torn; the one exception is
\* the gap between the two checkpoints of run_evidence_adapter.
ResumableOutsideGap == Undisturbed /\ ~ ReservationGap => Verifiable(ledger)

\* Whatever is on disk replays: the rounds that were committed, always, and what
\* a dead invocation left of the next one, as far as nobody interfered.
StateReplays == RoundsReplay /\ ResumableOutsideGap

\* A round whose model call is durable is committed in the end without another
\* call, if the driver is run again and again, calls stop failing, and nobody
\* interferes; unless the wall limit forbids another adapter call.
DurableRoundsCommit ==
    (ActivePending /\ pending.stage # "controller_pending")
        ~> \/ pending = NoPending
           \/ ~ Undisturbed \/ ReservationGap
           \/ ActivePending /\ pending.evidenceAttempts > 0 /\ ~ WallLeft

\* What docs/source-architecture.md says of every interruption after the
\* Controller receipt: evidence resumes idempotently.
EvidenceResumes ==
    Undisturbed /\ ActivePending /\ pending.stage = "controller_complete" /\ pc = "off"
        => Verifiable(ledger)
=============================================================================
