-------------------------- MODULE HarnessExperiment --------------------------
(***************************************************************************)
(* A harness experiment root (apps/harness): development rounds of the     *)
(* Population Driver, each a Controller whose runs leave content-addressed *)
(* receipts, then one protected final assay, the selected harness and a    *)
(* report.  A root is finished by as many commands as it takes: one "run"  *)
(* makes it, "resume" continues whatever is durable, and "retry" spends    *)
(* one more Controller call on a pending round after writing down which    *)
(* receipts were on disk (state/retry-effects).                            *)
(*                                                                         *)
(* A report must verify offline: every receipt on disk belongs to exactly  *)
(* one authenticated run or to the effects of an attempt that was retried. *)
(* Commands may die anywhere; the Controller of a dead command runs on in  *)
(* its own session (apps/_support/process.py) and still writes receipts.   *)
(*                                                                         *)
(* The driver itself is PopulationDriver; here one step is one of its      *)
(* durable writes.                                                         *)
(***************************************************************************)
EXTENDS Naturals, SequencesExt

CONSTANTS
    Process,            \* commands of the operator
    NoProcess,
    Assay,              \* "arithmetic-v1" or "coding-agent-v1"
    MaxRounds,          \* limits of harness_driver_request
    MaxProposalCalls,
    CapabilityDraws,    \* <<index of the best member, members>> an archive may have
    Cases,              \* run receipts of a generation, and of the final assay
    MaxCrashes,         \* bound on deaths of a command
    MaxFailures         \* bound on failing Controllers and evidence adapters

ASSUME HarnessAssumption ==
    /\ MaxRounds \in Nat \ {0} /\ MaxProposalCalls \in Nat \ {0} /\ Cases \in Nat \ {0}
    /\ Assay \in {"arithmetic-v1", "coding-agent-v1"}
    /\ NoProcess \notin Process

VARIABLES
    root,       \* "absent", "made", or "driver" once STATE/driver.jsonl exists
    files,      \* which of selected-harness.json and experiment-report.json exist
    rounds,     \* driver.jsonl: per committed round its attempts and the one it used
    pending,    \* pending/round-intent.json
    responses,  \* the driver's Controller receipts: attempts that have one
    effects,    \* state/retry-effects: [attempt -> receipts]
    receipts,   \* receipts/: run receipts, <<attempt, case>>
    bundles,    \* receipts/: final assay bundles, each the receipts it names
    archive,    \* the capability-first draw of the latest archive
    trailing,   \* draw of the allocation after that archive, or NoDraw
    final,      \* the final experiment: how far it is, and the bundle its run names
    lock,       \* STATE.lock: NoProcess or its holder
    pc,         \* each command's next step, "off" when it does not run
    wrote,      \* the retry-effects document a retry wrote and will name
    controllers, \* attempts whose Controller runs, whether its command lives or not
    gaps,       \* history: what broke receipt closure (see ReportsVerify)
    crashes, failures

driverState == <<root, rounds, pending, responses, archive>>
evidence == <<effects, receipts, bundles>>
sealing == <<files, trailing, final>>
history == <<gaps, crashes, failures>>
vars == <<root, files, rounds, pending, responses, effects, receipts, bundles, archive,
          trailing, final, lock, pc, wrote, controllers, gaps, crashes, failures>>

NoDraw == <<>>
DriverDraw == <<0, 1>>  \* request.allocation_draws
FinalDraw == IF Assay = "arithmetic-v1" THEN DriverDraw ELSE archive

FinalAttempt == <<0, 0>>
\* A run receipt is bound to its candidate, task, result and runtime
\* (verify_receipt_binding): an attempt and one of its cases.
Receipt(a, c) == <<a, c>>
ReceiptsOf(a) == {Receipt(a, c) : c \in 1..Cases}
NoPending == [round |-> 0, bound |-> <<>>]

\* An attempt is <<round, ordinal>>; bound[n] is the retry-effects document that
\* the reason of attempt n names, NoDocument for a first attempt.
Document(a, kept) == [attempt |-> a, receipts |-> kept]
NoDocument == Document(FinalAttempt, {})
Attempt == <<pending.round, Len(pending.bound)>>
Active == pending.round = Len(rounds) + 1
CallsOf(committed, n) == FoldSeq(LAMBDA bound, k : Len(bound) + k, n, committed)
ProposalCalls == CallsOf(rounds, IF Active THEN Len(pending.bound) ELSE 0)

At(p, step) == pc[p] = step
Goto(p, step) == pc' = [pc EXCEPT ![p] = step]
\* A command that ends in the driver gives its lock back (locked_driver).
Leaves(p, step) == Goto(p, step) /\ lock' = NoProcess

Init ==
    /\ root = "absent"
    /\ files = {}
    /\ rounds = <<>>
    /\ pending = NoPending
    /\ responses = {}
    /\ effects = <<>>
    /\ receipts = {}
    /\ bundles = {}
    /\ archive = NoDraw
    /\ trailing = NoDraw
    /\ final = [stage |-> "none", names |-> {}]
    /\ lock = NoProcess
    /\ pc = [p \in Process |-> "off"]
    /\ wrote = [p \in Process |-> NoDocument]
    /\ controllers = {}
    /\ gaps = {}
    /\ crashes = 0
    /\ failures = 0

----------------------------------------------------------------------------
\* Commands.

\* run_experiment refuses a root that exists; a failing setup (repository,
\* conformance, request) leaves a root nothing can continue.
Run(p) ==
    /\ At(p, "off") /\ root = "absent"
    /\ root' = "made" /\ Goto(p, "setup")
    /\ UNCHANGED <<rounds, pending, responses, archive, evidence, sealing, lock, wrote,
                   controllers, history>>

SetUp(p) ==
    /\ At(p, "setup")
    /\ root' = "driver" /\ lock' = p /\ Goto(p, "drive")
    /\ UNCHANGED <<rounds, pending, responses, archive, evidence, sealing, wrote,
                   controllers, history>>

\* continue_experiment; with a report it only verifies, and refuses a retry.
Resume(p) ==
    /\ At(p, "off") /\ root = "driver" /\ "report" \notin files
    /\ lock = NoProcess
    /\ lock' = p /\ Goto(p, "drive")
    /\ UNCHANGED <<driverState, evidence, sealing, wrote, controllers, history>>

Retry(p) ==
    /\ At(p, "off") /\ root = "driver" /\ "report" \notin files
    /\ Goto(p, "effects")
    /\ UNCHANGED <<driverState, evidence, sealing, lock, wrote, controllers, history>>

Fails(p) == Goto(p, "off") /\ UNCHANGED <<driverState, evidence, sealing, lock, wrote,
                                           controllers, history>>

\* Mutant: an attempt that left no receipts needs no document.
EffectsIfAny(p) ==
    /\ At(p, "effects") /\ pending # NoPending
    /\ Attempt \in DOMAIN effects => effects[Attempt] = receipts
    /\ effects' = [a \in DOMAIN effects \cup (IF receipts = {} THEN {} ELSE {Attempt}) |->
                      IF a = Attempt THEN receipts ELSE effects[a]]
    /\ wrote' = [wrote EXCEPT ![p] = Document(Attempt, receipts)]
    /\ gaps' = IF \/ ~Active \/ Attempt \in responses \/ ProposalCalls >= MaxProposalCalls
                  \/ \E q \in Process : pc[q] \in {"call", "calling"}
                 THEN gaps \cup {"unretriable"} ELSE gaps
    /\ Goto(p, "reserve")
    /\ UNCHANGED <<driverState, receipts, bundles, sealing, lock, controllers,
                   crashes, failures>>

\* _record_harness_retry_effects: the receipts on disk are written down once per
\* attempt.  Nothing here asks the driver whether it would accept the retry.
RecordEffects(p) ==
    /\ At(p, "effects") /\ pending # NoPending
    /\ Attempt \in DOMAIN effects => effects[Attempt] = receipts
    /\ effects' = [a \in DOMAIN effects \cup {Attempt} |->
                      IF a = Attempt THEN receipts ELSE effects[a]]
    /\ wrote' = [wrote EXCEPT ![p] = Document(Attempt, receipts)]
    /\ gaps' = IF \/ ~Active \/ Attempt \in responses \/ ProposalCalls >= MaxProposalCalls
                  \/ \E q \in Process : pc[q] \in {"call", "calling"}
                 THEN gaps \cup {"unretriable"} ELSE gaps
    /\ Goto(p, "reserve")
    /\ UNCHANGED <<driverState, receipts, bundles, sealing, lock, controllers,
                   crashes, failures>>

\* No pending intent, or "harness retry-effects receipt conflicts".
EffectsConflict(p) ==
    /\ At(p, "effects")
    /\ pending = NoPending \/ (Attempt \in DOMAIN effects /\ effects[Attempt] # receipts)
    /\ Fails(p)

\* retry_population_driver: only an attempt without a response is repeated.
Retriable == /\ Active /\ Attempt \notin responses
             /\ final.stage \notin {"declared", "run"}
             /\ ProposalCalls < MaxProposalCalls

\* The retry names the intent, not the attempt whose effects were written down.
Reserve(p) ==
    /\ At(p, "reserve") /\ lock = NoProcess
    /\ Retriable /\ pending.round = wrote[p].attempt[1]
    /\ pending' = [pending EXCEPT !.bound = Append(@, wrote[p])]
    /\ gaps' = IF Attempt # wrote[p].attempt THEN gaps \cup {"overtaken"} ELSE gaps
    /\ lock' = p /\ Goto(p, "call")
    /\ wrote' = [wrote EXCEPT ![p] = NoDocument]
    /\ UNCHANGED <<root, rounds, responses, archive, evidence, sealing, controllers,
                   crashes, failures>>

\* The refusal of a committed round's checkpoint removes it on the way.
ReserveRefused(p) ==
    /\ At(p, "reserve")
    /\ \/ lock # NoProcess /\ pending' = pending
       \/ /\ lock = NoProcess /\ ~(Retriable /\ pending.round = wrote[p].attempt[1])
          /\ pending' = IF Active THEN pending ELSE NoPending
    /\ Goto(p, "off")
    /\ wrote' = [wrote EXCEPT ![p] = NoDocument]
    /\ UNCHANGED <<root, rounds, responses, archive, evidence, sealing, lock,
                   controllers, history>>

----------------------------------------------------------------------------
\* Development: the rounds of the driver, one durable write a step.

Stopped ==
    \/ final.stage # "none"
    \/ rounds # <<>> /\ trailing = NoDraw   \* last round, goal reached or empty archive
    \/ ProposalCalls >= MaxProposalCalls

StartRound(p) ==
    /\ At(p, "drive") /\ pending = NoPending /\ ~Stopped
    /\ pending' = [round |-> Len(rounds) + 1, bound |-> <<NoDocument>>]
    /\ Goto(p, "call")
    /\ UNCHANGED <<root, rounds, responses, archive, evidence, sealing, lock, wrote,
                   controllers, history>>

\* A checkpoint of a committed round is removed; a pending round with a response
\* goes on; one without ends the command, which asks for a retry.
ContinueRound(p) ==
    /\ At(p, "drive") /\ pending # NoPending
    /\ \/ ~Active /\ pending' = NoPending /\ UNCHANGED <<pc, lock>>
       \/ Active /\ Attempt \in responses /\ Goto(p, "adapt") /\ UNCHANGED <<pending, lock>>
       \/ Active /\ Attempt \notin responses /\ Leaves(p, "off") /\ UNCHANGED pending
    /\ UNCHANGED <<root, rounds, responses, archive, evidence, sealing, wrote,
                   controllers, history>>

StopSearch(p) ==
    /\ At(p, "drive") /\ pending = NoPending /\ Stopped
    /\ Leaves(p, "finish")
    /\ UNCHANGED <<driverState, evidence, sealing, wrote, controllers, history>>

CallController(p) ==
    /\ At(p, "call")
    /\ controllers' = controllers \cup {Attempt}
    /\ Goto(p, "calling")
    /\ UNCHANGED <<driverState, evidence, sealing, lock, wrote, history>>

\* write_receipt: content-addressed, case after case.
Publishes(a) ==
    \E c \in 1..Cases :
        /\ Receipt(a, c) \notin receipts
        /\ c > 1 => Receipt(a, c - 1) \in receipts
        /\ receipts' = receipts \cup {Receipt(a, c)}

\* harness_runner: a finished run publishes its receipt before it answers.
PublishReceipt(a) ==
    /\ a \in controllers
    /\ Publishes(a)
    /\ gaps' = IF a \in DOMAIN effects THEN gaps \cup {"late"} ELSE gaps
    /\ UNCHANGED <<driverState, effects, bundles, sealing, lock, pc, wrote, controllers,
                   crashes, failures>>

ControllerAnswers(p) ==
    /\ At(p, "calling") /\ ReceiptsOf(Attempt) \subseteq receipts
    /\ responses' = responses \cup {Attempt}
    /\ controllers' = controllers \ {Attempt}
    /\ Goto(p, "adapt")
    /\ UNCHANGED <<root, rounds, pending, archive, evidence, sealing, lock, wrote, history>>

ControllerFails(p) ==
    /\ At(p, "calling") /\ failures < MaxFailures
    /\ controllers' = controllers \ {Attempt}
    /\ failures' = failures + 1
    /\ Leaves(p, "off")
    /\ UNCHANGED <<driverState, evidence, sealing, wrote, gaps, crashes>>

\* The Controller of a dead command ends, and nobody reads its answer.
OrphanEnds(a) ==
    /\ a \in controllers
    /\ \A p \in Process : At(p, "calling") => Attempt # a
    /\ controllers' = controllers \ {a}
    /\ UNCHANGED <<driverState, evidence, sealing, lock, pc, wrote, history>>

AdapterFails(p) ==
    /\ At(p, "adapt") /\ failures < MaxFailures
    /\ failures' = failures + 1
    /\ Leaves(p, "off")
    /\ UNCHANGED <<driverState, evidence, sealing, wrote, controllers, gaps, crashes>>

\* The round's archive, and an allocation unless the search ends with it.
Commit(p) ==
    /\ At(p, "adapt")
    /\ rounds' = Append(rounds, pending.bound)
    /\ archive' \in CapabilityDraws \cup {NoDraw}
    /\ \E goal \in BOOLEAN :
        trailing' = IF archive' # NoDraw /\ Len(rounds') < MaxRounds /\ ~goal
                      THEN DriverDraw ELSE NoDraw
    /\ Goto(p, "drive")
    /\ UNCHANGED <<root, pending, responses, evidence, files, final, lock, wrote,
                   controllers, history>>

----------------------------------------------------------------------------
\* The protected final assay, outside the driver's lock.

\* _completed_harness_final
HasFinalRun == final.stage = "run"

\* Mutant: any final experiment counts as started without a complete run.
FinishSealed(p) ==
    /\ At(p, "finish")
    /\ Goto(p, IF final.stage \in {"declared", "run"} \/ archive = NoDraw
                 THEN "off" ELSE "allocate")
    /\ UNCHANGED <<driverState, evidence, sealing, lock, wrote, controllers, history>>

\* _finish_experiment: a final run is reported, a final that was only declared is
\* sealed for ever, and coding needs a member to select.
Finish(p) ==
    /\ At(p, "finish")
    /\ Goto(p, IF HasFinalRun THEN "select"
               ELSE IF final.stage = "declared" \/ archive = NoDraw THEN "off"
               ELSE "allocate")
    /\ UNCHANGED <<driverState, evidence, sealing, lock, wrote, controllers, history>>

\* Mutant: an allocation that is already there is not used again.
AllocateAnew(p) ==
    /\ At(p, "allocate") /\ final.stage \notin {"declared", "run"}
    /\ trailing = NoDraw
    /\ trailing' = FinalDraw
    /\ final' = [final EXCEPT !.stage = "allocated"]
    /\ Goto(p, "declare")
    /\ UNCHANGED <<driverState, evidence, files, lock, wrote, controllers, history>>

\* _select_final_candidate: the archive's one trailing allocation, if it is the
\* same, or a new one.
Allocate(p) ==
    /\ At(p, "allocate") /\ final.stage \notin {"declared", "run"}
    /\ \/ trailing = FinalDraw /\ UNCHANGED <<trailing, final>>
       \/ /\ trailing = NoDraw
          /\ trailing' = FinalDraw
          /\ final' = [final EXCEPT !.stage = "allocated"]
    /\ Goto(p, "declare")
    /\ UNCHANGED <<driverState, evidence, files, lock, wrote, controllers, history>>

\* "development archive has a conflicting trailing allocation"
AllocateRefused(p) ==
    /\ At(p, "allocate")
    /\ final.stage \in {"declared", "run"} \/ trailing \notin {NoDraw, FinalDraw}
    /\ Fails(p)

\* Mutant: the ledger is not read again under its lock.
DeclareUnchecked(p) ==
    /\ At(p, "declare")
    /\ final' = [final EXCEPT !.stage = "declared"]
    /\ Goto(p, "cases")
    /\ UNCHANGED <<driverState, evidence, files, trailing, lock, wrote, controllers, history>>

\* _append_final_experiment: the task set is one-use.
Declare(p) ==
    /\ At(p, "declare") /\ final.stage \notin {"declared", "run"}
    /\ final' = [final EXCEPT !.stage = "declared"]
    /\ Goto(p, "cases")
    /\ UNCHANGED <<driverState, evidence, files, trailing, lock, wrote, controllers, history>>

DeclareRefused(p) ==
    /\ At(p, "declare") /\ final.stage \in {"declared", "run"}
    /\ Fails(p)

RunCase(p) ==
    /\ At(p, "cases")
    /\ Publishes(FinalAttempt)
    /\ UNCHANGED <<driverState, effects, bundles, sealing, lock, pc, wrote, controllers,
                   history>>

CaseFails(p) ==
    /\ At(p, "cases") /\ failures < MaxFailures
    /\ failures' = failures + 1
    /\ Goto(p, "off")
    /\ UNCHANGED <<driverState, evidence, sealing, lock, wrote, controllers, gaps, crashes>>

WriteBundle(p) ==
    /\ At(p, "cases") /\ ReceiptsOf(FinalAttempt) \subseteq receipts
    /\ bundles' = bundles \cup {ReceiptsOf(FinalAttempt)}
    /\ Goto(p, "record")
    /\ UNCHANGED <<driverState, effects, receipts, sealing, lock, wrote, controllers, history>>

RecordFinalRun(p) ==
    /\ At(p, "record")
    /\ final' = [stage |-> "run", names |-> ReceiptsOf(FinalAttempt)]
    /\ Goto(p, "select")
    /\ UNCHANGED <<driverState, evidence, files, trailing, lock, wrote, controllers, history>>

SelectHarness(p) ==
    /\ At(p, "select")
    /\ files' = IF Assay = "coding-agent-v1" THEN files \cup {"selected"} ELSE files
    /\ Goto(p, "report")
    /\ UNCHANGED <<driverState, evidence, trailing, final, lock, wrote, controllers, history>>

\* verify_population_driver takes the driver's lock and may find it held.
Report(p) ==
    /\ At(p, "report")
    /\ \/ lock = NoProcess /\ files' = files \cup {"report"}
       \/ lock # NoProcess /\ files' = files
    /\ Goto(p, "off")
    /\ UNCHANGED <<driverState, evidence, trailing, final, lock, wrote, controllers, history>>

----------------------------------------------------------------------------
\* Failures.

\* A command dies; a Controller it called and a lock it held stay.
Die(p) ==
    /\ ~At(p, "off") /\ crashes < MaxCrashes
    /\ crashes' = crashes + 1
    /\ Goto(p, "off")
    /\ wrote' = [wrote EXCEPT ![p] = NoDocument]
    /\ UNCHANGED <<driverState, evidence, sealing, lock, controllers, gaps, failures>>

\* The operator removes the lock of a dead command.
RemoveLock ==
    /\ lock # NoProcess /\ At(lock, "off")
    /\ lock' = NoProcess
    /\ UNCHANGED <<driverState, evidence, sealing, pc, wrote, controllers, history>>

Step(p) ==
    \/ SetUp(p)
    \/ RecordEffects(p) \/ EffectsConflict(p) \/ Reserve(p) \/ ReserveRefused(p)
    \/ StartRound(p) \/ ContinueRound(p) \/ StopSearch(p) \/ CallController(p)
    \/ ControllerAnswers(p) \/ Commit(p)
    \/ Finish(p) \/ Allocate(p) \/ AllocateRefused(p) \/ Declare(p) \/ DeclareRefused(p)
    \/ RunCase(p) \/ WriteBundle(p) \/ RecordFinalRun(p) \/ SelectHarness(p) \/ Report(p)

Attempts == (1..MaxRounds) \X (1..MaxProposalCalls)

Next ==
    \/ \E p \in Process :
        \/ Run(p) \/ Resume(p) \/ Retry(p) \/ Step(p)
        \/ ControllerFails(p) \/ AdapterFails(p) \/ CaseFails(p) \/ Die(p)
    \/ \E a \in Attempts : PublishReceipt(a) \/ OrphanEnds(a)
    \/ RemoveLock

Spec == Init /\ [][Next]_vars

Quiet == \A p \in Process : At(p, "off")

\* Commands and Controllers go on (their calls have timeouts), and the operator
\* removes stale locks and, whatever else is tried, resumes again and again while
\* no command runs.
Fairness ==
    /\ \A p \in Process : WF_vars(Step(p))
    /\ \A a \in Attempts : WF_vars(PublishReceipt(a)) /\ WF_vars(OrphanEnds(a))
    /\ SF_vars(RemoveLock)
    /\ SF_vars(Quiet /\ \E p \in Process : Resume(p))
FairSpec == Spec /\ Fairness

----------------------------------------------------------------------------
\* What a root promises.

TypeOK ==
    /\ root \in {"absent", "made", "driver"}
    /\ files \subseteq {"selected", "report"}
    /\ Len(rounds) <= MaxRounds
    /\ responses \subseteq Attempts /\ controllers \subseteq Attempts
    /\ DOMAIN effects \subseteq Attempts
    /\ receipts \subseteq UNION {ReceiptsOf(a) : a \in Attempts \cup {FinalAttempt}}
    /\ final.stage \in {"none", "allocated", "declared", "run"}
    /\ lock \in Process \cup {NoProcess}
    /\ gaps \subseteq {"unretriable", "overtaken", "late"}
    /\ crashes \in 0..MaxCrashes /\ failures \in 0..MaxFailures

\* _verify_development_receipts
Used(n) == <<n, Len(rounds[n])>>
DevelopmentReceipts == UNION {ReceiptsOf(Used(n)) : n \in DOMAIN rounds}
Superseded == UNION {{<<n, i>> : i \in 1..(Len(rounds[n]) - 1)} : n \in DOMAIN rounds}

\* _verify_final_receipts
FinalVerifies == HasFinalRun /\ trailing = FinalDraw /\ final.names = ReceiptsOf(FinalAttempt)

\* _verify_receipt_closure
ReceiptsClose ==
    /\ DOMAIN effects = Superseded
    /\ \A a \in Superseded : rounds[a[1]][a[2] + 1] = Document(a, effects[a])
    /\ receipts = DevelopmentReceipts \cup final.names \cup UNION {effects[a] : a \in DOMAIN effects}
    /\ bundles = {final.names}

\* verify_experiment
Verifies ==
    /\ FinalVerifies
    /\ Assay = "coding-agent-v1" => "selected" \in files
    /\ ReceiptsClose

\* A written report verifies, however often commands died, failed and were
\* retried, unless the effects of an attempt were written down that could not be
\* retried, another retry overtook this one, or a Controller of a dead command
\* published a receipt after its effects were written down.
ReportsVerify == "report" \in files => Verifies \/ gaps # {}

\* The protected tasks are run once: no command runs them that does not itself
\* declare the final experiment, and it finds none declared.
FinalIsOneUse ==
    [][\A p \in Process : pc'[p] = "cases" /\ ~At(p, "cases") =>
         /\ final.stage \notin {"declared", "run"}
         /\ \A q \in Process : pc[q] \notin {"cases", "record"}]_vars

\* Commands of one operator, one after the other, once in a while.
Alone == \A p, q \in Process : ~At(p, "off") /\ ~At(q, "off") => p = q

\* What was paid for is reported: a final run in the ledger leads to a report,
\* whatever dies after it was appended.
FinalRunIsReported ==
    <>[]Alone => (final.stage = "run" ~> "report" \in files)

\* A search that stopped with a survivor goes on to its final assay, unless the
\* allocation it stopped with is not the one the final assay asks for.
Assayable ==
    /\ pending = NoPending /\ Stopped
    /\ archive # NoDraw /\ trailing \in {NoDraw, FinalDraw}
SearchIsAssayed == <>[]Alone => (Assayable ~> final.stage \in {"declared", "run"})

\* apps/harness/README.md:194-197: replay treats unbound entries as residue and
\* "preserves exact receipt-set closure".
ReportsAlwaysVerify == "report" \in files => Verifies
=============================================================================
