------------------------ MODULE HarnessExperiment_proofs ------------------------
(***************************************************************************)
(* What a harness experiment root promises, for any number of commands,    *)
(* rounds, cases, deaths and failures: its protected final assay is run    *)
(* once, and a report that is written verifies offline.                    *)
(***************************************************************************)
EXTENDS HarnessExperiment, TLAPS

Points ==
    {"off", "setup", "effects", "reserve", "drive", "call", "calling", "adapt", "finish",
     "allocate", "declare", "cases", "record", "select", "report"}

Stages == {"none", "allocated", "declared", "run"}

Shape ==
    /\ pc \in [Process -> Points]
    /\ final = [stage |-> final.stage, names |-> final.names]
    /\ final.stage \in Stages

\* One command at most runs the protected cases, under the declaration it made.
Assaying == {p \in Process : pc[p] \in {"cases", "record"}}
OneAssay ==
    /\ \A p, q \in Assaying : p = q
    /\ Assaying # {} => final.stage = "declared"

IInv == Shape /\ OneAssay

LEMMA InitInvariant == Init => IInv
BY DEF Init, IInv, Shape, OneAssay, Assaying, Points, Stages

\* Steps that leave the final experiment and start no case.
LEMMA QuietSteps ==
    ASSUME IInv, final' = final, pc' \in [Process -> Points],
           \A p \in Process : pc'[p] \in {"cases", "record"} => pc[p] \in {"cases", "record"}
    PROVE  IInv'
<1>1. Assaying' \subseteq Assaying
  BY DEF Assaying
<1> QED
  BY <1>1 DEF IInv, Shape, OneAssay

\* Every command's step, one case per action that changes the final experiment.
LEMMA CommandSteps ==
    ASSUME IInv, NEW p \in Process,
           \/ Run(p) \/ Resume(p) \/ Retry(p) \/ Step(p)
           \/ ControllerFails(p) \/ AdapterFails(p) \/ CaseFails(p) \/ Die(p)
    PROVE  IInv'
<1> USE DEF Shape, At, Goto, Points
<1>1. CASE \/ Run(p) \/ Resume(p) \/ Retry(p) \/ SetUp(p) \/ RecordEffects(p)
           \/ EffectsConflict(p) \/ Reserve(p) \/ ReserveRefused(p)
  BY <1>1, QuietSteps
  DEF IInv, Run, Resume, Retry, SetUp, RecordEffects, EffectsConflict, Reserve,
      ReserveRefused, Fails, sealing
<1>2. CASE \/ StartRound(p) \/ ContinueRound(p) \/ StopSearch(p) \/ CallController(p)
           \/ ControllerAnswers(p) \/ Commit(p)
  BY <1>2, QuietSteps
  DEF IInv, StartRound, ContinueRound, StopSearch, CallController, ControllerAnswers,
      Commit, Leaves, sealing
<1>3. CASE \/ Finish(p) \/ AllocateRefused(p) \/ DeclareRefused(p) \/ RunCase(p)
           \/ WriteBundle(p) \/ SelectHarness(p) \/ Report(p)
  BY <1>3, QuietSteps
  DEF IInv, Finish, AllocateRefused, DeclareRefused, RunCase, WriteBundle, SelectHarness,
      Report, Fails, sealing
<1>4. CASE \/ ControllerFails(p) \/ AdapterFails(p) \/ CaseFails(p) \/ Die(p)
  BY <1>4, QuietSteps
  DEF IInv, ControllerFails, AdapterFails, CaseFails, Die, Leaves, sealing
<1>5. CASE Allocate(p)
  <2>1. /\ final.stage \notin {"declared", "run"} /\ pc' = [pc EXCEPT ![p] = "declare"]
        /\ final' = final \/ final' = [final EXCEPT !.stage = "allocated"]
    BY <1>5 DEF Allocate
  <2>2. Assaying = {} /\ Assaying' = {}
    BY <2>1 DEF IInv, OneAssay, Assaying
  <2> QED
    BY <2>1, <2>2 DEF IInv, OneAssay, Stages
<1>6. CASE Declare(p)
  <2>1. /\ final.stage \notin {"declared", "run"} /\ pc' = [pc EXCEPT ![p] = "cases"]
        /\ final' = [final EXCEPT !.stage = "declared"]
    BY <1>6 DEF Declare
  <2>2. Assaying = {} /\ Assaying' = {p}
    BY <2>1 DEF IInv, OneAssay, Assaying
  <2> QED
    BY <2>1, <2>2 DEF IInv, OneAssay, Stages
<1>7. CASE RecordFinalRun(p)
  <2>1. /\ pc[p] = "record" /\ pc' = [pc EXCEPT ![p] = "select"]
        /\ final' = [stage |-> "run", names |-> ReceiptsOf(FinalAttempt)]
    BY <1>7 DEF RecordFinalRun
  <2>2. Assaying' = {}
    BY <2>1 DEF IInv, OneAssay, Assaying
  <2> QED
    BY <2>1, <2>2 DEF IInv, OneAssay, Stages
<1> QED
  BY <1>1, <1>2, <1>3, <1>4, <1>5, <1>6, <1>7 DEF Step

LEMMA StepInvariant == IInv /\ [Next]_vars => IInv'
<1> SUFFICES ASSUME IInv, [Next]_vars PROVE IInv'
  OBVIOUS
<1>1. ASSUME NEW a \in Attempts, PublishReceipt(a) \/ OrphanEnds(a) PROVE IInv'
  BY <1>1, QuietSteps DEF IInv, Shape, PublishReceipt, OrphanEnds, sealing
<1>2. CASE RemoveLock \/ UNCHANGED vars
  BY <1>2, QuietSteps DEF IInv, Shape, RemoveLock, vars, sealing
<1> QED
  BY <1>1, <1>2, CommandSteps DEF Next

\* Only Declare enters the cases.
LEMMA EntersByDeclaring ==
    ASSUME IInv, [Next]_vars, NEW p \in Process, pc'[p] = "cases", pc[p] # "cases"
    PROVE  final.stage \notin {"declared", "run"}
<1> USE DEF IInv, Shape, At, Goto, Points
<1>1. \A q \in Process :
        (\/ Run(q) \/ Resume(q) \/ Retry(q) \/ SetUp(q) \/ RecordEffects(q)
         \/ EffectsConflict(q) \/ Reserve(q) \/ ReserveRefused(q) \/ StartRound(q)
         \/ ContinueRound(q) \/ StopSearch(q) \/ CallController(q)
         \/ ControllerAnswers(q) \/ Commit(q)) => pc'[p] # "cases"
  BY DEF Run, Resume, Retry, SetUp, RecordEffects, EffectsConflict, Reserve,
         ReserveRefused, Fails, StartRound, ContinueRound, StopSearch, CallController,
         ControllerAnswers, Commit, Leaves
<1>2. \A q \in Process :
        (\/ Finish(q) \/ Allocate(q) \/ AllocateRefused(q) \/ DeclareRefused(q) \/ RunCase(q)
         \/ WriteBundle(q) \/ RecordFinalRun(q) \/ SelectHarness(q) \/ Report(q)
         \/ ControllerFails(q) \/ AdapterFails(q) \/ CaseFails(q) \/ Die(q))
            => pc'[p] # "cases"
  BY DEF Finish, Allocate, AllocateRefused, DeclareRefused, RunCase, WriteBundle,
         RecordFinalRun, SelectHarness, Report, Fails, ControllerFails, AdapterFails,
         CaseFails, Die, Leaves
<1>3. \A q \in Process : Declare(q) => final.stage \notin {"declared", "run"}
  BY DEF Declare
<1>4. \A a \in Attempts : PublishReceipt(a) \/ OrphanEnds(a) => pc' = pc
  BY DEF PublishReceipt, OrphanEnds
<1>5. RemoveLock \/ UNCHANGED vars => pc' = pc
  BY DEF RemoveLock, vars
<1> QED
  BY <1>1, <1>2, <1>3, <1>4, <1>5 DEF Next, Step

\* The protected tasks are run once, by the command that declares the final
\* experiment while no other runs them (_append_final_experiment).
THEOREM FinalAssayIsOneUse == Spec => FinalIsOneUse
<1>1. IInv /\ [Next]_vars =>
        [\A p \in Process : pc'[p] = "cases" /\ ~At(p, "cases") =>
            /\ final.stage \notin {"declared", "run"}
            /\ \A q \in Process : pc[q] \notin {"cases", "record"}]_vars
  <2> SUFFICES ASSUME IInv, [Next]_vars, NEW p \in Process,
                      pc'[p] = "cases", ~At(p, "cases")
               PROVE  /\ final.stage \notin {"declared", "run"}
                      /\ \A q \in Process : pc[q] \notin {"cases", "record"}
    OBVIOUS
  <2>1. final.stage \notin {"declared", "run"}
    BY EntersByDeclaring DEF At
  <2> QED
    BY <2>1 DEF IInv, OneAssay, Assaying
<1> QED
  BY <1>1, InitInvariant, StepInvariant, PTL DEF Spec, FinalIsOneUse

----------------------------------------------------------------------------
\* A written report verifies.

Times == Nat \X Nat
Docs == [attempt : Times, receipts : SUBSET (Times \X Nat)]

\* The attempts of every round, those of the pending one last.
Rows == IF Active THEN Append(rounds, pending.bound) ELSE rounds
Known == UNION {{<<n, i>> : i \in 1..Len(Rows[n])} : n \in DOMAIN Rows}
Past == UNION {{<<n, i>> : i \in 1..(Len(Rows[n]) - 1)} : n \in DOMAIN Rows}

Typed ==
    /\ rounds \in Seq(Seq(Docs)) /\ \A n \in DOMAIN rounds : Len(rounds[n]) > 0
    /\ pending \in [round : Nat, bound : Seq(Docs)]
    /\ pending = NoPending \/ (pending.round > 0 /\ Len(pending.bound) > 0)
    /\ pending.round <= Len(rounds) + 1
    /\ wrote \in [Process -> Docs]
    /\ receipts \subseteq Times \X Nat
    /\ responses \subseteq Times /\ controllers \subseteq Times

\* Only the holder of the driver's lock is inside it; one command sets up.
Driving == {p \in Process : pc[p] \in {"drive", "call", "calling", "adapt"}}
Locked ==
    /\ root # "driver" => lock = NoProcess /\ \A p \in Process : pc[p] \in {"off", "setup"}
    /\ root = "absent" => \A p \in Process : pc[p] = "off"
    /\ root = "driver" => \A p \in Process : pc[p] # "setup"
    /\ \A p, q \in Process : pc[p] = "setup" /\ pc[q] = "setup" => p = q
    /\ \A p \in Driving : lock = p
    /\ \A p \in Process : pc[p] \in {"call", "calling", "adapt"} => Active

\* The driver's own files: who answered, who runs.
Answered ==
    /\ responses \subseteq Known /\ controllers \subseteq Known
    /\ \A a \in responses : ReceiptsOf(a) \subseteq receipts
    /\ \A n \in DOMAIN rounds : Used(n) \in responses
    /\ \A p \in Process : pc[p] = "adapt" => Attempt \in responses
    /\ receipts \subseteq UNION {ReceiptsOf(a) : a \in Known \cup {FinalAttempt}}

\* Every attempt that was retried has its effects, and they are what is on disk of it.
Retried ==
    /\ Past \subseteq DOMAIN effects
    /\ DOMAIN effects \subseteq Past \cup (IF Active THEN {Attempt} ELSE {})
    /\ \A a \in DOMAIN effects : effects[a] \subseteq receipts
    /\ \A a \in DOMAIN effects : receipts \cap ReceiptsOf(a) \subseteq effects[a]
    /\ \A a \in Past : Rows[a[1]][a[2] + 1] = Document(a, effects[a])
    /\ \A p \in Process : pc[p] = "reserve" =>
          /\ wrote[p].attempt \in DOMAIN effects
          /\ wrote[p] = Document(wrote[p].attempt, effects[wrote[p].attempt])
    /\ Active /\ Attempt \in DOMAIN effects =>
          /\ Attempt \notin responses
          /\ \A p \in Process : pc[p] \notin {"call", "calling", "adapt"}

\* The search is over when its final assay begins.
Sealers == {p \in Process : pc[p] \in {"finish", "allocate", "declare", "cases", "record",
                                       "select", "report"}}
Closing == Sealers # {} \/ final.stage # "none" \/ "report" \in files
Sealed ==
    /\ Closing => pending = NoPending /\ Stopped
    /\ \A p \in Process : pc[p] = "declare" => trailing = FinalDraw
    /\ final.stage \in {"declared", "run"} => trailing = FinalDraw
    /\ \A p \in Process : pc[p] = "record" =>
          /\ bundles = {ReceiptsOf(FinalAttempt)}
          /\ ReceiptsOf(FinalAttempt) \subseteq receipts
    /\ bundles \subseteq {ReceiptsOf(FinalAttempt)}
    /\ HasFinalRun =>
          /\ final.names = ReceiptsOf(FinalAttempt)
          /\ bundles = {ReceiptsOf(FinalAttempt)}
          /\ ReceiptsOf(FinalAttempt) \subseteq receipts
    /\ \A p \in Process : pc[p] \in {"select", "report"} => HasFinalRun
    /\ \A p \in Process : pc[p] = "report" /\ Assay = "coding-agent-v1" => "selected" \in files
    /\ "report" \in files => HasFinalRun /\ (Assay = "coding-agent-v1" => "selected" \in files)

RInv ==
    /\ IInv /\ Typed /\ Locked
    /\ gaps = {} => Answered /\ Retried /\ Sealed

\* What a command does.
Command(p) ==
    \/ Run(p) \/ Resume(p) \/ Retry(p) \/ Step(p)
    \/ ControllerFails(p) \/ AdapterFails(p) \/ CaseFails(p) \/ Die(p)

\* Steps that change no round, pending intent, response, effect or receipt.
Aside(p) ==
    \/ Run(p) \/ SetUp(p) \/ Resume(p) \/ Retry(p) \/ EffectsConflict(p) \/ StopSearch(p)
    \/ Finish(p) \/ Allocate(p) \/ AllocateRefused(p) \/ Declare(p) \/ DeclareRefused(p)
    \/ WriteBundle(p) \/ RecordFinalRun(p) \/ SelectHarness(p) \/ Report(p)
    \/ ControllerFails(p) \/ AdapterFails(p) \/ CaseFails(p) \/ Die(p)

\* Steps of the driver's files and of the receipts.
Writes(p) ==
    \/ RecordEffects(p) \/ Reserve(p) \/ ReserveRefused(p) \/ StartRound(p)
    \/ ContinueRound(p) \/ CallController(p) \/ ControllerAnswers(p) \/ Commit(p)
    \/ RunCase(p)

LEMMA CommandIs == ASSUME NEW p \in Process, Command(p) PROVE Aside(p) \/ Writes(p)
BY DEF Command, Step, Aside, Writes

LEMMA AsideLeaves ==
    ASSUME NEW p \in Process, Aside(p)
    PROVE  /\ rounds' = rounds /\ pending' = pending /\ responses' = responses
           /\ effects' = effects /\ receipts' = receipts /\ archive' = archive
           /\ wrote' = wrote \/ wrote' = [wrote EXCEPT ![p] = NoDocument]
           /\ controllers' = controllers \/ controllers' = controllers \ {Attempt}
           /\ gaps' = gaps
<1>1. CASE \/ Run(p) \/ SetUp(p) \/ Resume(p) \/ Retry(p) \/ EffectsConflict(p)
           \/ StopSearch(p) \/ Finish(p) \/ Allocate(p) \/ AllocateRefused(p)
  BY <1>1 DEF Run, SetUp, Resume, Retry, EffectsConflict, StopSearch, Finish, Allocate,
              AllocateRefused, Fails, Leaves, driverState, evidence, history
<1>2. CASE \/ Declare(p) \/ DeclareRefused(p) \/ WriteBundle(p) \/ RecordFinalRun(p)
           \/ SelectHarness(p) \/ Report(p) \/ ControllerFails(p) \/ AdapterFails(p)
           \/ CaseFails(p) \/ Die(p)
  BY <1>2 DEF Declare, DeclareRefused, WriteBundle, RecordFinalRun, SelectHarness, Report,
              ControllerFails, AdapterFails, CaseFails, Die, Fails, Leaves, driverState,
              evidence, history
<1> QED
  BY <1>1, <1>2 DEF Aside

\* The types of what is numbered and what is written.
LEMMA TypesOfIntents ==
    ASSUME Typed
    PROVE  /\ Len(rounds) \in Nat /\ Len(pending.bound) \in Nat /\ pending.round \in Nat
           /\ Attempt \in Times /\ FinalAttempt \in Times /\ NoDocument \in Docs
           /\ Active => Len(pending.bound) > 0 /\ pending # NoPending
BY DEF Typed, Attempt, Times, Docs, NoDocument, Document, FinalAttempt, Active, NoPending

LEMMA NothingPending ==
    /\ NoPending \in [round : Nat, bound : Seq(Docs)]
    /\ NoPending.round = 0 /\ NoPending.bound = <<>>
BY DEF NoPending

LEMMA WritesTyped ==
    ASSUME HarnessAssumption, Typed, Locked, NEW p \in Process, Writes(p)
    PROVE  Typed'
<1> USE TypesOfIntents
<1>1. CASE RecordEffects(p)
  <2>1. /\ rounds' = rounds /\ pending' = pending /\ responses' = responses
        /\ controllers' = controllers /\ receipts' = receipts
        /\ wrote' = [wrote EXCEPT ![p] = Document(Attempt, receipts)]
    BY <1>1 DEF RecordEffects, driverState
  <2>2. Document(Attempt, receipts) \in Docs
    BY DEF Document, Docs, Typed
  <2> QED
    BY <2>1, <2>2 DEF Typed
<1>2. CASE Reserve(p)
  <2>1. /\ rounds' = rounds /\ responses' = responses /\ controllers' = controllers
        /\ receipts' = receipts /\ wrote' = [wrote EXCEPT ![p] = NoDocument]
        /\ pending' = [pending EXCEPT !.bound = Append(pending.bound, wrote[p])]
        /\ Active
    BY <1>2 DEF Reserve, Retriable, evidence
  <2>2. wrote[p] \in Docs /\ pending.bound \in Seq(Docs)
    BY DEF Typed
  <2>5. pending' = [round |-> pending.round, bound |-> Append(pending.bound, wrote[p])]
    BY <2>1 DEF Typed
  <2>6. /\ Append(pending.bound, wrote[p]) \in Seq(Docs)
        /\ Len(Append(pending.bound, wrote[p])) = Len(pending.bound) + 1
    BY <2>2
  <2>3. /\ pending' \in [round : Nat, bound : Seq(Docs)] /\ pending'.round = pending.round
        /\ Len(pending'.bound) > 0
    BY <2>5, <2>6
  <2>4. pending.round > 0
    BY <2>1 DEF Typed, NoPending
  <2> QED
    BY <2>1, <2>3, <2>4 DEF Typed
<1>3. CASE ReserveRefused(p)
  <2>1. /\ rounds' = rounds /\ responses' = responses /\ controllers' = controllers
        /\ receipts' = receipts /\ wrote' = [wrote EXCEPT ![p] = NoDocument]
        /\ pending' = pending \/ pending' = NoPending
    BY <1>3 DEF ReserveRefused, evidence
  <2> QED
    BY <2>1, NothingPending DEF Typed
<1>4. CASE StartRound(p)
  <2>1. /\ rounds' = rounds /\ responses' = responses /\ controllers' = controllers
        /\ receipts' = receipts /\ wrote' = wrote
        /\ pending' = [round |-> Len(rounds) + 1, bound |-> <<NoDocument>>]
    BY <1>4 DEF StartRound, evidence
  <2>2. <<NoDocument>> \in Seq(Docs) /\ Len(<<NoDocument>>) = 1
    OBVIOUS
  <2>3. /\ pending' \in [round : Nat, bound : Seq(Docs)]
        /\ pending'.round = Len(rounds) + 1 /\ Len(pending'.bound) > 0
    BY <2>1, <2>2
  <2> QED
    BY <2>1, <2>3 DEF Typed
<1>5. CASE ContinueRound(p)
  <2>1. /\ rounds' = rounds /\ responses' = responses /\ controllers' = controllers
        /\ receipts' = receipts /\ wrote' = wrote
        /\ pending' = pending \/ pending' = NoPending
    BY <1>5 DEF ContinueRound, evidence
  <2> QED
    BY <2>1, NothingPending DEF Typed
<1>6. CASE CallController(p) \/ ControllerAnswers(p)
  <2>1. /\ rounds' = rounds /\ pending' = pending /\ wrote' = wrote /\ receipts' = receipts
        /\ responses' \subseteq responses \cup {Attempt}
        /\ controllers' \subseteq controllers \cup {Attempt}
    BY <1>6 DEF CallController, ControllerAnswers, driverState, evidence
  <2> QED
    BY <2>1 DEF Typed
<1>7. CASE Commit(p)
  <2>1. /\ rounds' = Append(rounds, pending.bound) /\ pending' = pending /\ wrote' = wrote
        /\ receipts' = receipts /\ responses' = responses /\ controllers' = controllers
    BY <1>7 DEF Commit, evidence
  <2>2. pending.bound \in Seq(Docs) /\ Len(pending.bound) > 0
    BY <1>7 DEF Commit, At, Locked, Typed
  <2>3. /\ rounds' \in Seq(Seq(Docs)) /\ Len(rounds') = Len(rounds) + 1
        /\ \A n \in 1..Len(rounds) : rounds'[n] = rounds[n]
        /\ rounds'[Len(rounds) + 1] = pending.bound
    BY <2>1, <2>2 DEF Typed
  <2> QED
    BY <2>1, <2>2, <2>3 DEF Typed
<1>8. CASE RunCase(p)
  <2>1. /\ rounds' = rounds /\ pending' = pending /\ wrote' = wrote
        /\ responses' = responses /\ controllers' = controllers
        /\ \E c \in 1..Cases : receipts' = receipts \cup {Receipt(FinalAttempt, c)}
    BY <1>8 DEF RunCase, Publishes, driverState
  <2> QED
    BY <2>1 DEF Typed, HarnessAssumption, Receipt
<1> QED
  BY <1>1, <1>2, <1>3, <1>4, <1>5, <1>6, <1>7, <1>8 DEF Writes

LEMMA TypedSteps ==
    ASSUME HarnessAssumption, Typed, Locked, [Next]_vars
    PROVE  Typed'
<1> USE TypesOfIntents
<1>1. ASSUME NEW p \in Process, Aside(p) PROVE Typed'
  BY <1>1, AsideLeaves DEF Typed
<1>2. ASSUME NEW a \in Attempts, PublishReceipt(a) \/ OrphanEnds(a) PROVE Typed'
  <2>1. /\ rounds' = rounds /\ pending' = pending /\ wrote' = wrote
        /\ responses' = responses /\ controllers' \subseteq controllers
        /\ receipts' = receipts \/ \E c \in 1..Cases : receipts' = receipts \cup {Receipt(a, c)}
    BY <1>2 DEF PublishReceipt, OrphanEnds, Publishes, driverState, evidence
  <2>2. a \in Times
    BY DEF Attempts, Times, HarnessAssumption
  <2> QED
    BY <2>1, <2>2 DEF Typed, HarnessAssumption, Receipt
<1>3. CASE RemoveLock \/ UNCHANGED vars
  BY <1>3 DEF Typed, RemoveLock, vars, driverState, evidence
<1> QED
  BY <1>1, <1>2, <1>3, WritesTyped, CommandIs DEF Next, Command

\* Who is inside the driver, whoever else tries.
LEMMA AsideLocked ==
    ASSUME HarnessAssumption, Shape, Typed, Locked, NEW p \in Process, Aside(p)
    PROVE  Locked'
<1> USE DEF Shape, At, Goto, Points, Driving, HarnessAssumption
<1>0. Active' = Active
  BY AsideLeaves DEF Active
<1>1. CASE Run(p)
  BY <1>0, <1>1 DEF Run, Locked
<1>2. CASE SetUp(p)
  <2>1. /\ root' = "driver" /\ lock' = p /\ pc' = [pc EXCEPT ![p] = "drive"]
        /\ \A q \in Process \ {p} : pc[q] = "off"
    BY <1>2 DEF SetUp, Locked
  <2> QED
    BY <2>1 DEF Locked
<1>3. CASE Resume(p)
  <2>1. /\ root = "driver" /\ root' = root /\ lock = NoProcess /\ lock' = p
        /\ pc' = [pc EXCEPT ![p] = "drive"]
    BY <1>3 DEF Resume, driverState
  <2>2. Driving = {} /\ Driving' = {p}
    BY <2>1 DEF Locked
  <2> QED
    BY <1>0, <2>1, <2>2 DEF Locked
<1>4. CASE StopSearch(p) \/ ControllerFails(p) \/ AdapterFails(p)
  <2>1. /\ root' = root /\ p \in Driving /\ lock' = NoProcess
        /\ pc' = [pc EXCEPT ![p] = "off"] \/ pc' = [pc EXCEPT ![p] = "finish"]
    BY <1>4 DEF StopSearch, ControllerFails, AdapterFails, Leaves, driverState
  <2>2. Driving' = {}
    BY <2>1 DEF Locked
  <2>3. root = "driver"
    BY <2>1 DEF Locked
  <2> QED
    BY <1>0, <2>1, <2>2, <2>3 DEF Locked
<1>5. CASE \/ Retry(p) \/ EffectsConflict(p) \/ Finish(p) \/ Allocate(p)
           \/ AllocateRefused(p) \/ Declare(p) \/ DeclareRefused(p) \/ WriteBundle(p)
           \/ RecordFinalRun(p) \/ SelectHarness(p) \/ Report(p) \/ CaseFails(p) \/ Die(p)
  <2>1. /\ root' = root /\ lock' = lock
        /\ \E step \in Points \ {"setup", "drive", "call", "calling", "adapt"} :
              /\ pc' = [pc EXCEPT ![p] = step]
              /\ step # "off" => root = "driver"
    <3>1. CASE \/ Retry(p) \/ EffectsConflict(p) \/ Finish(p) \/ Allocate(p)
               \/ AllocateRefused(p) \/ Declare(p) \/ DeclareRefused(p)
      BY <3>1 DEF Retry, EffectsConflict, Finish, Allocate, AllocateRefused, Declare,
                  DeclareRefused, Fails, Locked, driverState
    <3>2. CASE \/ WriteBundle(p) \/ RecordFinalRun(p) \/ SelectHarness(p) \/ Report(p)
               \/ CaseFails(p) \/ Die(p)
      BY <3>2 DEF WriteBundle, RecordFinalRun, SelectHarness, Report, CaseFails, Die,
                  Locked, driverState
    <3> QED
      BY <1>5, <3>1, <3>2
  <2>2. \A q \in Process : pc'[q] = pc[q] \/ (q = p /\ pc'[q] \notin {"setup", "drive",
                                               "call", "calling", "adapt"})
    BY <2>1
  <2>3. root # "driver" => pc'[p] = "off"
    BY <2>1
  <2>4. Driving' \subseteq Driving
    BY <2>2
  <2> QED
    BY <1>0, <2>1, <2>2, <2>3, <2>4 DEF Locked
<1> QED
  BY <1>1, <1>2, <1>3, <1>4, <1>5 DEF Aside

LEMMA WritesLocked ==
    ASSUME HarnessAssumption, Shape, Typed, Locked, NEW p \in Process, Writes(p)
    PROVE  Locked'
<1> USE DEF Shape, At, Goto, Points, Driving, HarnessAssumption
<1>1. CASE RecordEffects(p) \/ RunCase(p)
  <2>1. /\ root' = root /\ lock' = lock /\ rounds' = rounds /\ pending' = pending
        /\ root = "driver"
        /\ pc' = pc \/ pc' = [pc EXCEPT ![p] = "reserve"]
    BY <1>1 DEF RecordEffects, RunCase, driverState, Locked
  <2>2. Active' = Active
    BY <2>1 DEF Active
  <2> QED
    BY <2>1, <2>2 DEF Locked
<1>2. CASE Reserve(p)
  <2>1. /\ root' = root /\ root = "driver" /\ lock = NoProcess /\ lock' = p
        /\ Active /\ rounds' = rounds /\ pc' = [pc EXCEPT ![p] = "call"]
        /\ pending' = [pending EXCEPT !.bound = Append(pending.bound, wrote[p])]
    BY <1>2 DEF Reserve, Retriable, Locked
  <2>2. Driving = {} /\ Driving' = {p}
    BY <2>1 DEF Locked
  <2>3. Active'
    BY <2>1 DEF Active, Typed
  <2> QED
    BY <2>1, <2>2, <2>3 DEF Locked
<1>3. CASE ReserveRefused(p)
  <2>1. /\ root' = root /\ root = "driver" /\ lock' = lock
        /\ pc' = [pc EXCEPT ![p] = "off"] /\ rounds' = rounds
        /\ pending' = pending \/ (lock = NoProcess)
    BY <1>3 DEF ReserveRefused, Locked
  <2>2. CASE pending' = pending
    <3>1. Active' = Active
      BY <2>1, <2>2 DEF Active
    <3> QED
      BY <2>1, <3>1 DEF Locked
  <2>3. CASE lock = NoProcess
    <3>1. Driving = {} /\ Driving' = {}
      BY <2>1, <2>3 DEF Locked
    <3> QED
      BY <2>1, <3>1 DEF Locked
  <2> QED
    BY <2>1, <2>2, <2>3
<1>4. CASE StartRound(p) \/ CallController(p) \/ ControllerAnswers(p) \/ Commit(p)
  <2>1. /\ root' = root /\ p \in Driving /\ lock' = lock
        /\ \E step \in {"drive", "call", "calling", "adapt"} :
              /\ pc' = [pc EXCEPT ![p] = step]
              /\ step = "drive" \/ Active'
    <3>1. CASE StartRound(p)
      BY <3>1 DEF StartRound, Active
    <3>2. CASE CallController(p) \/ ControllerAnswers(p)
      <4>1. /\ rounds' = rounds /\ pending' = pending /\ pc[p] \in {"call", "calling"}
        BY <3>2 DEF CallController, ControllerAnswers, driverState
      <4>2. Active /\ Active' = Active
        BY <4>1 DEF Active, Locked
      <4> QED
        BY <3>2, <4>2 DEF CallController, ControllerAnswers, driverState
    <3>3. CASE Commit(p)
      BY <3>3 DEF Commit
    <3> QED
      BY <1>4, <3>1, <3>2, <3>3
  <2>2. Driving' = {p} /\ root = "driver" /\ lock = p
    BY <2>1 DEF Locked
  <2> QED
    BY <2>1, <2>2 DEF Locked
<1>5. CASE ContinueRound(p)
  <2>1. /\ root' = root /\ pc[p] = "drive" /\ rounds' = rounds
        /\ \/ pc' = pc /\ lock' = lock
           \/ pc' = [pc EXCEPT ![p] = "adapt"] /\ lock' = lock /\ Active /\ pending' = pending
           \/ pc' = [pc EXCEPT ![p] = "off"] /\ lock' = NoProcess
    BY <1>5 DEF ContinueRound, Leaves
  <2>2. Driving' \subseteq {p} /\ root = "driver" /\ lock = p
    BY <2>1 DEF Locked
  <2>3. Active /\ pending' = pending => Active'
    BY <2>1 DEF Active
  <2> QED
    BY <2>1, <2>2, <2>3 DEF Locked
<1> QED
  BY <1>1, <1>2, <1>3, <1>4, <1>5 DEF Writes

LEMMA LockedSteps ==
    ASSUME HarnessAssumption, Shape, Typed, Locked, [Next]_vars
    PROVE  Locked'
<1>1. ASSUME NEW a \in Attempts, PublishReceipt(a) \/ OrphanEnds(a) PROVE Locked'
  BY <1>1 DEF PublishReceipt, OrphanEnds, driverState, evidence, Locked, Driving, Active
<1>2. CASE RemoveLock
  <2>1. /\ root' = root /\ rounds' = rounds /\ pending' = pending /\ pc' = pc
        /\ lock # NoProcess /\ pc[lock] = "off" /\ lock' = NoProcess
    BY <1>2 DEF RemoveLock, driverState, At
  <2>2. Driving = {}
    BY <2>1 DEF Locked, Driving
  <2> QED
    BY <2>1, <2>2 DEF Locked, Driving, Active
<1>3. CASE UNCHANGED vars
  BY <1>3 DEF vars, Locked, Driving, Active
<1> QED
  BY <1>1, <1>2, <1>3, AsideLocked, WritesLocked, CommandIs DEF Next, Command

\* The attempts: committed rounds keep theirs, the pending one is the last.
LEMMA RowsAre ==
    ASSUME Typed
    PROVE  /\ Rows \in Seq(Seq(Docs))
           /\ \A n \in DOMAIN Rows : n \in Nat \ {0} /\ Len(Rows[n]) \in Nat \ {0}
           /\ DOMAIN rounds \subseteq DOMAIN Rows
           /\ \A n \in DOMAIN rounds : Rows[n] = rounds[n]
           /\ Active => /\ Len(Rows) = Len(rounds) + 1 /\ pending.round = Len(Rows)
                        /\ Rows[Len(Rows)] = pending.bound
                        /\ Attempt = <<Len(Rows), Len(Rows[Len(Rows)])>>
           /\ ~Active => Rows = rounds
<1>1. CASE ~Active
  BY <1>1 DEF Rows, Typed
<1>2. CASE Active
  <2>1. pending.bound \in Seq(Docs) /\ Len(pending.bound) \in Nat \ {0}
    BY <1>2, TypesOfIntents DEF Typed
  <2>2. /\ Rows = Append(rounds, pending.bound) /\ rounds \in Seq(Seq(Docs))
        /\ pending.round = Len(rounds) + 1
    BY <1>2 DEF Rows, Typed, Active
  <2>3. /\ Rows \in Seq(Seq(Docs)) /\ Len(Rows) = Len(rounds) + 1
        /\ \A n \in 1..Len(rounds) : Rows[n] = rounds[n]
        /\ Rows[Len(rounds) + 1] = pending.bound
    BY <2>1, <2>2
  <2>4. \A n \in DOMAIN rounds : Len(rounds[n]) \in Nat \ {0}
    BY DEF Typed
  <2> QED
    BY <1>2, <2>1, <2>2, <2>3, <2>4 DEF Attempt
<1> QED
  BY <1>1, <1>2

LEMMA KnownIs ==
    /\ \A n, i : <<n, i>> \in Known <=> n \in DOMAIN Rows /\ i \in 1..Len(Rows[n])
    /\ \A n, i : <<n, i>> \in Past <=> n \in DOMAIN Rows /\ i \in 1..(Len(Rows[n]) - 1)
    /\ \A a \in Known \cup Past : a = <<a[1], a[2]>>
BY DEF Known, Past

LEMMA AttemptsAre ==
    ASSUME Typed
    PROVE  /\ Past \subseteq Known /\ FinalAttempt \notin Known
           /\ Active => Attempt \in Known \ Past
<1>1. Past \subseteq Known
  <2>1. \A n \in DOMAIN Rows : 1..(Len(Rows[n]) - 1) \subseteq 1..Len(Rows[n])
    BY RowsAre
  <2> QED
    BY <2>1 DEF Known, Past
<1>2. FinalAttempt \notin Known
  BY RowsAre, KnownIs DEF FinalAttempt
<1>3. ASSUME Active PROVE Attempt \in Known \ Past
  <2>1. Len(Rows) \in DOMAIN Rows /\ Len(Rows[Len(Rows)]) \in Nat \ {0}
    BY <1>3, RowsAre, TypesOfIntents
  <2>2. Attempt = <<Len(Rows), Len(Rows[Len(Rows)])>>
    BY <1>3, RowsAre
  <2>3. /\ Len(Rows[Len(Rows)]) \in 1..Len(Rows[Len(Rows)])
        /\ Len(Rows[Len(Rows)]) \notin 1..(Len(Rows[Len(Rows)]) - 1)
    BY <2>1
  <2> QED
    BY <2>1, <2>2, <2>3, KnownIs
<1> QED
  BY <1>1, <1>2, <1>3

LEMMA SameIntents ==
    ASSUME rounds' = rounds, pending' = pending
    PROVE  /\ Active' = Active /\ Rows' = Rows /\ Known' = Known /\ Past' = Past
           /\ Attempt' = Attempt /\ ProposalCalls' = ProposalCalls
BY DEF Active, Rows, Known, Past, Attempt, ProposalCalls

LEMMA IntentDropped ==
    ASSUME Typed, ~Active, rounds' = rounds, pending' = NoPending
    PROVE  /\ Active' = Active /\ Rows' = Rows /\ Known' = Known /\ Past' = Past
           /\ ProposalCalls' = ProposalCalls
<1>1. Active' = FALSE
  BY TypesOfIntents, NothingPending DEF Active
<1>2. Rows' = Rows
  BY <1>1 DEF Rows
<1>3. Known' = Known /\ Past' = Past
  BY <1>2 DEF Known, Past
<1>4. ProposalCalls = CallsOf(rounds, 0) /\ ProposalCalls' = CallsOf(rounds', 0)
  BY <1>1 DEF ProposalCalls
<1>5. Active' = Active
  BY <1>1 DEF Active
<1> QED
  BY <1>2, <1>3, <1>4, <1>5

\* Steps that start no attempt, write no effects and publish no receipt.
LEMMA BookStays ==
    ASSUME Typed, Answered, Retried, Active' = Active, Rows' = Rows, Active => Attempt' = Attempt,
           rounds' = rounds, effects' = effects, receipts' = receipts,
           controllers' \subseteq controllers \cup Known,
           \/ responses' = responses
           \/ /\ responses' = responses \cup {Attempt} /\ Active
              /\ ReceiptsOf(Attempt) \subseteq receipts /\ Attempt \notin DOMAIN effects,
           \A q \in Process : pc'[q] = "reserve" => pc[q] = "reserve" /\ wrote'[q] = wrote[q],
           \A q \in Process : pc'[q] = "adapt" =>
               Active /\ (pc[q] = "adapt" \/ Attempt \in responses'),
           \A q \in Process : pc'[q] \in {"call", "calling"} =>
               Active /\ Attempt \notin DOMAIN effects
    PROVE  Answered' /\ Retried'
<1>1. Known' = Known /\ Past' = Past
  BY DEF Known, Past
<1>2. Answered'
  <2>1. responses' \subseteq Known /\ controllers' \subseteq Known
    BY AttemptsAre DEF Answered
  <2>2. \A a \in responses' : ReceiptsOf(a) \subseteq receipts
    BY DEF Answered
  <2>3. \A n \in DOMAIN rounds : Used(n)' = Used(n)
    BY DEF Used
  <2>4. \A q \in Process : pc'[q] = "adapt" => Attempt' \in responses'
    BY DEF Answered
  <2> QED
    BY <1>1, <2>1, <2>2, <2>3, <2>4 DEF Answered
<1>3. Retried'
  <2>1. Active /\ Attempt \in DOMAIN effects =>
          /\ Attempt \notin responses'
          /\ \A q \in Process : pc'[q] \notin {"call", "calling", "adapt"}
    BY DEF Retried
  <2>2. \A q \in Process : pc'[q] = "reserve" =>
          /\ wrote'[q].attempt \in DOMAIN effects'
          /\ wrote'[q] = Document(wrote'[q].attempt, effects'[wrote'[q].attempt])
    BY DEF Retried
  <2>3. /\ DOMAIN effects' \subseteq Past' \cup (IF Active' THEN {Attempt'} ELSE {})
        /\ Active' /\ Attempt' \in DOMAIN effects' =>
          /\ Attempt' \notin responses'
          /\ \A q \in Process : pc'[q] \notin {"call", "calling", "adapt"}
    BY <1>1, <2>1 DEF Retried
  <2> QED
    BY <1>1, <2>2, <2>3 DEF Retried
<1> QED
  BY <1>2, <1>3

LEMMA AsideMoves ==
    ASSUME Shape, Typed, NEW p \in Process, Aside(p)
    PROVE  /\ pc'[p] \notin {"reserve", "call", "calling", "adapt"}
           /\ \A q \in Process \ {p} : pc'[q] = pc[q] /\ wrote'[q] = wrote[q]
<1>1. wrote' = wrote \/ wrote' = [wrote EXCEPT ![p] = NoDocument]
  BY AsideLeaves
<1>2. \E step \in Points \ {"reserve", "call", "calling", "adapt"} :
        pc' = [pc EXCEPT ![p] = step]
  <2> USE DEF Goto, Points
  <2>1. CASE \/ Run(p) \/ SetUp(p) \/ Resume(p) \/ Retry(p) \/ EffectsConflict(p)
             \/ StopSearch(p) \/ Finish(p) \/ Allocate(p) \/ AllocateRefused(p)
    BY <2>1 DEF Run, SetUp, Resume, Retry, EffectsConflict, StopSearch, Finish, Allocate,
                AllocateRefused, Fails, Leaves
  <2>2. CASE \/ Declare(p) \/ DeclareRefused(p) \/ WriteBundle(p) \/ RecordFinalRun(p)
             \/ SelectHarness(p) \/ Report(p) \/ ControllerFails(p) \/ AdapterFails(p)
             \/ CaseFails(p) \/ Die(p)
    BY <2>2 DEF Declare, DeclareRefused, WriteBundle, RecordFinalRun, SelectHarness, Report,
                ControllerFails, AdapterFails, CaseFails, Die, Fails, Leaves
  <2> QED
    BY <2>1, <2>2 DEF Aside
<1>3. pc \in [Process -> Points] /\ wrote \in [Process -> Docs]
  BY DEF Shape, Typed
<1> QED
  BY <1>1, <1>2, <1>3

\* Who answers for the pending attempt.
LEMMA AttemptAtWork ==
    ASSUME Locked, Answered, Retried
    PROVE  /\ \A q \in Process : pc[q] = "adapt" => Active /\ Attempt \in responses
           /\ \A q \in Process : pc[q] \in {"call", "calling", "adapt"} =>
                Active /\ Attempt \notin DOMAIN effects
BY DEF Locked, Answered, Retried

LEMMA QuietBook ==
    ASSUME Shape, Typed, Locked, Answered, Retried, NEW p \in Process,
           \/ Aside(p) \/ ReserveRefused(p) \/ ContinueRound(p)
           \/ CallController(p) \/ ControllerAnswers(p)
    PROVE  Answered' /\ Retried'
<1> USE AttemptAtWork
<1>1. CASE Aside(p)
  <2>1. /\ rounds' = rounds /\ pending' = pending /\ responses' = responses
        /\ effects' = effects /\ receipts' = receipts
        /\ controllers' = controllers \/ controllers' = controllers \ {Attempt}
    BY <1>1, AsideLeaves
  <2> QED
    BY <1>1, <2>1, AsideMoves, SameIntents, BookStays
<1>2. CASE ReserveRefused(p)
  <2>1. /\ rounds' = rounds /\ responses' = responses /\ effects' = effects
        /\ receipts' = receipts /\ controllers' = controllers
        /\ pending' = pending \/ (~Active /\ pending' = NoPending)
        /\ pc' = [pc EXCEPT ![p] = "off"] /\ wrote' = [wrote EXCEPT ![p] = NoDocument]
    BY <1>2 DEF ReserveRefused, Goto, evidence
  <2>2. Active' = Active /\ Rows' = Rows /\ (Active => Attempt' = Attempt)
    BY <2>1, SameIntents, IntentDropped
  <2>3. \A q \in Process : pc'[q] # "off" => pc'[q] = pc[q] /\ wrote'[q] = wrote[q]
    BY <2>1 DEF Shape, Typed
  <2> QED
    BY <2>1, <2>2, <2>3, BookStays
<1>3. CASE ContinueRound(p)
  <2>1. /\ rounds' = rounds /\ responses' = responses /\ effects' = effects
        /\ receipts' = receipts /\ controllers' = controllers /\ wrote' = wrote
        /\ \/ ~Active /\ pending' = NoPending /\ pc' = pc
           \/ Active /\ Attempt \in responses /\ pc' = [pc EXCEPT ![p] = "adapt"]
              /\ pending' = pending
           \/ pc' = [pc EXCEPT ![p] = "off"] /\ pending' = pending
    BY <1>3 DEF ContinueRound, Leaves, Goto, evidence
  <2>2. Active' = Active /\ Rows' = Rows /\ (Active => Attempt' = Attempt)
    BY <2>1, SameIntents, IntentDropped
  <2>3. \A q \in Process : \/ pc'[q] = pc[q]
                           \/ pc'[q] = "adapt" /\ Active /\ Attempt \in responses
                           \/ pc'[q] = "off"
    BY <2>1 DEF Shape
  <2> QED
    BY <2>1, <2>2, <2>3, BookStays
<1>4. CASE CallController(p)
  <2>1. /\ rounds' = rounds /\ pending' = pending /\ responses' = responses
        /\ effects' = effects /\ receipts' = receipts /\ wrote' = wrote
        /\ controllers' = controllers \cup {Attempt} /\ pc[p] = "call"
        /\ pc' = [pc EXCEPT ![p] = "calling"]
    BY <1>4 DEF CallController, At, Goto, driverState, evidence
  <2>2. Attempt \in Known
    BY <2>1, AttemptsAre
  <2>3. \A q \in Process : pc'[q] = pc[q] \/ (pc'[q] = "calling" /\ pc[q] = "call")
    BY <2>1 DEF Shape
  <2> QED
    BY <2>1, <2>2, <2>3, SameIntents, BookStays
<1>5. CASE ControllerAnswers(p)
  <2>1. /\ rounds' = rounds /\ pending' = pending /\ effects' = effects
        /\ receipts' = receipts /\ wrote' = wrote
        /\ responses' = responses \cup {Attempt} /\ ReceiptsOf(Attempt) \subseteq receipts
        /\ controllers' = controllers \ {Attempt} /\ pc[p] = "calling"
        /\ pc' = [pc EXCEPT ![p] = "adapt"]
    BY <1>5 DEF ControllerAnswers, At, Goto, evidence
  <2>2. \A q \in Process : pc'[q] = pc[q] \/ (pc'[q] = "adapt" /\ pc[q] = "calling")
    BY <2>1 DEF Shape
  <2> QED
    BY <2>1, <2>2, SameIntents, BookStays
<1> QED
  BY <1>1, <1>2, <1>3, <1>4, <1>5

\* A receipt of an attempt whose effects are not written down, or of the final assay.
LEMMA BookPublishes ==
    ASSUME Typed, Answered, Retried, NEW a \in Known \cup {FinalAttempt}, NEW c \in 1..Cases,
           a \notin DOMAIN effects, receipts' = receipts \cup {Receipt(a, c)},
           rounds' = rounds, pending' = pending, responses' = responses, effects' = effects,
           controllers' = controllers, pc' = pc, wrote' = wrote
    PROVE  Answered' /\ Retried'
<1>1. /\ Active' = Active /\ Rows' = Rows /\ Known' = Known /\ Past' = Past
      /\ Attempt' = Attempt
  BY SameIntents
<1>2. \A n : Used(n)' = Used(n)
  BY DEF Used
<1>3. Receipt(a, c) \in ReceiptsOf(a)
  BY DEF ReceiptsOf
<1>4. \A b \in DOMAIN effects : Receipt(a, c) \notin ReceiptsOf(b)
  BY DEF ReceiptsOf, Receipt
<1>5. Answered'
  BY <1>1, <1>2, <1>3 DEF Answered
<1>6. Retried'
  BY <1>1, <1>4 DEF Retried
<1> QED
  BY <1>5, <1>6

\* A retry writes down what is on disk, for an attempt nobody works on.
LEMMA EffectsBook ==
    ASSUME Shape, Typed, Locked, Answered, Retried, NEW p \in Process, RecordEffects(p), gaps' = {}
    PROVE  Answered' /\ Retried'
<1>1. /\ Active /\ Attempt \notin responses
      /\ \A q \in Process : pc[q] \notin {"call", "calling", "adapt"}
  BY AttemptAtWork DEF RecordEffects
<1>2. /\ rounds' = rounds /\ pending' = pending /\ responses' = responses
      /\ receipts' = receipts /\ controllers' = controllers
      /\ pc' = [pc EXCEPT ![p] = "reserve"]
      /\ wrote' = [wrote EXCEPT ![p] = Document(Attempt, receipts)]
  BY DEF RecordEffects, Goto, driverState
<1>3. /\ Active' = Active /\ Rows' = Rows /\ Known' = Known /\ Past' = Past
      /\ Attempt' = Attempt
  BY <1>2, SameIntents
<1>4. /\ DOMAIN effects' = DOMAIN effects \cup {Attempt} /\ effects'[Attempt] = receipts
      /\ \A a \in DOMAIN effects : effects'[a] = effects[a]
  BY DEF RecordEffects
<1>5. \A q \in Process : pc'[q] = "reserve" =>
        \/ q = p /\ wrote'[q] = Document(Attempt, receipts)
        \/ pc[q] = "reserve" /\ wrote'[q] = wrote[q]
  BY <1>2 DEF Shape, Typed
<1>6. \A q \in Process : pc'[q] \notin {"call", "calling", "adapt"}
  BY <1>1, <1>2 DEF Shape
<1>7. Answered'
  <2>1. \A n : Used(n)' = Used(n)
    BY <1>2 DEF Used
  <2> QED
    BY <1>2, <1>3, <1>6, <2>1 DEF Answered
<1>8. Retried'
  <2>1. \A a \in Past : a \in DOMAIN effects /\ effects'[a] = effects[a]
    BY <1>4 DEF Retried
  <2>2. /\ Past \subseteq DOMAIN effects' /\ DOMAIN effects' \subseteq Past \cup {Attempt}
    BY <1>1, <1>4 DEF Retried
  <2>3. \A a \in DOMAIN effects' : /\ effects'[a] \subseteq receipts
                                   /\ receipts \cap ReceiptsOf(a) \subseteq effects'[a]
    BY <1>4 DEF Retried
  <2>4. \A q \in Process : pc'[q] = "reserve" =>
          /\ wrote'[q].attempt \in DOMAIN effects'
          /\ wrote'[q] = Document(wrote'[q].attempt, effects'[wrote'[q].attempt])
    <3>1. Document(Attempt, receipts).attempt = Attempt
      BY DEF Document
    <3> QED
      BY <1>4, <1>5, <3>1 DEF Retried
  <2>5. \A a \in Past : Rows[a[1]][a[2] + 1] = Document(a, effects'[a])
    BY <2>1 DEF Retried
  <2> QED
    BY <1>1, <1>2, <1>3, <1>6, <2>2, <2>3, <2>4, <2>5 DEF Retried
<1> QED
  BY <1>7, <1>8

\* The first attempt of a round.
LEMMA StartBook ==
    ASSUME Shape, Typed, Locked, Answered, Retried, NEW p \in Process, StartRound(p)
    PROVE  Answered' /\ Retried'
<1> DEFINE L == Len(rounds) + 1
<1> DEFINE first == <<L, 1>>
<1>1. /\ rounds' = rounds /\ responses' = responses /\ effects' = effects
      /\ receipts' = receipts /\ controllers' = controllers /\ wrote' = wrote
      /\ pending = NoPending /\ pc[p] = "drive" /\ pc' = [pc EXCEPT ![p] = "call"]
      /\ pending' = [round |-> Len(rounds) + 1, bound |-> <<NoDocument>>]
  BY DEF StartRound, At, Goto, evidence
<1>2. ~Active /\ Active' /\ Attempt' = first
  BY <1>1, TypesOfIntents, NothingPending DEF Active, Attempt
<1>3. Rows = rounds /\ Rows' = Append(rounds, <<NoDocument>>)
  BY <1>1, <1>2 DEF Rows
<1>4. /\ L \in Nat \ {0} /\ DOMAIN Rows' = 1..L /\ DOMAIN Rows = 1..(L - 1)
      /\ \A n \in 1..(L - 1) : Rows'[n] = Rows[n]
      /\ Len(Rows'[L]) = 1
  BY <1>3, TypesOfIntents DEF Typed
<1> HIDE DEF L
<1>5. Known' = Known \cup {first} /\ Past' = Past
  <2>1. \A n, i : <<n, i>> \in Known' <=> <<n, i>> \in Known \/ <<n, i>> = first
    <3>1. \A n : n \in DOMAIN Rows' <=> n \in DOMAIN Rows \/ n = L
      BY <1>4
    <3>2. \A n \in DOMAIN Rows : Rows'[n] = Rows[n] /\ n # L
      BY <1>4
    <3>3. 1..Len(Rows'[L]) = {1}
      BY <1>4
    <3>4. \A n, i : <<n, i>> \in Known' <=> n \in DOMAIN Rows' /\ i \in 1..Len(Rows'[n])
      BY DEF Known
    <3> QED
      BY <3>1, <3>2, <3>3, <3>4, KnownIs
  <2>2. \A n, i : <<n, i>> \in Past' <=> <<n, i>> \in Past
    <3>1. \A n : n \in DOMAIN Rows' <=> n \in DOMAIN Rows \/ n = L
      BY <1>4
    <3>2. \A n \in DOMAIN Rows : Rows'[n] = Rows[n] /\ n # L
      BY <1>4
    <3>3. 1..(Len(Rows'[L]) - 1) = {}
      BY <1>4
    <3>4. \A n, i : <<n, i>> \in Past' <=> n \in DOMAIN Rows' /\ i \in 1..(Len(Rows'[n]) - 1)
      BY DEF Past
    <3> QED
      BY <3>1, <3>2, <3>3, <3>4, KnownIs
  <2>3. \A a \in Known' \cup Past' : a = <<a[1], a[2]>>
    BY DEF Known, Past
  <2>4. Known' = Known \cup {first}
    BY <2>1, <2>3, KnownIs
  <2>5. Past' \subseteq Past /\ Past \subseteq Past'
    BY <2>2, <2>3, KnownIs
  <2> QED
    BY <2>4, <2>5
<1>6. first \notin DOMAIN effects
  <2>1. first \notin Known
    BY <1>4, KnownIs
  <2> QED
    BY <1>2, <2>1, AttemptsAre DEF Retried
<1>7. \A q \in Process \ {p} : pc'[q] = pc[q] /\ pc[q] \notin {"call", "calling", "adapt"}
  BY <1>1 DEF Locked, Driving, Shape
<1>8. pc'[p] = "call"
  BY <1>1 DEF Shape
<1>9. \A n : Used(n)' = Used(n)
  BY <1>1 DEF Used
<1>10. Answered'
  BY <1>1, <1>5, <1>7, <1>8, <1>9 DEF Answered
<1>11. \A a \in Past : Rows'[a[1]][a[2] + 1] = Rows[a[1]][a[2] + 1]
  BY <1>4, KnownIs
<1>12. Retried'
  BY <1>1, <1>2, <1>5, <1>6, <1>7, <1>8, <1>11 DEF Retried
<1> QED
  BY <1>10, <1>12

\* A further attempt names the effects of the one before it.
LEMMA ReserveBook ==
    ASSUME Shape, Typed, Locked, Answered, Retried, NEW p \in Process, Reserve(p), gaps' = {}
    PROVE  Answered' /\ Retried'
<1> DEFINE L == Len(rounds) + 1
<1> DEFINE k == Len(pending.bound)
<1> DEFINE next == <<L, k + 1>>
<1>1. /\ rounds' = rounds /\ responses' = responses /\ effects' = effects
      /\ receipts' = receipts /\ controllers' = controllers
      /\ wrote' = [wrote EXCEPT ![p] = NoDocument]
      /\ pc[p] = "reserve" /\ pc' = [pc EXCEPT ![p] = "call"]
      /\ pending' = [pending EXCEPT !.bound = Append(pending.bound, wrote[p])]
      /\ Active /\ Attempt = wrote[p].attempt /\ Attempt \notin responses
  BY DEF Reserve, Retriable, At, Goto, evidence
<1>2. /\ Attempt \in DOMAIN effects /\ wrote[p] = Document(Attempt, effects[Attempt])
      /\ \A q \in Process : pc[q] \notin {"call", "calling", "adapt"}
  BY <1>1 DEF Retried
<1>3. /\ L \in Nat \ {0} /\ k \in Nat \ {0} /\ pending.round = L /\ Attempt = <<L, k>>
      /\ pending.bound \in Seq(Docs) /\ wrote[p] \in Docs
  BY <1>1, TypesOfIntents DEF Active, Attempt, Typed
<1>4. pending' = [round |-> L, bound |-> Append(pending.bound, wrote[p])]
  BY <1>1, <1>3 DEF Typed
<1>5. /\ Len(Append(pending.bound, wrote[p])) = k + 1
      /\ \A i \in 1..k : Append(pending.bound, wrote[p])[i] = pending.bound[i]
      /\ Append(pending.bound, wrote[p])[k + 1] = wrote[p]
      /\ Append(pending.bound, wrote[p]) \in Seq(Docs)
  BY <1>3
<1>6. Active' /\ Attempt' = next
  BY <1>1, <1>4, <1>5 DEF Active, Attempt
<1>7. /\ Rows = Append(rounds, pending.bound)
      /\ Rows' = Append(rounds, Append(pending.bound, wrote[p]))
  BY <1>1, <1>4, <1>6 DEF Rows
<1>8. /\ DOMAIN Rows' = 1..L /\ DOMAIN Rows = 1..L
      /\ \A n \in 1..L : n # L => Rows'[n] = Rows[n]
      /\ Rows[L] = pending.bound /\ Rows'[L] = Append(pending.bound, wrote[p])
  BY <1>3, <1>5, <1>7, TypesOfIntents DEF Typed
<1> HIDE DEF L, k
<1>9. Known' = Known \cup {next} /\ Past' = Past \cup {Attempt}
  <2>1. \A n, i : <<n, i>> \in Known' <=> <<n, i>> \in Known \/ <<n, i>> = next
    BY <1>3, <1>5, <1>8, KnownIs DEF Known, k
  <2>2. \A n, i : <<n, i>> \in Past' <=> <<n, i>> \in Past \/ <<n, i>> = Attempt
    BY <1>3, <1>5, <1>8, KnownIs DEF Past, k
  <2>3. \A a \in Known' \cup Past' : a = <<a[1], a[2]>>
    BY DEF Known, Past
  <2> QED
    BY <2>1, <2>2, <2>3, <1>3, KnownIs
<1>10. next \notin DOMAIN effects
  <2>1. next \notin Known
    BY <1>3, <1>8, KnownIs DEF k
  <2> QED
    BY <1>1, <2>1, AttemptsAre DEF Retried
<1>11. /\ \A q \in Process : pc'[q] \notin {"calling", "adapt"}
       /\ \A q \in Process : pc'[q] = "reserve" => pc[q] = "reserve" /\ wrote'[q] = wrote[q]
  BY <1>1, <1>2 DEF Shape, Typed
<1>12. \A n : Used(n)' = Used(n)
  BY <1>1 DEF Used
<1>13. Answered'
  BY <1>1, <1>9, <1>11, <1>12 DEF Answered
<1>14. \A a \in Past' : Rows'[a[1]][a[2] + 1] = Document(a, effects[a])
  <2> SUFFICES ASSUME NEW n, NEW i, <<n, i>> \in Past'
               PROVE  Rows'[n][i + 1] = Document(<<n, i>>, effects[<<n, i>>])
    BY DEF Past
  <2>1. CASE <<n, i>> = Attempt
    BY <2>1, <1>2, <1>3, <1>5, <1>8
  <2>2. CASE <<n, i>> \in Past
    <3>1. /\ n \in 1..L /\ i \in 1..(Len(Rows[n]) - 1)
          /\ Rows[n][i + 1] = Document(<<n, i>>, effects[<<n, i>>])
      BY <2>2, <1>8, KnownIs DEF Retried
    <3>2. CASE n # L
      BY <3>1, <3>2, <1>8
    <3>3. CASE n = L
      <4>1. i + 1 \in 1..k
        BY <3>1, <3>3, <1>3, <1>8 DEF k
      <4> QED
        BY <3>1, <3>3, <4>1, <1>5, <1>8
    <3> QED
      BY <3>2, <3>3
  <2> QED
    BY <2>1, <2>2, <1>9
<1>15. Retried'
  BY <1>1, <1>2, <1>6, <1>9, <1>10, <1>11, <1>14 DEF Retried
<1> QED
  BY <1>13, <1>15

\* A committed round keeps its attempts; the last one answered.
LEMMA CommitBook ==
    ASSUME Shape, Typed, Locked, Answered, Retried, NEW p \in Process, Commit(p)
    PROVE  Answered' /\ Retried'
<1>1. /\ rounds' = Append(rounds, pending.bound) /\ pending' = pending
      /\ responses' = responses /\ effects' = effects /\ receipts' = receipts
      /\ controllers' = controllers /\ wrote' = wrote
      /\ pc[p] = "adapt" /\ pc' = [pc EXCEPT ![p] = "drive"]
  BY DEF Commit, At, Goto, evidence
<1>2. Active /\ Attempt \in responses /\ Attempt \notin DOMAIN effects
  BY <1>1, AttemptAtWork
<1>3. /\ rounds \in Seq(Seq(Docs)) /\ pending.bound \in Seq(Docs)
      /\ pending.round = Len(rounds) + 1
  BY <1>2 DEF Typed, Active
<1>4. /\ Len(rounds') = Len(rounds) + 1
      /\ \A n \in 1..Len(rounds) : rounds'[n] = rounds[n]
      /\ rounds'[Len(rounds) + 1] = pending.bound
  BY <1>1, <1>3
<1>5. ~Active'
  BY <1>1, <1>3, <1>4, TypesOfIntents DEF Active
<1>6. Rows' = Rows
  BY <1>1, <1>2, <1>5 DEF Rows
<1>7. Known' = Known /\ Past' = Past
  BY <1>6 DEF Known, Past
<1>8. \A n \in 1..Len(rounds') : Used(n)' \in responses
  <2>1. \A n \in 1..Len(rounds) : Used(n)' = Used(n) /\ Used(n) \in responses
    BY <1>3, <1>4 DEF Used, Answered
  <2>2. \A n : Used(n)' = <<n, Len(rounds'[n])>>
    BY DEF Used
  <2>3. \A n : n = Len(rounds) + 1 => Used(n)' = Attempt
    BY <1>3, <1>4, <2>2 DEF Attempt
  <2>4. \A n \in 1..Len(rounds') : n \in 1..Len(rounds) \/ n = Len(rounds) + 1
    BY <1>4, TypesOfIntents
  <2> QED
    BY <1>2, <2>1, <2>3, <2>4
<1>9. \A q \in Process : /\ pc'[q] \notin {"call", "calling", "adapt"}
                         /\ pc'[q] = "reserve" => pc[q] = "reserve"
  BY <1>1 DEF Locked, Driving, Shape
<1>10. Answered'
  <2>1. DOMAIN rounds' = 1..Len(rounds')
    BY <1>1, <1>3
  <2> QED
    BY <1>1, <1>7, <1>8, <1>9, <2>1 DEF Answered
<1>11. Retried'
  BY <1>1, <1>2, <1>5, <1>6, <1>7, <1>9 DEF Retried
<1> QED
  BY <1>10, <1>11

LEMMA GapsStay == [Next]_vars => gaps \subseteq gaps'
<1>1. ASSUME NEW p \in Process, Writes(p) PROVE gaps \subseteq gaps'
  BY <1>1 DEF Writes, RecordEffects, Reserve, ReserveRefused, StartRound, ContinueRound,
              CallController, ControllerAnswers, Commit, RunCase, history
<1>2. ASSUME NEW a \in Attempts, PublishReceipt(a) \/ OrphanEnds(a) PROVE gaps \subseteq gaps'
  BY <1>2 DEF PublishReceipt, OrphanEnds, history
<1>3. RemoveLock \/ UNCHANGED vars => gaps \subseteq gaps'
  BY DEF RemoveLock, vars, history
<1> QED
  BY <1>1, <1>2, <1>3, AsideLeaves, CommandIs DEF Next, Command

LEMMA BookSteps ==
    ASSUME Shape, Typed, Locked, Answered, Retried, [Next]_vars, gaps' = {}
    PROVE  Answered' /\ Retried'
<1>1. \A a \in DOMAIN effects : a \in Known
  BY AttemptsAre DEF Retried
<1>2. ASSUME NEW a \in Attempts, PublishReceipt(a) PROVE Answered' /\ Retried'
  <2>1. /\ a \in Known /\ a \notin DOMAIN effects
        /\ rounds' = rounds /\ pending' = pending /\ responses' = responses
        /\ effects' = effects /\ controllers' = controllers /\ pc' = pc /\ wrote' = wrote
    BY <1>2 DEF PublishReceipt, Answered, driverState
  <2>2. PICK c \in 1..Cases : receipts' = receipts \cup {Receipt(a, c)}
    BY <1>2 DEF PublishReceipt, Publishes
  <2> QED
    BY <2>1, <2>2, BookPublishes
<1>3. ASSUME NEW p \in Process, RunCase(p) PROVE Answered' /\ Retried'
  <2>1. /\ rounds' = rounds /\ pending' = pending /\ responses' = responses
        /\ effects' = effects /\ controllers' = controllers /\ pc' = pc /\ wrote' = wrote
    BY <1>3 DEF RunCase, driverState
  <2>2. PICK c \in 1..Cases : receipts' = receipts \cup {Receipt(FinalAttempt, c)}
    BY <1>3 DEF RunCase, Publishes
  <2>3. FinalAttempt \notin DOMAIN effects
    BY <1>1, AttemptsAre
  <2> QED
    BY <2>1, <2>2, <2>3, BookPublishes
<1>4. CASE RemoveLock \/ UNCHANGED vars \/ \E a \in Attempts : OrphanEnds(a)
  <2>1. /\ rounds' = rounds /\ pending' = pending /\ responses' = responses
        /\ effects' = effects /\ receipts' = receipts /\ pc' = pc /\ wrote' = wrote
        /\ controllers' \subseteq controllers
    BY <1>4 DEF RemoveLock, vars, OrphanEnds, driverState, evidence
  <2> QED
    BY <2>1, AttemptAtWork, SameIntents, BookStays
<1>5. ASSUME NEW p \in Process, Aside(p) \/ Writes(p) PROVE Answered' /\ Retried'
  BY <1>5, <1>3, QuietBook, EffectsBook, StartBook, ReserveBook, CommitBook DEF Writes
<1> QED
  BY <1>2, <1>4, <1>5, CommandIs DEF Next, Command

----------------------------------------------------------------------------
\* The final assay.

LEMMA StoppedStays ==
    ASSUME Stopped, rounds' = rounds, pending' = pending,
           final'.stage # "none" \/ (final' = final /\ trailing' = trailing)
    PROVE  Stopped'
BY SameIntents DEF Stopped

\* Steps that take nobody further in the final assay.
LEMMA SealedStays ==
    ASSUME Sealed, final' = final, files' = files, bundles' = bundles,
           receipts \subseteq receipts',
           Closing => /\ rounds' = rounds /\ pending' = pending
                      /\ archive' = archive /\ trailing' = trailing,
           \A q \in Process : pc'[q] = pc[q] \/ pc'[q] \in {"off", "setup", "effects",
                                 "reserve", "drive", "call", "calling", "adapt"}
    PROVE  Sealed'
<1>1. Closing' => Closing
  BY DEF Closing, Sealers
<1>2. Closing => pending' = NoPending /\ Stopped' /\ FinalDraw' = FinalDraw
  BY StoppedStays DEF Sealed, FinalDraw
<1>3. \A q \in Process : pc'[q] \in {"declare", "record", "select", "report"} =>
        pc'[q] = pc[q] /\ Closing
  BY DEF Closing, Sealers
<1>4. HasFinalRun' = HasFinalRun /\ (HasFinalRun => Closing)
  BY DEF HasFinalRun, Closing
<1>5. final.stage \in {"declared", "run"} \/ "report" \in files => Closing
  BY DEF Closing
<1> QED
  BY <1>1, <1>2, <1>3, <1>4, <1>5 DEF Sealed

LEMMA SealedBeside ==
    ASSUME Shape, Typed, Locked, Answered, Sealed, NEW p \in Process,
           \/ Run(p) \/ SetUp(p) \/ Resume(p) \/ Retry(p) \/ EffectsConflict(p)
           \/ AllocateRefused(p) \/ DeclareRefused(p) \/ ControllerFails(p)
           \/ AdapterFails(p) \/ CaseFails(p) \/ Die(p) \/ Writes(p)
    PROVE  Sealed'
<1> USE DEF Shape, At, Goto, Points
<1>0. Closing => ~Active /\ pending = NoPending
  BY TypesOfIntents DEF Sealed
<1>1. CASE \/ Run(p) \/ SetUp(p) \/ Resume(p) \/ Retry(p) \/ EffectsConflict(p)
           \/ AllocateRefused(p) \/ DeclareRefused(p)
  BY <1>1, SealedStays
  DEF Run, SetUp, Resume, Retry, EffectsConflict, AllocateRefused, DeclareRefused, Fails,
      driverState, evidence, sealing
<1>2. CASE ControllerFails(p) \/ AdapterFails(p) \/ CaseFails(p) \/ Die(p)
  BY <1>2, SealedStays
  DEF ControllerFails, AdapterFails, CaseFails, Die, Leaves, driverState, evidence, sealing
<1>3. CASE RecordEffects(p) \/ CallController(p) \/ ControllerAnswers(p)
  BY <1>3, SealedStays
  DEF RecordEffects, CallController, ControllerAnswers, driverState, evidence, sealing
<1>4. CASE Reserve(p) \/ ReserveRefused(p)
  BY <1>0, <1>4, SealedStays DEF Reserve, ReserveRefused, Retriable, evidence, sealing
<1>5. CASE StartRound(p) \/ ContinueRound(p)
  <2>1. ~Closing
    BY <1>0, <1>5 DEF StartRound, ContinueRound, Sealed
  <2> QED
    BY <1>5, <2>1, SealedStays DEF StartRound, ContinueRound, Leaves, evidence, sealing
<1>6. CASE Commit(p)
  <2>1. ~Closing
    BY <1>0, <1>6 DEF Commit, Locked
  <2> QED
    BY <1>6, <2>1, SealedStays DEF Commit, evidence
<1>7. CASE RunCase(p)
  <2>1. receipts \subseteq receipts'
    BY <1>7 DEF RunCase, Publishes
  <2> QED
    BY <1>7, <2>1, SealedStays DEF RunCase, driverState, sealing
<1> QED
  BY <1>1, <1>2, <1>3, <1>4, <1>5, <1>6, <1>7 DEF Writes

LEMMA SealedMoves ==
    ASSUME Shape, OneAssay, Typed, Sealed, NEW p \in Process,
           \/ StopSearch(p) \/ Finish(p) \/ Allocate(p) \/ Declare(p) \/ WriteBundle(p)
           \/ RecordFinalRun(p) \/ SelectHarness(p) \/ Report(p)
    PROVE  Sealed'
<1>0. /\ rounds' = rounds /\ pending' = pending /\ archive' = archive /\ receipts' = receipts
      /\ pending = NoPending /\ Stopped /\ FinalDraw' = FinalDraw
  <2>1. /\ rounds' = rounds /\ pending' = pending /\ archive' = archive
        /\ receipts' = receipts
    BY AsideLeaves DEF Aside
  <2>2. pending = NoPending /\ Stopped
    <3>1. CASE StopSearch(p)
      BY <3>1 DEF StopSearch
    <3>2. CASE p \in Sealers
      BY <3>2 DEF Sealed, Closing
    <3>3. StopSearch(p) \/ p \in Sealers
      BY DEF Finish, Allocate, Declare, WriteBundle, RecordFinalRun, SelectHarness, Report,
             At, Sealers
    <3> QED
      BY <3>1, <3>2, <3>3
  <2> QED
    BY <2>1, <2>2 DEF FinalDraw
<1> USE DEF Shape
<1>1. CASE StopSearch(p) \/ Finish(p)
  <2>1. /\ final' = final /\ trailing' = trailing /\ files' = files /\ bundles' = bundles
        /\ \E step \in {"finish", "select", "off", "allocate"} :
              /\ pc' = [pc EXCEPT ![p] = step]
              /\ step = "select" => HasFinalRun
    BY <1>1 DEF StopSearch, Finish, Leaves, Goto, driverState, evidence, sealing
  <2>2. Stopped'
    BY <1>0, <2>1, StoppedStays
  <2>3. HasFinalRun' = HasFinalRun
    BY <2>1 DEF HasFinalRun
  <2>4. \A q \in Process : /\ pc'[q] \in {"declare", "record", "report"} => pc'[q] = pc[q]
                           /\ pc'[q] = "select" => pc[q] = "select" \/ HasFinalRun
    BY <2>1
  <2> QED
    BY <1>0, <2>1, <2>2, <2>3, <2>4 DEF Sealed
<1>2. CASE Allocate(p)
  <2>1. /\ final.stage \notin {"declared", "run"} /\ trailing' = FinalDraw
        /\ \/ final' = final /\ trailing' = trailing
           \/ final' = [final EXCEPT !.stage = "allocated"]
        /\ files' = files /\ bundles' = bundles /\ pc' = [pc EXCEPT ![p] = "declare"]
    BY <1>2 DEF Allocate, Goto, evidence
  <2>2. final'.stage = final.stage \/ final'.stage = "allocated"
    BY <2>1
  <2>3. Stopped'
    BY <1>0, <2>1, StoppedStays
  <2>4. ~HasFinalRun /\ ~HasFinalRun'
    BY <2>1, <2>2 DEF HasFinalRun
  <2>5. \A q \in Process : pc'[q] \in {"record", "select", "report"} => pc'[q] = pc[q]
    BY <2>1
  <2> QED
    BY <1>0, <2>1, <2>3, <2>4, <2>5 DEF Sealed
<1>3. CASE Declare(p)
  <2>1. /\ final.stage \notin {"declared", "run"} /\ trailing = FinalDraw
        /\ trailing' = trailing /\ final'.stage = "declared"
        /\ files' = files /\ bundles' = bundles /\ pc' = [pc EXCEPT ![p] = "cases"]
    BY <1>3 DEF Declare, At, Goto, Sealed, evidence
  <2>2. Stopped'
    BY <1>0, <2>1, StoppedStays
  <2>3. ~HasFinalRun /\ ~HasFinalRun'
    BY <2>1 DEF HasFinalRun
  <2>4. \A q \in Process : pc'[q] \in {"declare", "record", "select", "report"} =>
          pc'[q] = pc[q]
    BY <2>1
  <2> QED
    BY <1>0, <2>1, <2>2, <2>3, <2>4 DEF Sealed
<1>4. CASE WriteBundle(p)
  <2>1. /\ ReceiptsOf(FinalAttempt) \subseteq receipts
        /\ bundles' = bundles \cup {ReceiptsOf(FinalAttempt)}
        /\ final' = final /\ trailing' = trailing /\ files' = files
        /\ pc' = [pc EXCEPT ![p] = "record"]
    BY <1>4 DEF WriteBundle, Goto, sealing
  <2>2. bundles' = {ReceiptsOf(FinalAttempt)}
    BY <2>1 DEF Sealed
  <2>3. Stopped'
    BY <1>0, <2>1, StoppedStays
  <2>4. HasFinalRun' = HasFinalRun
    BY <2>1 DEF HasFinalRun
  <2>5. \A q \in Process : pc'[q] \in {"declare", "select", "report"} => pc'[q] = pc[q]
    BY <2>1
  <2> QED
    BY <1>0, <2>1, <2>2, <2>3, <2>4, <2>5 DEF Sealed
<1>5. CASE RecordFinalRun(p)
  <2>1. /\ pc[p] = "record" /\ pc' = [pc EXCEPT ![p] = "select"]
        /\ final' = [stage |-> "run", names |-> ReceiptsOf(FinalAttempt)]
        /\ trailing' = trailing /\ files' = files /\ bundles' = bundles
    BY <1>5 DEF RecordFinalRun, At, Goto, evidence
  <2>2. /\ bundles = {ReceiptsOf(FinalAttempt)} /\ ReceiptsOf(FinalAttempt) \subseteq receipts
        /\ trailing = FinalDraw
    BY <2>1 DEF Sealed, OneAssay, Assaying
  <2>3. Stopped'
    BY <1>0, <2>1, StoppedStays
  <2>4. HasFinalRun'
    BY <2>1 DEF HasFinalRun
  <2>5. \A q \in Process : pc'[q] \in {"declare", "record", "report"} => pc'[q] = pc[q]
    BY <2>1
  <2> QED
    BY <1>0, <2>1, <2>2, <2>3, <2>4, <2>5 DEF Sealed
<1>6. CASE SelectHarness(p) \/ Report(p)
  <2>1. /\ final' = final /\ trailing' = trailing /\ bundles' = bundles
        /\ HasFinalRun /\ HasFinalRun'
    BY <1>6 DEF SelectHarness, Report, At, Sealed, HasFinalRun, evidence
  <2>2. Stopped'
    BY <1>0, <2>1, StoppedStays
  <2>3. CASE SelectHarness(p)
    <3>1. /\ pc' = [pc EXCEPT ![p] = "report"]
          /\ files' = IF Assay = "coding-agent-v1" THEN files \cup {"selected"} ELSE files
      BY <2>3 DEF SelectHarness, Goto
    <3>2. \A q \in Process : pc'[q] \in {"declare", "record", "select"} => pc'[q] = pc[q]
      BY <3>1
    <3>3. /\ Assay = "coding-agent-v1" => "selected" \in files'
          /\ "report" \in files' => "report" \in files
      BY <3>1
    <3> QED
      BY <1>0, <2>1, <2>2, <3>2, <3>3 DEF Sealed
  <2>4. CASE Report(p)
    <3>1. /\ pc[p] = "report" /\ pc' = [pc EXCEPT ![p] = "off"]
          /\ files' = files \/ files' = files \cup {"report"}
      BY <2>4 DEF Report, At, Goto
    <3>2. \A q \in Process : pc'[q] \in {"declare", "record", "select", "report"} =>
            pc'[q] = pc[q]
      BY <3>1
    <3>3. /\ Assay = "coding-agent-v1" => "selected" \in files
          /\ files \subseteq files'
      BY <3>1 DEF Sealed
    <3> QED
      BY <1>0, <2>1, <2>2, <3>2, <3>3 DEF Sealed
  <2> QED
    BY <1>6, <2>3, <2>4
<1> QED
  BY <1>1, <1>2, <1>3, <1>4, <1>5, <1>6

LEMMA SealedSteps ==
    ASSUME Shape, OneAssay, Typed, Locked, Answered, Sealed, [Next]_vars
    PROVE  Sealed'
<1>1. ASSUME NEW a \in Attempts, PublishReceipt(a) \/ OrphanEnds(a) PROVE Sealed'
  BY <1>1, SealedStays
  DEF PublishReceipt, OrphanEnds, Publishes, driverState, evidence, sealing
<1>2. CASE RemoveLock \/ UNCHANGED vars
  BY <1>2, SealedStays DEF RemoveLock, vars, driverState, evidence, sealing
<1>3. ASSUME NEW p \in Process, Aside(p) \/ Writes(p) PROVE Sealed'
  BY <1>3, SealedBeside, SealedMoves DEF Aside
<1> QED
  BY <1>1, <1>2, <1>3, CommandIs DEF Next, Command

LEMMA InitReports == HarnessAssumption /\ Init => RInv
<1> SUFFICES ASSUME HarnessAssumption, Init PROVE RInv
  OBVIOUS
<1> USE DEF Init
<1>1. Typed
  BY NothingPending DEF Typed, Docs, Times, NoDocument, Document, FinalAttempt
<1>2. Active = FALSE /\ Rows = <<>> /\ Known = {} /\ Past = {}
  <2>1. Active = FALSE
    BY NothingPending DEF Active
  <2>2. Rows = <<>>
    BY <2>1 DEF Rows
  <2> QED
    BY <2>1, <2>2 DEF Known, Past
<1>3. Locked
  BY DEF Locked, Driving
<1>4. Answered /\ Retried
  BY <1>2 DEF Answered, Retried
<1>5. Sealed
  BY DEF Sealed, Closing, Sealers, HasFinalRun
<1> QED
  BY <1>1, <1>3, <1>4, <1>5, InitInvariant DEF RInv

LEMMA ReportsInvariant == HarnessAssumption /\ RInv /\ [Next]_vars => RInv'
<1> SUFFICES ASSUME HarnessAssumption, RInv, [Next]_vars PROVE RInv'
  OBVIOUS
<1>1. IInv'
  BY StepInvariant DEF RInv
<1>2. Typed' /\ Locked'
  BY TypedSteps, LockedSteps DEF RInv, IInv
<1>3. gaps' = {} => Answered' /\ Retried' /\ Sealed'
  BY GapsStay, BookSteps, SealedSteps DEF RInv, IInv
<1> QED
  BY <1>1, <1>2, <1>3 DEF RInv

\* A report that is written verifies: its rounds, its final assay and the effects
\* of its retries account for every receipt on disk (verify_experiment), unless one
\* of the three gaps was hit.
THEOREM WrittenReportsVerify == Spec => []ReportsVerify
<1>1. RInv => ReportsVerify
  <2> SUFFICES ASSUME RInv, "report" \in files, gaps = {} PROVE Verifies
    BY DEF ReportsVerify
  <2> USE DEF RInv
  <2>1. /\ HasFinalRun /\ pending = NoPending /\ trailing = FinalDraw
        /\ final.names = ReceiptsOf(FinalAttempt) /\ bundles = {ReceiptsOf(FinalAttempt)}
        /\ ReceiptsOf(FinalAttempt) \subseteq receipts
        /\ Assay = "coding-agent-v1" => "selected" \in files
    BY DEF Sealed, Closing, HasFinalRun
  <2>2. ~Active /\ Rows = rounds
    BY <2>1, TypesOfIntents, RowsAre
  <2>3. Past = Superseded
    BY <2>2 DEF Past, Superseded
  <2>4. /\ DOMAIN effects = Superseded
        /\ \A a \in Superseded : rounds[a[1]][a[2] + 1] = Document(a, effects[a])
    BY <2>2, <2>3 DEF Retried
  <2>5. receipts \subseteq DevelopmentReceipts \cup ReceiptsOf(FinalAttempt)
                             \cup UNION {effects[a] : a \in DOMAIN effects}
    <3> SUFFICES ASSUME NEW r \in receipts, r \notin ReceiptsOf(FinalAttempt)
                 PROVE  r \in DevelopmentReceipts \cup UNION {effects[a] : a \in DOMAIN effects}
      OBVIOUS
    <3>0. PICK a \in Known : r \in ReceiptsOf(a)
      <4>1. PICK a \in Known \cup {FinalAttempt} : r \in ReceiptsOf(a)
        BY DEF Answered
      <4> QED
        BY <4>1
    <3>1. PICK n \in DOMAIN rounds :
            \E i \in 1..Len(rounds[n]) : r \in ReceiptsOf(<<n, i>>)
      BY <2>2, <3>0, KnownIs DEF Known
    <3>4. PICK i \in 1..Len(rounds[n]) : r \in ReceiptsOf(<<n, i>>)
      BY <3>1
    <3>2. CASE i = Len(rounds[n])
      BY <3>4, <3>2 DEF DevelopmentReceipts, Used
    <3>3. CASE i # Len(rounds[n])
      <4>1. i \in 1..(Len(rounds[n]) - 1)
        BY <3>4, <3>3 DEF Typed
      <4>2. <<n, i>> \in DOMAIN effects
        BY <3>4, <4>1, <2>4 DEF Superseded
      <4>3. r \in effects[<<n, i>>]
        BY <3>4, <4>2 DEF Retried
      <4> QED
        BY <4>2, <4>3
    <3> QED
      BY <3>2, <3>3
  <2>6. DevelopmentReceipts \subseteq receipts
    BY DEF DevelopmentReceipts, Answered
  <2>7. UNION {effects[a] : a \in DOMAIN effects} \subseteq receipts
    BY DEF Retried
  <2> QED
    BY <2>1, <2>4, <2>5, <2>6, <2>7 DEF Verifies, FinalVerifies, ReceiptsClose
<1> QED
  BY <1>1, HarnessAssumption, InitReports, ReportsInvariant, PTL DEF Spec
=============================================================================
