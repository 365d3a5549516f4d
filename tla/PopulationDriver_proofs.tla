----------------------- MODULE PopulationDriver_proofs -----------------------
(***************************************************************************)
(* The Population Driver, for every limit, every result of the components, *)
(* every interference of the operator and any number of deaths: it         *)
(* implements RoundProtocol, whatever the Population records contain; what *)
(* it leaves durable replays; and it spends what is reserved.  Each part   *)
(* has an inductive invariant of its own (IInv, RInv, SInv) on top of the  *)
(* one before.                                                             *)
(***************************************************************************)
EXTENDS PopulationDriver, SequenceTheorems, FiniteSetTheorems, TLAPS

\* Appending to a finite sequence gives a finite sequence one longer that
\* starts with the old one.
LEMMA AppendIsLedger ==
    ASSUME NEW l, IsLedger(l), NEW r
    PROVE  /\ IsLedger(Append(l, r))
           /\ Len(Append(l, r)) = Len(l) + 1
           /\ Append(l, r)[Len(l) + 1] = r
           /\ \A i \in 1..Len(l) : Append(l, r)[i] = l[i]
           /\ Len(l) \in Nat
<1> DEFINE S == {l[i] : i \in DOMAIN l} \cup {r}
           m == Append(l, r)
<1>1. l \in Seq(S)
  BY DEF IsLedger
<1>2. /\ m \in Seq(S)
      /\ Len(m) = Len(l) + 1
      /\ m[Len(l) + 1] = r
      /\ \A i \in 1..Len(l) : m[i] = l[i]
      /\ Len(l) \in Nat
  BY <1>1
<1>3. IsLedger(m)
  <2> DEFINE R == {m[i] : i \in DOMAIN m}
  <2>1. m \in [1..Len(m) -> S] /\ Len(m) \in Nat
    BY <1>2, LenProperties
  <2>2. m \in [1..Len(m) -> R]
    BY <2>1
  <2>3. m \in Seq(R)
    BY <2>1, <2>2, SeqDef
  <2> QED
    BY <2>3 DEF IsLedger
<1> QED
  BY <1>2, <1>3

LEMMA EmptyIsLedger == IsLedger(<< >>)
<1> << >> \in Seq({(<< >>)[i] : i \in DOMAIN << >>})
  BY EmptySeq
<1> QED
  BY DEF IsLedger

PendingFields ==
    {"stage", "round", "parent", "allocation", "start", "attempts",
     "evidenceAttempts", "evidenceWall", "error"}

IsPending(p) ==
    /\ p = [f \in PendingFields |-> p[f]]
    /\ p.stage \in Stages
    /\ p.round \in Nat
    /\ p.attempts \in Nat \ {0}

\* The shapes of the variables that the induction needs.
Shape ==
    /\ IsLedger(rounds)
    /\ Len(rounds) \in Nat
    /\ \A n \in 1..Len(rounds) : rounds[n].round = n /\ rounds[n].attempts \in Nat \ {0}
    /\ pending = NoPending \/ IsPending(pending)
    /\ DOMAIN receipts = {"controller", "evidence"}
    /\ calls \in Nat

\* A checkpoint belongs to the current round, within its limit, or it is left
\* over from the round committed last.
Placed ==
    pending # NoPending =>
        \/ pending.round = Len(rounds) + 1 /\ Len(rounds) < MaxRounds
        \/ pending.round = Len(rounds) /\ pending.stage = "evidence_complete"

\* Calls were made for attempts on record only.
Owned ==
    \A a \in called :
        /\ a = <<a[1], a[2]>> /\ a[1] \in Nat \ {0} /\ a[2] \in Nat \ {0}
        /\ \/ a[1] <= Len(rounds) /\ a[2] <= rounds[a[1]].attempts
           \/ ActivePending /\ a[1] = pending.round /\ a[2] <= pending.attempts

\* An invocation that may call the Controller holds an attempt not yet spent.
Fresh ==
    (/\ pc \in {"verifying", "planning"} /\ allow
     /\ ActivePending /\ pending.stage = "controller_pending")
        => Attempt(pending) \notin called

\* Receipts, and what rests on them, are of calls that were made.
Backed ==
    /\ DOMAIN receipts.controller \subseteq called
    /\ (ActivePending /\ pending.stage # "controller_pending") => Attempt(pending) \in called

\* Past the call, the invocation works on the current round.
Working == {"controller", "controller_receipt", "evidence", "counting", "adapter",
            "evidence_receipt", "ingest", "ingesting", "commit"}

Located ==
    /\ pc \in States
    /\ pc \in Working => ActivePending /\ Attempt(pending) \in called
    /\ pc \in {"ingest", "ingesting", "commit"} => pending.stage = "evidence_complete"
    /\ pc = "remove" => ~ ActivePending
    /\ pc = "off" => ~ allow

IInv == Shape /\ Placed /\ Owned /\ Fresh /\ Backed /\ Located

----------------------------------------------------------------------------

LEMMA ReceiptDomain ==
    ASSUME NEW f, NEW a, NEW c
    PROVE  DOMAIN Recorded(f, a, c) = DOMAIN f \cup {a}
BY DEF Recorded

\* A round is only started below the limit: the planner stops otherwise.
LEMMA StartsBelowLimit ==
    ASSUME NEW l, pending = NoPending, PlanStatus(l) = "none", Len(rounds) \in Nat
    PROVE  Len(rounds) < MaxRounds
BY LimitsAssumption DEF PlanStatus, StopStatus

LEMMA InitInvariant == Init => IInv
<1> SUFFICES ASSUME Init PROVE IInv
  OBVIOUS
<1>1. Shape
  BY EmptyIsLedger DEF Init, Shape
<1>2. Placed /\ Owned /\ Fresh /\ Backed /\ Located
  BY DEF Init, Placed, Owned, Fresh, Backed, Located, ActivePending, States, Working
<1> QED
  BY <1>1, <1>2 DEF IInv

\* Steps that leave the rounds, the checkpoint, the receipts and the calls alone.
Quiet == UNCHANGED <<rounds, pending, receipts, called, calls>>

\* A quiet step preserves the invariant when the invocation stays where its
\* state of the round allows it to be.
LEMMA QuietStep ==
    ASSUME IInv, Quiet, pc' \in States,
           pc' \in Working => pc \in Working \/ (ActivePending /\ Attempt(pending) \in called),
           pc' \in {"ingest", "ingesting", "commit"} =>
               ActivePending /\ pending.stage = "evidence_complete",
           pc' = "remove" => pc = "remove",
           pc' = "off" => ~ allow' \/ (pc = "off" /\ allow' = allow),
           (pc' \in {"verifying", "planning"} /\ allow') =>
               (pc \in {"verifying", "planning"} /\ allow)
    PROVE  IInv'
BY DEF IInv, Quiet, Shape, Placed, Owned, Fresh, Backed, Located, ActivePending, Attempt,
       CurrentRound, IsPending

\* Checkpoints of the same attempt: only the stage or the accounts change, and
\* the stage only for an attempt that was called.
LEMMA CheckpointStep ==
    ASSUME IInv, ActivePending, UNCHANGED <<rounds, receipts, called, calls>>,
           IsPending(pending'), pending'.round = pending.round,
           pending'.attempts = pending.attempts,
           Attempt(pending) \in called,
           pc' \in States, pc' \notin {"verifying", "planning", "remove", "off"},
           pc' \in {"ingest", "ingesting", "commit"} => pending'.stage = "evidence_complete"
    PROVE  IInv'
BY DEF IInv, Shape, Placed, Owned, Fresh, Backed, Located, ActivePending, Attempt,
       CurrentRound, IsPending, NoPending, Stages

\* A new intent, or one more attempt of the old one: it was never called.
LEMMA IntentStep ==
    ASSUME IInv, UNCHANGED <<rounds, receipts, called, calls>>, pc' = "verifying",
           IsPending(pending'), pending'.stage = "controller_pending",
           pending'.round = Len(rounds) + 1, Len(rounds) < MaxRounds,
           IF ActivePending
             THEN pending.round = pending'.round /\ pending.attempts \in Nat
                      /\ pending'.attempts = pending.attempts + 1
             ELSE TRUE
    PROVE  IInv'
<1>1. ActivePending'
  BY DEF ActivePending, CurrentRound, IsPending, NoPending, PendingFields
<1>2. Shape' /\ Placed'
  BY DEF IInv, Shape, Placed
<1>3. Owned'
  <2> SUFFICES ASSUME NEW a \in called, ActivePending, a[1] = pending.round,
                      a[2] <= pending.attempts, a[2] \in Nat
               PROVE  a[1] = pending'.round /\ a[2] <= pending'.attempts
    BY <1>1 DEF IInv, Owned
  <2> QED
    OBVIOUS
<1>4. Attempt(pending') \notin called
  <2> SUFFICES ASSUME Attempt(pending') \in called PROVE FALSE
    OBVIOUS
  <2> DEFINE a == Attempt(pending')
  <2>1. a[1] = pending'.round /\ a[2] = pending'.attempts
    BY DEF Attempt
  <2>2. pending'.round \in Nat /\ pending'.attempts \in Nat \ {0} /\ Len(rounds) \in Nat
    BY DEF IsPending, IInv, Shape
  <2>3. ActivePending /\ a[2] <= pending.attempts
    BY <2>1, <2>2 DEF IInv, Owned
  <2> QED
    BY <2>1, <2>2, <2>3
<1>5. Fresh' /\ Backed' /\ Located'
  BY <1>4 DEF IInv, Fresh, Backed, Located, States, Working, Attempt
<1> QED
  BY <1>2, <1>3, <1>5 DEF IInv

\* The checkpoint of a committed round goes away.
LEMMA ClearStep ==
    ASSUME IInv, ~ ActivePending, UNCHANGED <<rounds, receipts, called, calls>>,
           pending' = NoPending, pc' = "verifying"
    PROVE  IInv'
<1>1. ~ ActivePending'
  BY DEF ActivePending
<1>2. Shape'
  BY DEF IInv, Shape
<1>3. Placed'
  BY DEF Placed
<1>4. Owned'
  BY DEF IInv, Owned
<1>5. Fresh' /\ Backed'
  BY <1>1 DEF IInv, Fresh, Backed
<1>6. Located'
  BY DEF Located, States, Working
<1> QED
  BY <1>2, <1>3, <1>4, <1>5, <1>6 DEF IInv

LEMMA StepInvariant == IInv /\ [Next]_vars => IInv'
<1> SUFFICES ASSUME IInv, [Next]_vars PROVE IInv'
  OBVIOUS
<1> USE DEF Goto, Exit, durable, locks, invocation, history, bounds
<1>1. ASSUME NEW m \in Modes, Invoke(m) PROVE IInv'
  BY <1>1, QuietStep DEF Invoke, Quiet, States, Working, IInv, Located
<1>2. CASE Verify
  BY <1>2, QuietStep DEF Verify, Quiet, States, Working
<1>3. CASE ClearCommitted
  BY <1>3, ClearStep DEF ClearCommitted, CommittedPending, ActivePending, CurrentRound, IInv,
       Shape
<1>4. CASE FinishVerify
  BY <1>4, QuietStep DEF FinishVerify, Quiet, States, Working
<1>5. CASE Retry
  <2>1. CASE ~ RetryAllowed
    BY <1>5, <2>1, QuietStep DEF Retry, Quiet, States, Working
  <2>2. CASE RetryAllowed
    <3>1. /\ ActivePending /\ IsPending(pending) /\ pending.stage = "controller_pending"
          /\ pending' = [pending EXCEPT !.attempts = @ + 1, !.error = FALSE]
          /\ pc' = "verifying"
          /\ UNCHANGED <<rounds, receipts, called, calls>>
      BY <1>5, <2>2 DEF Retry, RetryAllowed, IInv, Shape, ActivePending
    <3>2. /\ pending'.stage = "controller_pending" /\ pending'.round = pending.round
          /\ pending'.attempts = pending.attempts + 1
          /\ pending' = [f \in PendingFields |-> pending'[f]]
      <4>1. pending = [f \in PendingFields |-> pending[f]]
        BY <3>1 DEF IsPending
      <4> QED
        BY <3>1, <4>1 DEF PendingFields
    <3>3. pending.attempts \in Nat \ {0} /\ pending.round \in Nat
      BY <3>1 DEF IsPending
    <3>4. IsPending(pending')
      BY <3>2, <3>3 DEF IsPending, Stages
    <3>5. pending.round = Len(rounds) + 1 /\ Len(rounds) < MaxRounds
      BY <3>1 DEF IInv, Shape, Placed, ActivePending, CurrentRound
    <3> QED
      BY <3>1, <3>2, <3>3, <3>4, <3>5, IntentStep
  <2> QED
    BY <2>1, <2>2
<1>6. CASE Stop
  BY <1>6, QuietStep DEF Stop, Quiet, States, Working
<1>7. CASE StartPending
  <2>1. /\ IsPending(pending') /\ pending'.stage = "controller_pending"
        /\ pending'.round = Len(rounds) + 1 /\ pending'.attempts = 1
        /\ pending = NoPending /\ Len(rounds) < MaxRounds
        /\ UNCHANGED <<rounds, receipts, called, calls>> /\ pc' = "verifying"
    BY <1>7, StartsBelowLimit DEF StartPending, IsPending, PendingFields, CurrentRound, IInv,
         Shape, Stages, Planning
  <2>2. ~ ActivePending
    BY <2>1 DEF ActivePending
  <2> QED
    BY <2>1, <2>2, IntentStep
<1>8. CASE AdoptControllerReceipt
  <2>1. ActivePending /\ IsPending(pending) /\ Attempt(pending) \in called
    BY <1>8 DEF AdoptControllerReceipt, Advancing, Planning, CommittedPending, IInv, Shape,
         Placed, Backed, ActivePending, CurrentRound
  <2>2. IsPending(pending') /\ pending'.round = pending.round
        /\ pending'.attempts = pending.attempts
    BY <1>8, <2>1 DEF AdoptControllerReceipt, IsPending, PendingFields, Stages
  <2> QED
    BY <1>8, <2>1, <2>2, CheckpointStep DEF AdoptControllerReceipt, States
<1>9. CASE LeaveIndeterminate
  BY <1>9, QuietStep DEF LeaveIndeterminate, Quiet, States, Working
<1>10. CASE CallController
  <2>1. ActivePending /\ IsPending(pending) /\ pending.stage = "controller_pending"
    BY <1>10 DEF CallController, Advancing, Planning, CommittedPending, IInv, Shape, Placed,
         ActivePending, CurrentRound
  <2>2. /\ pc' = "controller" /\ UNCHANGED <<rounds, pending, receipts>>
        /\ called' = called \cup {Attempt(pending)} /\ calls' = calls + 1
    BY <1>10 DEF CallController
  <2>3. Attempt(pending) = <<pending.round, pending.attempts>>
        /\ pending.round \in Nat \ {0} /\ pending.attempts \in Nat \ {0}
    BY <2>1 DEF Attempt, IsPending, ActivePending, CurrentRound, IInv, Shape
  <2>4. Owned'
    BY <2>1, <2>2, <2>3 DEF IInv, Owned, ActivePending, CurrentRound
  <2>5. Shape' /\ Placed'
    BY <2>2 DEF IInv, Shape, Placed
  <2>6. Fresh' /\ Backed' /\ Located'
    BY <2>1, <2>2 DEF IInv, Fresh, Backed, Located, ActivePending, CurrentRound, Attempt,
         States, Working
  <2> QED
    BY <2>4, <2>5, <2>6 DEF IInv
<1>11. ASSUME NEW c \in Candidate, ControllerReturns(c) PROVE IInv'
  <2>1. /\ DOMAIN receipts' = {"controller", "evidence"}
        /\ DOMAIN receipts'.controller = DOMAIN receipts.controller \cup {Attempt(pending)}
    <3>1. receipts' = [receipts EXCEPT !.controller =
                           Recorded(receipts.controller, Attempt(pending), c)]
      BY <1>11 DEF ControllerReturns
    <3>2. DOMAIN Recorded(receipts.controller, Attempt(pending), c)
              = DOMAIN receipts.controller \cup {Attempt(pending)}
      BY ReceiptDomain
    <3> QED
      BY <3>1, <3>2 DEF IInv, Shape
  <2> QED
    BY <1>11, <2>1 DEF ControllerReturns, IInv, Shape, Placed, Owned, Fresh, Backed, Located,
         ActivePending, Attempt, CurrentRound, IsPending, States, Working
<1>12. CASE CheckpointController \/ CheckpointEvidence \/ AdoptEvidenceReceipt
            \/ ControllerFails \/ AdapterFails \/ EvidenceWallLimit \/ ReserveEvidence
            \/ CountEvidence
  <2>1. ActivePending /\ IsPending(pending) /\ Attempt(pending) \in called
    BY <1>12 DEF CheckpointController, CheckpointEvidence, AdoptEvidenceReceipt,
         ControllerFails, AdapterFails, EvidenceWallLimit, ReserveEvidence, CountEvidence,
         NeedsAdapter, IInv, Shape, Located, Working, ActivePending
  <2>2. IsPending(pending') /\ pending'.round = pending.round
        /\ pending'.attempts = pending.attempts
    BY <1>12, <2>1 DEF CheckpointController, CheckpointEvidence, AdoptEvidenceReceipt,
         ControllerFails, AdapterFails, EvidenceWallLimit, ReserveEvidence, CountEvidence,
         IsPending, PendingFields, Stages
  <2>3. pc' = "ingest" => pending'.stage = "evidence_complete"
    BY <1>12, <2>1 DEF CheckpointController, CheckpointEvidence, AdoptEvidenceReceipt,
         ControllerFails, AdapterFails, EvidenceWallLimit, ReserveEvidence, CountEvidence,
         IsPending, PendingFields
  <2>4. /\ pc' \in {"evidence", "ingest", "refresh", "counting", "adapter"}
        /\ UNCHANGED <<rounds, receipts, called, calls>>
    BY <1>12 DEF CheckpointController, CheckpointEvidence, AdoptEvidenceReceipt,
         ControllerFails, AdapterFails, EvidenceWallLimit, ReserveEvidence, CountEvidence
  <2> QED
    BY <2>1, <2>2, <2>3, <2>4, CheckpointStep DEF States
<1>13. CASE ReachEvidence \/ ReachIngest
  BY <1>13, QuietStep DEF ReachEvidence, ReachIngest, Quiet, States, Working, Advancing, Planning,
       CommittedPending, IInv, Placed, Backed, ActivePending, CurrentRound
<1>14. ASSUME NEW ev \in Evidence, AdapterReturns(ev) PROVE IInv'
  <2>1. /\ DOMAIN receipts' = {"controller", "evidence"}
        /\ receipts'.controller = receipts.controller
    BY <1>14 DEF AdapterReturns, IInv, Shape
  <2> QED
    BY <1>14, <2>1 DEF AdapterReturns, IInv, Shape, Placed, Owned, Fresh, Backed, Located,
         ActivePending, Attempt, CurrentRound, IsPending, States, Working
<1>15. CASE BeginIngest \/ IngestRecord \/ FinishIngest
  BY <1>15, QuietStep DEF BeginIngest, IngestRecord, FinishIngest, Quiet, States, Working, IInv,
       Located
<1>16. CASE Commit
  <2> DEFINE r == rounds'[Len(rounds) + 1]
  <2>1. /\ ActivePending /\ IsPending(pending) /\ Attempt(pending) \in called
        /\ pending.stage = "evidence_complete"
    BY <1>16 DEF Commit, IInv, Shape, Located, Working, ActivePending
  <2>2. /\ IsLedger(rounds') /\ Len(rounds') = Len(rounds) + 1
        /\ \A n \in 1..Len(rounds) : rounds'[n] = rounds[n]
        /\ r.round = pending.round /\ r.attempts = pending.attempts
    BY <1>16, AppendIsLedger DEF Commit, IInv, Shape
  <2> HIDE DEF r
  <2>3. UNCHANGED <<pending, receipts, called, calls>> /\ pc' = "remove"
    BY <1>16 DEF Commit
  <2>4. \A n \in 1..Len(rounds') : n \in 1..Len(rounds) \/ n = Len(rounds) + 1
    BY <2>2 DEF IInv, Shape
  <2>5. Shape'
    BY <2>1, <2>2, <2>3, <2>4 DEF IInv, Shape, IsPending, ActivePending, CurrentRound, r
  <2>6. Placed' /\ Fresh' /\ Backed' /\ Located'
    BY <2>1, <2>2, <2>3 DEF IInv, Shape, Placed, Fresh, Backed, Located, ActivePending,
         CurrentRound, States, Working, Attempt
  <2>7. Owned'
    <3> SUFFICES ASSUME NEW a \in called
                 PROVE  /\ a = <<a[1], a[2]>> /\ a[1] \in Nat \ {0} /\ a[2] \in Nat \ {0}
                        /\ a[1] <= Len(rounds') /\ a[2] <= rounds'[a[1]].attempts
      BY <2>3 DEF Owned
    <3>1. a = <<a[1], a[2]>> /\ a[1] \in Nat \ {0} /\ a[2] \in Nat \ {0}
      BY DEF IInv, Owned
    <3>2. CASE a[1] <= Len(rounds) /\ a[2] <= rounds[a[1]].attempts
      BY <2>2, <3>1, <3>2 DEF IInv, Shape
    <3>3. CASE a[1] = pending.round /\ a[2] <= pending.attempts
      BY <2>1, <2>2, <3>1, <3>3 DEF IInv, Shape, ActivePending, CurrentRound, r
    <3> QED
      BY <3>1, <3>2, <3>3 DEF IInv, Owned
  <2> QED
    BY <2>5, <2>6, <2>7 DEF IInv
<1>17. CASE RemovePending
  BY <1>17, ClearStep DEF RemovePending, IInv, Located
<1>18. CASE Refresh
  BY <1>18, QuietStep DEF Refresh, Quiet, States, Working
<1>19. CASE Crash
  BY <1>19, QuietStep DEF Crash, Quiet, States, Working
<1>20. CASE RemoveAbandonedLocks \/ OperatorBegins \/ OperatorGivesUp \/ OperatorDies
            \/ (\E r \in OperatorRecord : OperatorAppends(r))
  BY <1>20, QuietStep DEF RemoveAbandonedLocks, OperatorBegins, OperatorGivesUp, OperatorDies,
       OperatorAppends, Quiet, States, Working, IInv, Located
<1>21. CASE UNCHANGED vars
  BY <1>21, QuietStep DEF vars, Quiet, Working, IInv, Located
<1> QED
  BY <1>1, <1>2, <1>3, <1>4, <1>5, <1>6, <1>7, <1>8, <1>9, <1>10, <1>11, <1>12, <1>13, <1>14,
     <1>15, <1>16, <1>17, <1>18, <1>19, <1>20, <1>21
     DEF Next, Driver, Planner, Controller, Adapter, Ingestion

----------------------------------------------------------------------------
\* The refinement.

\* The approvals as they follow from the committed rounds R and the checkpoint p.
Active(R, p) == p # NoPending /\ p.round = Len(R) + 1
Paid(R, p) ==
    UNION {Approvals(r) : r \in {R[n] : n \in 1..Len(R)}
                                    \cup (IF Active(R, p) THEN {p} ELSE {})}

LEMMA ApprovedIsPaid ==
    /\ Approved = Paid(rounds, pending)
    /\ Approved' = Paid(rounds', pending')
BY DEF Approved, Paid, Active, Accounted, ActivePending, CurrentRound

\* An approval is of a committed round, or of the one under way.
LEMMA PaidIs ==
    ASSUME NEW R, NEW p, \A n \in 1..Len(R) : R[n].round = n,
           NEW a
    PROVE  a \in Paid(R, p) <=>
               \/ \E n \in 1..Len(R) : \E k \in 1..R[n].attempts : a = <<n, k>>
               \/ Active(R, p) /\ \E k \in 1..p.attempts : a = <<p.round, k>>
<1> DEFINE A == {R[n] : n \in 1..Len(R)} \cup (IF Active(R, p) THEN {p} ELSE {})
<1>1. a \in Paid(R, p) <=> \E r \in A : \E k \in 1..r.attempts : a = <<r.round, k>>
  BY DEF Paid, Approvals
<1>2. (\E r \in A : \E k \in 1..r.attempts : a = <<r.round, k>>) <=>
          \/ \E n \in 1..Len(R) : \E k \in 1..R[n].attempts : a = <<R[n].round, k>>
          \/ Active(R, p) /\ \E k \in 1..p.attempts : a = <<p.round, k>>
  OBVIOUS
<1> QED
  BY <1>1, <1>2

\* A checkpoint of the same attempt approves the same.
LEMMA SamePaid ==
    ASSUME NEW R, NEW p, NEW q, \A n \in 1..Len(R) : R[n].round = n,
           Active(R, p) <=> Active(R, q),
           Active(R, p) => p.round = q.round /\ p.attempts = q.attempts
    PROVE  Paid(R, q) = Paid(R, p)
<1> SUFFICES ASSUME NEW a PROVE a \in Paid(R, q) <=> a \in Paid(R, p)
  OBVIOUS
<1> QED
  BY PaidIs

\* One more attempt of round n approves one more call.
LEMMA OneMorePaid ==
    ASSUME NEW R, NEW p, NEW q, Len(R) \in Nat, \A n \in 1..Len(R) : R[n].round = n,
           Active(R, q), NEW k \in Nat \ {0}, q.attempts = k,
           IF Active(R, p) THEN k = p.attempts + 1 /\ p.attempts \in Nat \ {0} ELSE k = 1
    PROVE  /\ Paid(R, q) = Paid(R, p) \cup {<<Len(R) + 1, k>>}
           /\ <<Len(R) + 1, k>> \notin Paid(R, p)
           /\ k = 1 \/ <<Len(R) + 1, k - 1>> \in Paid(R, p)
<1> DEFINE new == <<Len(R) + 1, k>>
<1>1. q.round = Len(R) + 1 /\ (Active(R, p) => p.round = Len(R) + 1)
  BY DEF Active
<1>2. \A n \in 1..Len(R) : n # Len(R) + 1
  OBVIOUS
<1>3. new \notin Paid(R, p)
  BY <1>1, <1>2, PaidIs
<1>4. ASSUME NEW a PROVE a \in Paid(R, q) <=> a \in Paid(R, p) \/ a = new
  <2>1. (\E j \in 1..k : a = <<Len(R) + 1, j>>) <=>
            a = new \/ (Active(R, p) /\ \E j \in 1..p.attempts : a = <<Len(R) + 1, j>>)
    <3>1. CASE Active(R, p)
      <4>1. \A j : j \in 1..k <=> j = k \/ j \in 1..p.attempts
        BY <3>1
      <4> QED
        BY <3>1, <4>1
    <3>2. CASE ~ Active(R, p)
      <4>1. \A j : j \in 1..k <=> j = k
        BY <3>2
      <4> QED
        BY <3>2, <4>1
    <3> QED
      BY <3>1, <3>2
  <2> QED
    BY <1>1, <2>1, PaidIs
<1>5. k = 1 \/ <<Len(R) + 1, k - 1>> \in Paid(R, p)
  BY <1>1, PaidIs
<1> QED
  BY <1>3, <1>4, <1>5

\* Steps that commit nothing, call nothing and approve nothing.
LEMMA StutterStep ==
    ASSUME IInv, UNCHANGED <<rounds, called, calls>>,
           \/ pending' = pending
           \/ ~ ActivePending /\ pending' = NoPending
           \/ /\ ActivePending /\ IsPending(pending')
              /\ pending'.round = pending.round /\ pending'.attempts = pending.attempts
    PROVE  UNCHANGED Protocol!vars
<1>1. \A n \in 1..Len(rounds) : rounds[n].round = n
  BY DEF IInv, Shape
<1>2. Active(rounds, pending) <=> Active(rounds, pending')
  BY DEF Active, ActivePending, CurrentRound, IsPending, PendingFields, NoPending
<1>3. Active(rounds, pending) =>
          pending.round = pending'.round /\ pending.attempts = pending'.attempts
  BY DEF Active, ActivePending, CurrentRound
<1>4. Paid(rounds, pending') = Paid(rounds, pending)
  BY <1>1, <1>2, <1>3, SamePaid
<1> QED
  BY <1>4, ApprovedIsPaid DEF Protocol!vars

\* A new intent, or an explicit retry.
LEMMA ApproveStep ==
    ASSUME IInv, UNCHANGED <<rounds, called, calls>>,
           IsPending(pending'), pending'.round = Len(rounds) + 1,
           IF ActivePending
             THEN pending.attempts \in Nat \ {0} /\ pending'.attempts = pending.attempts + 1
             ELSE pending'.attempts = 1
    PROVE  Protocol!Approve
<1> DEFINE k == pending'.attempts
           new == <<Len(rounds) + 1, k>>
<1>1. k \in Nat \ {0} /\ Len(rounds) \in Nat /\ \A n \in 1..Len(rounds) : rounds[n].round = n
  BY DEF IsPending, IInv, Shape
<1>2. Active(rounds, pending') /\ (Active(rounds, pending) <=> ActivePending)
  BY DEF Active, ActivePending, CurrentRound, IsPending, PendingFields, NoPending
<1>3. /\ Paid(rounds, pending') = Paid(rounds, pending) \cup {new}
      /\ new \notin Paid(rounds, pending)
      /\ k = 1 \/ <<Len(rounds) + 1, k - 1>> \in Paid(rounds, pending)
  <2> HIDE DEF k
  <2>1. IF Active(rounds, pending)
          THEN k = pending.attempts + 1 /\ pending.attempts \in Nat \ {0} ELSE k = 1
    BY <1>2 DEF k
  <2>2. pending'.attempts = k
    BY DEF k
  <2> QED
    BY <1>1, <1>2, <2>1, <2>2, OneMorePaid
<1>4. /\ Approved' = Approved \cup {new} /\ new \notin Approved
      /\ new[2] = 1 \/ <<Len(rounds) + 1, new[2] - 1>> \in Approved
  BY <1>3, ApprovedIsPaid
<1> QED
  BY <1>4 DEF Protocol!Approve, Protocol!Round

\* The Controller is started with the latest approval, and the first time.
LEMMA CallStep == IInv /\ CallController => Protocol!Call
<1> SUFFICES ASSUME IInv, CallController PROVE Protocol!Call
  OBVIOUS
<1> DEFINE a == Attempt(pending)
<1>1. /\ ActivePending /\ IsPending(pending) /\ pending.stage = "controller_pending"
      /\ a \notin called
  BY DEF CallController, Advancing, Planning, CommittedPending, IInv, Shape, Placed, Fresh,
       ActivePending, CurrentRound
<1>2. /\ UNCHANGED <<rounds, pending>> /\ called' = called \cup {a} /\ calls' = calls + 1
  BY DEF CallController, durable
<1>3. /\ a = <<Len(rounds) + 1, pending.attempts>> /\ pending.attempts \in Nat \ {0}
      /\ Len(rounds) \in Nat /\ Active(rounds, pending)
      /\ \A n \in 1..Len(rounds) : rounds[n].round = n
  BY <1>1 DEF Attempt, ActivePending, CurrentRound, Active, IsPending, IInv, Shape
<1>4. a \in Approved
  BY <1>3, PaidIs, ApprovedIsPaid DEF Active
<1>5. <<Len(rounds) + 1, a[2] + 1>> \notin Approved
  BY <1>3, PaidIs, ApprovedIsPaid DEF Active
<1>6. Approved' = Approved
  BY <1>2, ApprovedIsPaid
<1>7. a[1] = Len(rounds) + 1
  BY <1>3
<1> HIDE DEF a
<1> QED
  BY <1>1, <1>2, <1>4, <1>5, <1>6, <1>7 DEF Protocol!Call, Protocol!Round

\* A round is committed below the limit, and after a call.
LEMMA CommitStep == IInv /\ Commit => Protocol!Commit
<1> SUFFICES ASSUME IInv, Commit PROVE Protocol!Commit
  OBVIOUS
<1> DEFINE r == rounds'[Len(rounds) + 1]
<1>1. /\ ActivePending /\ IsPending(pending) /\ Attempt(pending) \in called
      /\ Len(rounds) < MaxRounds /\ Len(rounds) \in Nat
  BY DEF Commit, IInv, Shape, Placed, Located, Working, ActivePending, CurrentRound
<1>2. /\ Len(rounds') = Len(rounds) + 1
      /\ \A n \in 1..Len(rounds) : rounds'[n] = rounds[n]
      /\ r.round = pending.round /\ r.attempts = pending.attempts
      /\ UNCHANGED <<pending, called, calls>>
  BY AppendIsLedger DEF Commit, IInv, Shape, history
<1>3. Approved' = Approved
  <2> HIDE DEF r
  <2>1. Active(rounds, pending) /\ ~ Active(rounds', pending) /\ pending.round = Len(rounds) + 1
    BY <1>1, <1>2 DEF Active, ActivePending, CurrentRound
  <2>2. \A n : n \in 1..Len(rounds') <=> n \in 1..Len(rounds) \/ n = Len(rounds) + 1
    BY <1>1, <1>2
  <2>3. /\ \A n \in 1..Len(rounds) : rounds[n].round = n
        /\ \A n \in 1..Len(rounds') : rounds'[n].round = n
    BY <1>2, <2>1, <2>2 DEF IInv, Shape, r
  <2>4. ASSUME NEW a PROVE a \in Paid(rounds', pending) <=> a \in Paid(rounds, pending)
    <3>1. (\E n \in 1..Len(rounds') : \E k \in 1..rounds'[n].attempts : a = <<n, k>>) <=>
              \/ \E n \in 1..Len(rounds) : \E k \in 1..rounds[n].attempts : a = <<n, k>>
              \/ \E k \in 1..pending.attempts : a = <<pending.round, k>>
      BY <1>2, <2>1, <2>2 DEF r
    <3>2. a \in Paid(rounds', pending) <=>
              \E n \in 1..Len(rounds') : \E k \in 1..rounds'[n].attempts : a = <<n, k>>
      BY <2>1, <2>3, PaidIs
    <3>3. a \in Paid(rounds, pending) <=>
              \/ \E n \in 1..Len(rounds) : \E k \in 1..rounds[n].attempts : a = <<n, k>>
              \/ \E k \in 1..pending.attempts : a = <<pending.round, k>>
      BY <2>1, <2>3, PaidIs
    <3> QED
      BY <3>1, <3>2, <3>3
  <2>5. Paid(rounds', pending') = Paid(rounds, pending)
    BY <1>2, <2>4
  <2> QED
    BY <2>5, ApprovedIsPaid
<1>4. Attempt(pending)[1] = Len(rounds) + 1
  BY <1>1 DEF Attempt, ActivePending, CurrentRound
<1> QED
  BY <1>1, <1>2, <1>3, <1>4 DEF Protocol!Commit, Protocol!Round

LEMMA InitRefines == Init => Protocol!Init
<1> SUFFICES ASSUME Init PROVE Protocol!Init
  OBVIOUS
<1>1. Len(rounds) = 0 /\ pending = NoPending /\ called = {} /\ calls = 0
  BY DEF Init
<1>2. Accounted = {}
  BY <1>1 DEF Accounted, ActivePending
<1>3. Approved = {}
  BY <1>2 DEF Approved
<1> QED
  BY <1>1, <1>3 DEF Protocol!Init

LEMMA StepRefines == IInv /\ IInv' /\ [Next]_vars => [Protocol!Next]_(Protocol!vars)
<1> SUFFICES ASSUME IInv, IInv', [Next]_vars, ~ UNCHANGED Protocol!vars PROVE Protocol!Next
  OBVIOUS
<1> USE DEF Goto, Exit, durable, locks, invocation, history, bounds
<1>1. CASE CallController
  BY <1>1, CallStep DEF Protocol!Next
<1>2. CASE Commit
  BY <1>2, CommitStep DEF Protocol!Next
<1>3. CASE StartPending
  <2>1. /\ IsPending(pending') /\ pending'.round = Len(rounds) + 1 /\ pending'.attempts = 1
        /\ ~ ActivePending /\ UNCHANGED <<rounds, called, calls>>
    BY <1>3 DEF StartPending, IsPending, PendingFields, CurrentRound, IInv, Shape, Stages,
         ActivePending
  <2> QED
    BY <2>1, ApproveStep DEF Protocol!Next
<1>4. CASE Retry
  <2>1. CASE ~ RetryAllowed
    BY <1>4, <2>1, StutterStep DEF Retry
  <2>2. CASE RetryAllowed
    <3>1. /\ ActivePending /\ pending.round = Len(rounds) + 1
          /\ pending' = [pending EXCEPT !.attempts = @ + 1, !.error = FALSE]
          /\ UNCHANGED <<rounds, called, calls>>
      BY <1>4, <2>2 DEF Retry, RetryAllowed, ActivePending, CurrentRound
    <3>2. IsPending(pending)
      BY <3>1 DEF IInv, Shape, ActivePending
    <3>3. pending = [f \in PendingFields |-> pending[f]] /\ pending.attempts \in Nat \ {0}
      BY <3>2 DEF IsPending
    <3>4. /\ pending'.stage = pending.stage /\ pending'.round = pending.round
          /\ pending'.attempts = pending.attempts + 1
          /\ pending' = [f \in PendingFields |-> pending'[f]]
      BY <3>1, <3>3 DEF PendingFields
    <3>5. IsPending(pending')
      BY <3>2, <3>3, <3>4 DEF IsPending
    <3> QED
      BY <3>1, <3>3, <3>4, <3>5, ApproveStep DEF Protocol!Next
  <2> QED
    BY <2>1, <2>2
<1>5. CASE AdoptControllerReceipt \/ CheckpointController \/ CheckpointEvidence
           \/ AdoptEvidenceReceipt \/ ControllerFails \/ AdapterFails \/ EvidenceWallLimit
           \/ ReserveEvidence \/ CountEvidence
  <2>1. ActivePending /\ IsPending(pending)
    BY <1>5 DEF AdoptControllerReceipt, CheckpointController, CheckpointEvidence,
         AdoptEvidenceReceipt, ControllerFails, AdapterFails, EvidenceWallLimit,
         ReserveEvidence, CountEvidence, NeedsAdapter, Advancing, Planning, CommittedPending,
         IInv, Shape, Placed, Located, Working, ActivePending, CurrentRound
  <2>2. /\ pending'.round = pending.round /\ pending'.attempts = pending.attempts
        /\ UNCHANGED <<rounds, called, calls>> /\ pending' # NoPending
    BY <1>5, <2>1 DEF AdoptControllerReceipt, CheckpointController, CheckpointEvidence,
         AdoptEvidenceReceipt, ControllerFails, AdapterFails, EvidenceWallLimit,
         ReserveEvidence, CountEvidence, IsPending, PendingFields, NoPending
  <2>3. IsPending(pending')
    BY <2>2 DEF IInv, Shape
  <2> QED
    BY <2>1, <2>2, <2>3, StutterStep
<1>6. CASE ClearCommitted \/ RemovePending
  BY <1>6, StutterStep DEF ClearCommitted, RemovePending, CommittedPending, ActivePending,
       CurrentRound, IInv, Shape, Located
<1>7. CASE Verify \/ FinishVerify \/ Stop \/ LeaveIndeterminate \/ ReachEvidence \/ ReachIngest
           \/ BeginIngest \/ IngestRecord \/ FinishIngest \/ Refresh \/ Crash
           \/ RemoveAbandonedLocks \/ OperatorBegins \/ OperatorGivesUp \/ OperatorDies
  BY <1>7, StutterStep DEF Verify, FinishVerify, Stop, LeaveIndeterminate, ReachEvidence,
       ReachIngest, BeginIngest, IngestRecord, FinishIngest, Refresh, Crash,
       RemoveAbandonedLocks, OperatorBegins, OperatorGivesUp, OperatorDies
<1>8. CASE \/ \E m \in Modes : Invoke(m)
           \/ \E c \in Candidate : ControllerReturns(c)
           \/ \E ev \in Evidence : AdapterReturns(ev)
           \/ \E r \in OperatorRecord : OperatorAppends(r)
  BY <1>8, StutterStep DEF Invoke, ControllerReturns, AdapterReturns, OperatorAppends
<1>9. CASE UNCHANGED vars
  BY <1>9, StutterStep DEF vars
<1> QED
  BY <1>1, <1>2, <1>3, <1>4, <1>5, <1>6, <1>7, <1>8, <1>9
     DEF Next, Driver, Planner, Controller, Adapter, Ingestion

LEMMA InductiveInvariant == Spec => []IInv
<1>1. Init => IInv
  BY InitInvariant
<1>2. IInv /\ [Next]_vars => IInv'
  BY StepInvariant
<1> QED
  BY <1>1, <1>2, PTL DEF Spec

\* The driver implements RoundProtocol: every Controller call was approved by a
\* durable checkpoint before it, no approval is spent twice by any sequence of
\* deaths, failures, retries and resumptions, and no round is committed without
\* a call or beyond the limit (_drive, retry_population_driver, advance_pending).
THEOREM DriverImplementsProtocol == Spec => ImplementsProtocol
<1>1. Init => Protocol!Init
  BY InitRefines
<1>2. IInv /\ IInv' /\ [Next]_vars => [Protocol!Next]_(Protocol!vars)
  BY StepRefines
<1> QED
  BY <1>1, <1>2, InductiveInvariant, PTL DEF Spec, ImplementsProtocol, Protocol!Spec

----------------------------------------------------------------------------
\* Whatever is on disk replays.  Slices of ledgers first.

LEMMA SliceIsLedger ==
    ASSUME NEW l, NEW a \in Int, NEW b \in Int
    PROVE  /\ IsLedger(SubSeq(l, a, b))
           /\ Len(SubSeq(l, a, b)) = IF a <= b THEN b - a + 1 ELSE 0
           /\ \A i \in 1..(b - a + 1) : SubSeq(l, a, b)[i] = l[a + i - 1]
<1> DEFINE S == {l[i] : i \in a..b}
           m == SubSeq(l, a, b)
<1>1. /\ m \in Seq(S)
      /\ Len(m) = IF a <= b THEN b - a + 1 ELSE 0
      /\ \A i \in 1..(b - a + 1) : m[i] = l[a + i - 1]
  BY SubSeqProperties
<1> HIDE DEF m, S
<1>2. IsLedger(m)
  <2>1. m \in [1..Len(m) -> S] /\ Len(m) \in Nat
    BY <1>1, LenProperties
  <2>2. m \in [1..Len(m) -> {m[i] : i \in DOMAIN m}]
    BY <2>1
  <2>3. m \in Seq({m[i] : i \in DOMAIN m})
    BY <2>1, <2>2, SeqDef
  <2> QED
    BY <2>3 DEF IsLedger
<1> QED
  BY <1>1, <1>2 DEF m

\* Ledgers that agree on a stretch have the same slice there.
LEMMA SameSlice ==
    ASSUME NEW l, NEW m, NEW a \in Int, NEW b \in Int, \A i \in a..b : m[i] = l[i]
    PROVE  SubSeq(m, a, b) = SubSeq(l, a, b)
<1> DEFINE S == {l[i] : i \in a..b}
<1>1. \A i \in a..b : l[i] \in S /\ m[i] \in S
  OBVIOUS
<1> HIDE DEF S
<1>2. /\ SubSeq(l, a, b) \in Seq(S) /\ SubSeq(m, a, b) \in Seq(S)
      /\ Len(SubSeq(l, a, b)) = IF a <= b THEN b - a + 1 ELSE 0
      /\ Len(SubSeq(m, a, b)) = IF a <= b THEN b - a + 1 ELSE 0
      /\ \A i \in 1..(b - a + 1) : SubSeq(l, a, b)[i] = l[a + i - 1]
      /\ \A i \in 1..(b - a + 1) : SubSeq(m, a, b)[i] = m[a + i - 1]
  BY <1>1, SubSeqProperties
<1>3. ASSUME NEW i \in 1..Len(SubSeq(l, a, b)) PROVE SubSeq(m, a, b)[i] = SubSeq(l, a, b)[i]
  <2>1. i \in 1..(b - a + 1) /\ a + i - 1 \in a..b
    BY <1>2
  <2> QED
    BY <1>2, <2>1
<1> QED
  BY <1>2, <1>3, SeqEqual

\* Two finite sequences of equal length and members are equal.
LEMMA SameLedger ==
    ASSUME NEW l, NEW m, IsLedger(l), IsLedger(m), Len(l) = Len(m),
           \A i \in 1..Len(l) : l[i] = m[i]
    PROVE  l = m
<1> DEFINE S == {l[i] : i \in DOMAIN l} \cup {m[i] : i \in DOMAIN m}
<1>1. l \in Seq(S) /\ m \in Seq(S)
  BY DEF IsLedger
<1> QED
  BY <1>1, SeqEqual

LEMMA JoinIsLedger ==
    ASSUME NEW l, NEW m, IsLedger(l), IsLedger(m)
    PROVE  /\ IsLedger(l \o m) /\ Len(l) \in Nat /\ Len(m) \in Nat
           /\ Len(l \o m) = Len(l) + Len(m)
           /\ \A i \in 1..Len(l) : (l \o m)[i] = l[i]
           /\ \A i \in 1..Len(m) : (l \o m)[Len(l) + i] = m[i]
<1> DEFINE S == {l[i] : i \in DOMAIN l} \cup {m[i] : i \in DOMAIN m}
           j == l \o m
<1>1. l \in Seq(S) /\ m \in Seq(S)
  BY DEF IsLedger
<1>2. /\ j \in Seq(S) /\ Len(j) = Len(l) + Len(m) /\ Len(l) \in Nat /\ Len(m) \in Nat
      /\ \A i \in 1..Len(l) + Len(m) : j[i] = IF i <= Len(l) THEN l[i] ELSE m[i - Len(l)]
  BY <1>1, ConcatProperties, LenProperties
<1> HIDE DEF j, S
<1>3. IsLedger(j)
  <2>1. j \in [1..Len(j) -> S] /\ Len(j) \in Nat
    BY <1>2, LenProperties
  <2>2. j \in [1..Len(j) -> {j[i] : i \in DOMAIN j}]
    BY <2>1
  <2>3. j \in Seq({j[i] : i \in DOMAIN j})
    BY <2>1, <2>2, SeqDef
  <2> QED
    BY <2>3 DEF IsLedger
<1>4. \A i \in 1..Len(l) : j[i] = l[i]
  BY <1>2
<1>5. ASSUME NEW i \in 1..Len(m) PROVE j[Len(l) + i] = m[i]
  <2>1. Len(l) + i \in 1..Len(l) + Len(m) /\ ~ (Len(l) + i <= Len(l)) /\ (Len(l) + i) - Len(l) = i
    BY <1>2
  <2> QED
    BY <1>2, <2>1
<1> QED
  BY <1>2, <1>3, <1>4, <1>5 DEF j

LEMMA ShortLedgers ==
    /\ \A r : IsLedger(<<r>>) /\ Len(<<r>>) = 1 /\ <<r>>[1] = r
    /\ \A r, s : IsLedger(<<r, s>>) /\ Len(<<r, s>>) = 2 /\ <<r, s>>[1] = r /\ <<r, s>>[2] = s
<1>1. ASSUME NEW r PROVE IsLedger(<<r>>)
  <2>1. <<r>> \in Seq({r}) /\ {<<r>>[i] : i \in DOMAIN <<r>>} = {r}
    OBVIOUS
  <2> QED
    BY <2>1 DEF IsLedger
<1>2. ASSUME NEW r, NEW s PROVE IsLedger(<<r, s>>)
  <2>1. <<r, s>> \in Seq({r, s}) /\ {<<r, s>>[i] : i \in DOMAIN <<r, s>>} = {r, s}
    OBVIOUS
  <2> QED
    BY <2>1 DEF IsLedger
<1> QED
  BY <1>1, <1>2

\* Sets of equal size, by a one-to-one function onto.
LEMMA SameSize ==
    ASSUME NEW S, NEW T, IsFiniteSet(S), NEW f \in [S -> T],
           \A x, y \in S : f[x] = f[y] => x = y,
           \A z \in T : \E x \in S : f[x] = z
    PROVE  IsFiniteSet(T) /\ Cardinality(T) = Cardinality(S)
<1>1. f \in Bijection(S, T)
  BY DEF Bijection, Injection, Surjection, IsInjective
<1> QED
  BY <1>1, FS_Bijection DEF ExistsBijection

\* The k-th smallest member of a finite set of naturals is a member: the
\* numbers of smaller members are all the numbers below the set's size.
LEMMA OrderedIsMember ==
    ASSUME NEW S \in SUBSET Nat, IsFiniteSet(S), NEW k \in 0..(Cardinality(S) - 1)
    PROVE  Ordered(S, k) \in S /\ Cardinality({d \in S : d < Ordered(S, k)}) = k
<1> DEFINE n == Cardinality(S)
           Below(c) == {d \in S : d < c}
           f == [c \in S |-> Cardinality(Below(c))]
           T == {f[c] : c \in S}
<1>1. n \in Nat
  BY FS_CardinalityType
<1>2. ASSUME NEW c \in S
      PROVE  IsFiniteSet(Below(c)) /\ Cardinality(Below(c)) \in 0..(n - 1)
  <2>1. Below(c) \in SUBSET S /\ c \notin Below(c)
    OBVIOUS
  <2> HIDE DEF Below
  <2>2. /\ IsFiniteSet(Below(c)) /\ Cardinality(Below(c)) <= n
        /\ n = Cardinality(Below(c)) => S = Below(c)
    BY <2>1, FS_Subset
  <2>3. Cardinality(Below(c)) \in Nat
    BY <2>2, FS_CardinalityType
  <2> QED
    BY <1>1, <2>1, <2>2, <2>3
<1>3. ASSUME NEW c \in S, NEW d \in S, c < d PROVE f[c] # f[d]
  <2>0. \A x \in S : x \in Int
    OBVIOUS
  <2>1. Below(c) \in SUBSET Below(d) /\ c \in Below(d) /\ c \notin Below(c)
    <3>1. \A x \in Below(c) : x \in Below(d)
      BY <1>3, <2>0
    <3>2. c \in Below(d) /\ c \notin Below(c)
      BY <1>3, <2>0
    <3> QED
      BY <3>1, <3>2
  <2>2. IsFiniteSet(Below(d))
    BY <1>2
  <2> HIDE DEF Below
  <2>3. Cardinality(Below(d)) = Cardinality(Below(c)) => Below(d) = Below(c)
    BY <2>1, <2>2, FS_Subset
  <2> QED
    BY <2>1, <2>3
<1>4. \A c, d \in S : f[c] = f[d] => c = d
  BY <1>3
<1>5. f \in [S -> T] /\ \A z \in T : \E c \in S : f[c] = z
  OBVIOUS
<1>6. T \in SUBSET (0..(n - 1))
  BY <1>2
<1> HIDE DEF T, f
<1>7. IsFiniteSet(T) /\ Cardinality(T) = n
  BY <1>4, <1>5, SameSize
<1>8. IsFiniteSet(0..(n - 1)) /\ Cardinality(0..(n - 1)) = n
  <2> HIDE DEF n
  <2>1. IsFiniteSet(0..(n - 1)) /\ Cardinality(0..(n - 1)) = IF 0 > n - 1 THEN 0 ELSE n - 1 - 0 + 1
    BY <1>1, FS_Interval
  <2> QED
    BY <1>1, <2>1
<1>9. T = 0..(n - 1)
  BY <1>6, <1>7, <1>8, FS_Subset
<1>10. \E c \in S : Cardinality(Below(c)) = k
  BY <1>5, <1>9 DEF f
<1> QED
  BY <1>10 DEF Ordered

\* The weighted draw falls on a member.
LEMMA DrawFalls ==
    ASSUME NEW num \in Int, NEW den \in Nat, NEW m \in Nat \ {0},
           den > 0, num \in 0..(den - 1)
    PROVE  (num * m) \div den \in 0..(m - 1)
<1> DEFINE q == (num * m) \div den
           x == num * m
<1>1. x \in Nat /\ x < den * m
  OBVIOUS
<1>2. q \in Int /\ den * q <= x /\ x < den * q + den
  OBVIOUS
<1> HIDE DEF q, x
<1>3. q < m
  <2> SUFFICES ASSUME q >= m PROVE FALSE
    BY <1>2
  <2>1. den * q >= den * m
    BY <1>2
  <2> QED
    BY <1>1, <1>2, <2>1
<1>4. q >= 0
  <2> SUFFICES ASSUME q <= -1 PROVE FALSE
    BY <1>2
  <2>1. den * q <= -den
    BY <1>2
  <2> QED
    BY <1>1, <1>2, <2>1
<1> QED
  BY <1>2, <1>3, <1>4 DEF q, x

\* The members of an archive are those its aggregates select.
MembersFor(agg) == Selected(ViableScores(agg))

\* An archive record is of its kind, and has those members.
LEMMA ArchiveMembers ==
    ASSUME NEW l, NEW e
    PROVE  /\ ArchiveBody(l, e).kind = "archive"
           /\ DOMAIN ArchiveBody(l, e).members = MembersFor(Aggregates(l, e))
<1> DEFINE agg == Aggregates(l, e)
           scores == ViableScores(agg)
           Then(g, s) == ArchiveOf(l, e, g, s, Selected(s))
           Given(g) == CHOOSE y \in {Then(g, s) : s \in {ViableScores(g)}} : TRUE
<1>1. ArchiveBody(l, e) = CHOOSE y \in {Given(g) : g \in {agg}} : TRUE
  BY DEF ArchiveBody, With
<1> HIDE DEF agg
<1>2. Given(agg) = Then(agg, scores)
  <2> HIDE DEF Then
  <2> QED
    OBVIOUS
<1>3. ArchiveBody(l, e) = Given(agg)
  <2> HIDE DEF Given
  <2> QED
    BY <1>1
<1>4. ArchiveBody(l, e) = ArchiveOf(l, e, agg, scores, Selected(scores))
  BY <1>2, <1>3
<1> HIDE DEF scores, Given, Then
<1>5. /\ ArchiveBody(l, e).kind = "archive"
      /\ DOMAIN ArchiveBody(l, e).members = Selected(scores)
  BY <1>4 DEF ArchiveOf
<1> QED
  BY <1>5 DEF MembersFor, scores, agg

\* Only evaluated candidates become members.
LEMMA MembersAreEvaluated ==
    ASSUME NEW l, NEW e
    PROVE  MembersFor(Aggregates(l, e)) \subseteq Evaluated(l, e)
<1> DEFINE agg == Aggregates(l, e)
           scores == ViableScores(agg)
<1>1. DOMAIN agg = Evaluated(l, e)
  BY DEF Aggregates
<1> HIDE DEF agg
<1>2. DOMAIN scores = Viable(agg)
  BY DEF ViableScores
<1>3. Viable(agg) \subseteq DOMAIN agg
  BY DEF Viable
<1> HIDE DEF scores
<1>4. Frontier(scores) \subseteq DOMAIN scores
  BY DEF Frontier
<1>5. Selected(scores) \subseteq Frontier(scores)
  BY DEF Selected, With
<1> QED
  BY <1>1, <1>2, <1>3, <1>4, <1>5 DEF MembersFor, scores, agg

\* A record that names its candidate or its draw names the round's.
OfRound(r, n, child) ==
    /\ r.kind = "candidate" => r.cand = child
    /\ r.kind = "allocation" => n \in 1..Len(Draws) /\ r.draw = Draws[n]

\* What a round may append.
LEMMA RoundAppends ==
    ASSUME NEW l, IsLedger(l), NEW n \in Nat \ {0}, NEW parent, NEW child, NEW ev
    PROVE  /\ IsLedger(RoundRecords(l, n, parent, child, ev))
           /\ Len(RoundRecords(l, n, parent, child, ev)) \in Nat
           /\ \A i \in 1..Len(RoundRecords(l, n, parent, child, ev)) :
                 OfRound(RoundRecords(l, n, parent, child, ev)[i], n, child)
<1> DEFINE Registration ==
               IF child \in Candidates(l) THEN << >>
               ELSE <<[kind |-> "candidate", cand |-> child, parents |-> {parent},
                       variation |-> "mutation", loci |-> << >>, choice |-> n]>>
           Runs == <<RunRecord(n, "incumbent", parent, ev[1]),
                     RunRecord(n, "challenger", child, ev[2])>>
           Continues(archive) ==
               DOMAIN archive.members # {} /\ n < MaxRounds /\ ~ GoalReached(archive)
           Closed(a) ==
               IF Continues(a[Len(a)])
                 THEN Append(a, AllocationBody(a, Len(a), Draws[n])) ELSE a
           Archived(e) == Append(e, ArchiveBody(e, Development))
           base == l \o Registration \o Runs
           archived == Archived(base)
           closed == Closed(archived)
           \* Every record behind the ledger is one of the round's.
           Grown(m) ==
               /\ IsLedger(m) /\ Len(m) \in Nat /\ Len(m) >= Len(l)
               /\ \A i \in (Len(l) + 1)..Len(m) : OfRound(m[i], n, child)
<1>1. RoundRecords(l, n, parent, child, ev) = Suffix(closed, Len(l))
  <2> DEFINE Op(x) == Suffix(x, Len(l))
             first == CHOOSE y \in {Archived(x) : x \in {base}} : TRUE
             second == CHOOSE y \in {Closed(x) : x \in {first}} : TRUE
  <2>1. RoundRecords(l, n, parent, child, ev) = CHOOSE y \in {Op(x) : x \in {second}} : TRUE
    BY DEF RoundRecords, With
  <2>2. first = Archived(base)
    <3> HIDE DEF Archived, base
    <3> QED
      OBVIOUS
  <2>3. second = Closed(first)
    <3> HIDE DEF first, Closed
    <3> QED
      OBVIOUS
  <2>4. (CHOOSE y \in {Op(x) : x \in {second}} : TRUE) = Op(second)
    <3> HIDE DEF second, Op
    <3> QED
      OBVIOUS
  <2> HIDE DEF first, second, Closed, Archived, base
  <2> QED
    BY <2>1, <2>2, <2>3, <2>4 DEF archived, closed, first, second
<1>2. Len(l) \in Nat /\ Grown(l)
  BY DEF IsLedger
<1>3. Grown(base)
  <2>1. /\ IsLedger(Registration) /\ Len(Registration) \in Nat
        /\ \A i \in 1..Len(Registration) : OfRound(Registration[i], n, child)
    <3>1. CASE child \in Candidates(l)
      BY <3>1, EmptyIsLedger
    <3>2. CASE child \notin Candidates(l)
      BY <3>2, ShortLedgers DEF OfRound
    <3> QED
      BY <3>1, <3>2
  <2>2. /\ IsLedger(Runs) /\ Len(Runs) = 2
        /\ \A i \in 1..Len(Runs) : OfRound(Runs[i], n, child)
    BY ShortLedgers DEF OfRound, RunRecord
  <2> HIDE DEF Registration, Runs
  <2> DEFINE first == l \o Registration
  <2>3. /\ IsLedger(first) /\ Len(first) = Len(l) + Len(Registration)
        /\ \A i \in 1..Len(Registration) : first[Len(l) + i] = Registration[i]
    BY <2>1, JoinIsLedger
  <2> HIDE DEF first
  <2>4. /\ IsLedger(first \o Runs) /\ Len(first \o Runs) = Len(first) + 2
        /\ \A i \in 1..Len(first) : (first \o Runs)[i] = first[i]
        /\ \A i \in 1..2 : (first \o Runs)[Len(first) + i] = Runs[i]
    <3>1. /\ IsLedger(first \o Runs) /\ Len(first \o Runs) = Len(first) + Len(Runs)
          /\ \A i \in 1..Len(first) : (first \o Runs)[i] = first[i]
          /\ \A i \in 1..Len(Runs) : (first \o Runs)[Len(first) + i] = Runs[i]
      <4>1. IsLedger(first) /\ IsLedger(Runs)
        BY <2>2, <2>3
      <4> QED
        BY <4>1, JoinIsLedger
    <3> QED
      BY <2>2, <3>1
  <2>5. ASSUME NEW i \in (Len(l) + 1)..Len(first \o Runs)
        PROVE  OfRound((first \o Runs)[i], n, child)
    <3>1. CASE i <= Len(first)
      <4>1. i - Len(l) \in 1..Len(Registration) /\ i = Len(l) + (i - Len(l)) /\ i \in 1..Len(first)
        BY <1>2, <2>1, <2>3, <3>1
      <4> QED
        BY <2>1, <2>3, <2>4, <4>1
    <3>2. CASE i > Len(first)
      <4>1. i - Len(first) \in 1..2 /\ i = Len(first) + (i - Len(first))
        BY <1>2, <2>1, <2>3, <2>4, <3>2
      <4> QED
        BY <2>2, <2>4, <4>1
    <3> QED
      BY <1>2, <2>1, <2>3, <2>4, <3>1, <3>2
  <2>6. base = first \o Runs
    BY DEF first, base
  <2> QED
    BY <1>2, <2>1, <2>3, <2>4, <2>5, <2>6
<1> HIDE DEF base
<1>4. ASSUME NEW m, Grown(m), NEW r, OfRound(r, n, child) PROVE Grown(Append(m, r))
  <2>1. /\ IsLedger(Append(m, r)) /\ Len(Append(m, r)) = Len(m) + 1
        /\ Append(m, r)[Len(m) + 1] = r
        /\ \A i \in 1..Len(m) : Append(m, r)[i] = m[i]
    BY <1>4, AppendIsLedger
  <2>2. ASSUME NEW i \in (Len(l) + 1)..(Len(m) + 1) PROVE OfRound(Append(m, r)[i], n, child)
    <3>1. i = Len(m) + 1 \/ (i \in 1..Len(m) /\ i \in (Len(l) + 1)..Len(m))
      BY <1>2, <1>4
    <3> QED
      BY <1>4, <2>1, <3>1
  <2> QED
    BY <1>2, <1>4, <2>1, <2>2
<1>5. Grown(archived)
  <2>1. OfRound(ArchiveBody(base, Development), n, child)
    BY ArchiveMembers DEF OfRound
  <2> HIDE DEF Grown
  <2> QED
    BY <1>3, <1>4, <2>1
<1> HIDE DEF archived
<1>6. Grown(closed)
  <2> DEFINE r == AllocationBody(archived, Len(archived), Draws[n])
  <2>1. CASE Continues(archived[Len(archived)])
    <3>1. n \in 1..Len(Draws)
      BY <2>1, LimitsAssumption
    <3>2. r.kind = "allocation" /\ r.draw = Draws[n]
      BY DEF AllocationBody
    <3>3. OfRound(r, n, child)
      BY <3>1, <3>2 DEF OfRound
    <3>4. closed = Append(archived, r)
      BY <2>1
    <3> HIDE DEF Grown, r
    <3> QED
      BY <1>4, <1>5, <3>3, <3>4
  <2>2. CASE ~ Continues(archived[Len(archived)])
    BY <1>5, <2>2
  <2> QED
    BY <2>1, <2>2
<1> HIDE DEF closed
<1>7. Suffix(closed, Len(l)) = SubSeq(closed, Len(l) + 1, Len(closed))
  BY DEF Suffix
<1>8. /\ IsLedger(Suffix(closed, Len(l)))
      /\ Len(Suffix(closed, Len(l))) = Len(closed) - Len(l)
      /\ \A i \in 1..(Len(closed) - Len(l)) : Suffix(closed, Len(l))[i] = closed[Len(l) + i]
  <2>1. /\ Len(l) + 1 \in Int /\ Len(closed) \in Int /\ Len(closed) >= Len(l)
        /\ Len(closed) - (Len(l) + 1) + 1 = Len(closed) - Len(l)
        /\ \A i \in Int : (Len(l) + 1) + i - 1 = Len(l) + i
    BY <1>2, <1>6
  <2>2. /\ IsLedger(SubSeq(closed, Len(l) + 1, Len(closed)))
        /\ Len(SubSeq(closed, Len(l) + 1, Len(closed))) = Len(closed) - Len(l)
        /\ \A i \in 1..(Len(closed) - (Len(l) + 1) + 1) :
              SubSeq(closed, Len(l) + 1, Len(closed))[i] = closed[(Len(l) + 1) + i - 1]
    BY <1>2, <2>1, SliceIsLedger
  <2> QED
    BY <1>2, <1>7, <2>1, <2>2
<1>9. ASSUME NEW i \in 1..(Len(closed) - Len(l)) PROVE OfRound(closed[Len(l) + i], n, child)
  <2>1. Len(l) + i \in (Len(l) + 1)..Len(closed)
    BY <1>2, <1>6
  <2> QED
    BY <1>6, <2>1
<1>10. Len(closed) - Len(l) \in Nat
  BY <1>2, <1>6
<1> QED
  BY <1>1, <1>8, <1>9, <1>10

\* What stands in a ledger refers to candidates that stand in it.
Grounded(l) ==
    /\ IsLedger(l)
    /\ l # << >> => Seed \in Candidates(l)
    /\ \A i \in Indices(l, "candidate") : l[i].cand \in Candidate
    /\ \A i \in Indices(l, "run") : l[i].cand \in Candidates(l)
    /\ \A i \in Indices(l, "archive") :
          /\ DOMAIN l[i].members \in SUBSET Candidates(l)
          /\ IsFiniteSet(DOMAIN l[i].members)
    /\ \A i \in Indices(l, "allocation") : l[i].selected \in Candidates(l)

\* The ledger m begins with the ledger l.
Extends(m, l) ==
    /\ IsLedger(m) /\ Len(m) >= Len(l)
    /\ \A i \in 1..Len(l) : m[i] = l[i]

\* Registered candidates stay registered.
LEMMA CandidatesStay ==
    ASSUME NEW l, IsLedger(l), NEW m, Extends(m, l)
    PROVE  Candidates(l) \subseteq Candidates(m)
<1>1. Len(l) \in Nat /\ Len(m) \in Nat /\ DOMAIN l = 1..Len(l) /\ DOMAIN m = 1..Len(m)
  BY DEF IsLedger, Extends
<1>2. \A i \in Indices(l, "candidate") : i \in Indices(m, "candidate") /\ m[i] = l[i]
  BY <1>1 DEF Extends, Indices
<1> QED
  BY <1>2 DEF Candidates, Records

\* An archive of a ledger has finitely many members, evaluated ones.
LEMMA ArchiveIsGrounded ==
    ASSUME NEW l, Grounded(l), NEW e
    PROVE  /\ DOMAIN ArchiveBody(l, e).members \in SUBSET Candidates(l)
           /\ IsFiniteSet(DOMAIN ArchiveBody(l, e).members)
<1> DEFINE I == {j \in Indices(l, "run") : l[j].exp = e}
           E == Evaluated(l, e)
           f == [j \in I |-> l[j].cand]
<1>1. Len(l) \in Nat /\ DOMAIN l = 1..Len(l)
  BY DEF Grounded, IsLedger
<1>2. E = {l[j].cand : j \in I}
  BY DEF Evaluated, Records
<1>3. E \in SUBSET Candidates(l)
  BY <1>2 DEF Grounded
<1>4. IsFiniteSet(I)
  <2>1. IsFiniteSet(1..Len(l))
    BY <1>1, FS_Interval
  <2>2. I \in SUBSET (1..Len(l))
    BY <1>1 DEF Indices
  <2> QED
    BY <2>1, <2>2, FS_Subset
<1>5. f \in Surjection(I, E)
  <2>1. f \in [I -> E] /\ \A z \in E : \E j \in I : f[j] = z
    BY <1>2
  <2> HIDE DEF f, I, E
  <2> QED
    BY <2>1 DEF Surjection
<1> HIDE DEF f, I
<1>6. IsFiniteSet(E)
  BY <1>4, <1>5, FS_Surjection
<1> HIDE DEF E
<1> DEFINE M == DOMAIN ArchiveBody(l, e).members
<1>7. M \in SUBSET E
  <2>1. M = MembersFor(Aggregates(l, e)) /\ MembersFor(Aggregates(l, e)) \subseteq Evaluated(l, e)
    BY ArchiveMembers, MembersAreEvaluated
  <2> HIDE DEF M
  <2> QED
    BY <2>1 DEF E
<1> HIDE DEF M
<1>8. IsFiniteSet(M)
  BY <1>6, <1>7, FS_Subset
<1> QED
  BY <1>3, <1>7, <1>8 DEF M

\* An allocation the rules accept selects a member of its archive.
LEMMA AllocationIsGrounded ==
    ASSUME NEW l, Grounded(l), NEW a, NEW draw, draw.denominator \in Nat,
           AllocationPossible(l, a, draw)
    PROVE  AllocationBody(l, a, draw).selected \in Candidates(l)
<1> DEFINE members == DOMAIN l[a].members
           num == draw.numerator
           den == draw.denominator
           n == Cardinality(members)
           k == (num * n) \div den
<1>1. /\ members \in SUBSET Candidates(l) /\ IsFiniteSet(members) /\ members # {}
      /\ den > 0 /\ num \in 0..(den - 1) /\ den \in Nat
  BY DEF AllocationPossible, DrawValid, Grounded
<1>2. Candidates(l) \in SUBSET Nat
  BY CandidateAssumption DEF Candidates, Records, Grounded
<1>3. AllocationBody(l, a, draw).selected = Ordered(members, k)
  BY DEF AllocationBody
<1> HIDE DEF members
<1>4. n \in Nat \ {0}
  BY <1>1, FS_CardinalityType, FS_EmptySet
<1>5. k \in 0..(n - 1)
  <2> HIDE DEF n, num, den
  <2> QED
    BY <1>1, <1>4, DrawFalls
<1>6. Ordered(members, k) \in members
  <2> HIDE DEF k
  <2> QED
    BY <1>1, <1>2, <1>5, OrderedIsMember
<1> QED
  BY <1>1, <1>3, <1>6

\* Under the record rules a grounded ledger stays grounded.
LEMMA GroundedGrows ==
    ASSUME NEW l, Grounded(l), l # << >>, NEW r, RecordValid(l, r),
           r.kind = "candidate" => r.cand \in Candidate,
           r.kind = "allocation" => r.draw.denominator \in Nat
    PROVE  Grounded(Append(l, r)) /\ Extends(Append(l, r), l)
<1> DEFINE m == Append(l, r)
<1>1. /\ IsLedger(m) /\ Len(m) = Len(l) + 1 /\ m[Len(l) + 1] = r /\ Len(l) \in Nat
      /\ \A i \in 1..Len(l) : m[i] = l[i]
  BY AppendIsLedger DEF Grounded
<1>2. Extends(m, l)
  BY <1>1 DEF Extends
<1>3. Candidates(l) \subseteq Candidates(m)
  BY <1>2, CandidatesStay DEF Grounded
<1>4. DOMAIN l = 1..Len(l) /\ DOMAIN m = 1..(Len(l) + 1)
  BY <1>1 DEF Grounded, IsLedger
<1> HIDE DEF m
<1>5. ASSUME NEW kind, NEW i \in Indices(m, kind)
      PROVE  \/ i \in Indices(l, kind) /\ m[i] = l[i]
             \/ m[i] = r /\ r.kind = kind
  <2>1. i \in 1..Len(l) \/ i = Len(l) + 1
    BY <1>1, <1>4 DEF Indices
  <2> QED
    BY <1>1, <1>4, <2>1 DEF Indices
<1>6. m # << >>
  BY <1>4, <1>1
<1>7. \A i \in Indices(m, "candidate") : m[i].cand \in Candidate
  BY <1>5 DEF Grounded
<1>8. \A i \in Indices(m, "run") : m[i].cand \in Candidates(m)
  <2>1. r.kind = "run" => r.cand \in Candidates(l)
    BY DEF RecordValid, BodyValid, RunBodyValid
  <2> QED
    BY <1>3, <1>5, <2>1 DEF Grounded
<1>9. ASSUME NEW i \in Indices(m, "archive")
      PROVE  DOMAIN m[i].members \in SUBSET Candidates(m) /\ IsFiniteSet(DOMAIN m[i].members)
  <2>1. CASE i \in Indices(l, "archive") /\ m[i] = l[i]
    BY <1>3, <2>1 DEF Grounded
  <2>2. CASE m[i] = r /\ r.kind = "archive"
    <3>1. r = ArchiveBody(l, r.exp)
      BY <2>2 DEF RecordValid, BodyValid
    <3>2. DOMAIN r.members \in SUBSET Candidates(l) /\ IsFiniteSet(DOMAIN r.members)
      BY <3>1, ArchiveIsGrounded
    <3> QED
      BY <1>3, <2>2, <3>2
  <2> QED
    BY <1>5, <2>1, <2>2
<1>10. ASSUME NEW i \in Indices(m, "allocation") PROVE m[i].selected \in Candidates(m)
  <2>1. CASE i \in Indices(l, "allocation") /\ m[i] = l[i]
    BY <1>3, <2>1 DEF Grounded
  <2>2. CASE m[i] = r /\ r.kind = "allocation"
    <3>1. AllocationPossible(l, r.archive, r.draw) /\ r = AllocationBody(l, r.archive, r.draw)
      BY <2>2 DEF RecordValid, BodyValid
    <3>2. r.selected \in Candidates(l)
      BY <2>2, <3>1, AllocationIsGrounded
    <3> QED
      BY <1>3, <2>2, <3>2
  <2> QED
    BY <1>5, <2>1, <2>2
<1>11. Seed \in Candidates(m)
  BY <1>3 DEF Grounded
<1>12. Grounded(m)
  BY <1>1, <1>7, <1>8, <1>9, <1>10, <1>11 DEF Grounded
<1> QED
  BY <1>2, <1>12 DEF m

\* A new state directory.
LEMMA FirstLedger == Grounded(InitialLedger) /\ Len(InitialLedger) = 3 /\ InitialLedger # << >>
<1> DEFINE c == [kind |-> "candidate", cand |-> Seed, parents |-> {}, variation |-> "seed",
                 loci |-> << >>, choice |-> 0]
           x == [kind |-> "experiment", exp |-> Development]
           l == <<Header, c, x>>
<1>1. InitialLedger = l
  BY DEF InitialLedger
<1>2. c.kind = "candidate" /\ c.cand = Seed /\ x.kind = "experiment" /\ Header.kind = "population"
  BY DEF Header
<1> HIDE DEF c, x
<1>3. /\ Len(l) = 3 /\ DOMAIN l = 1..3 /\ l # << >>
      /\ l[1] = Header /\ l[2] = c /\ l[3] = x
      /\ l \in Seq({Header, c, x})
  OBVIOUS
<1>4. {l[i] : i \in DOMAIN l} = {Header, c, x}
  <2> HIDE DEF l
  <2>1. DOMAIN l = {1, 2, 3}
    BY <1>3
  <2> QED
    BY <1>3, <2>1
<1>5. IsLedger(l)
  BY <1>3, <1>4 DEF IsLedger
<1> HIDE DEF l
<1>6. \A i \in DOMAIN l : i = 1 \/ i = 2 \/ i = 3
  BY <1>3
<1>7. Indices(l, "candidate") = {2}
  BY <1>2, <1>3, <1>6 DEF Indices
<1>8. Indices(l, "run") = {} /\ Indices(l, "archive") = {} /\ Indices(l, "allocation") = {}
  BY <1>2, <1>3, <1>6 DEF Indices
<1>9. Candidates(l) = {Seed}
  BY <1>2, <1>3, <1>7 DEF Candidates, Records
<1>10. Grounded(l)
  BY <1>2, <1>3, <1>5, <1>7, <1>8, <1>9, ValuesAssumption DEF Grounded
<1> QED
  BY <1>1, <1>3, <1>10

----------------------------------------------------------------------------
\* The committed rounds replay, and end in the ledger.
Replayed ==
    /\ \A n \in 1..Len(rounds) : rounds[n].head \in Nat /\ rounds[n].head >= Len(InitialLedger)
    /\ RoundsReplay

\* Receipts are of calls made, and of candidates.
Received ==
    /\ DOMAIN receipts.evidence \subseteq called
    /\ \A a \in DOMAIN receipts.controller : Child(a) \in Candidate

\* What the checkpoint of a round says the round starts from.
Anchored ==
    /\ pending.parent = ExpectedParent(pending.round)
    /\ pending.allocation = ExpectedAllocation(pending.round)
    /\ pending.start = ExpectedStart(pending.round) /\ pending.start <= Len(ledger)
    /\ pending.parent \in Candidates(ledger)

\* One reservation for each adapter call, and one before the first.
Reserved == pending.evidenceWall = Max({1, pending.evidenceAttempts}) * EvidenceTimeout

\* A stage is reached behind the receipts it needs.
Receipted ==
    /\ pending.evidenceAttempts \in Nat
    /\ pending.stage # "controller_pending" => Attempt(pending) \in DOMAIN receipts.controller
    /\ Attempt(pending) \in DOMAIN receipts.evidence => pending.evidenceAttempts >= 1
    /\ pending.stage = "evidence_complete" =>
          Attempt(pending) \in DOMAIN receipts.evidence /\ Reserved

\* Behind the checkpoint's ledger stands nothing but the round's own records.
Untouched ==
    Undisturbed =>
        IF pending.stage = "evidence_complete" THEN OwnsTail(pending, ledger)
        ELSE Len(ledger) = pending.start

Checkpointed == ActivePending => Anchored /\ Receipted /\ Untouched

\* What the invocation may rely on at each point.
Planned ==
    /\ seen \in Nat /\ seen <= Len(ledger)
    /\ Undisturbed => seen = Len(ledger)
    /\ ActivePending => Reserved
Counting ==
    /\ pending.evidenceAttempts >= 1
    /\ pending.evidenceWall = (pending.evidenceAttempts + 1) * EvidenceTimeout
InTheLedger ==
    /\ pending.start + Len(RecordsOf(pending, ledger)) <= Len(ledger)
    /\ SubSeq(ledger, pending.start + 1, pending.start + Len(RecordsOf(pending, ledger)))
           = RecordsOf(pending, ledger)
Knows ==
    /\ pc = "planning" => Planned
    /\ pc \in Working => IF pc = "counting" THEN Counting ELSE Reserved
    /\ pc \in {"controller", "controller_receipt"} => pending.stage = "controller_pending"
    /\ pc \in {"evidence", "counting", "adapter", "evidence_receipt"} =>
          pending.stage = "controller_complete"
    /\ pc = "controller_receipt" => Attempt(pending) \in DOMAIN receipts.controller
    /\ pc \in {"adapter", "evidence_receipt"} => pending.evidenceAttempts >= 1
    /\ pc = "evidence_receipt" => Attempt(pending) \in DOMAIN receipts.evidence
    /\ pc = "ingesting" => popLock = "driver" /\ OwnsTail(pending, ledger)
    /\ pc = "commit" => InTheLedger

\* An operator who holds the Population lock was counted, and found a ledger.
OperatorCounted ==
    /\ appends \in Nat
    /\ popLock = "operator" => appends # 0 /\ ledger # << >>

RInv ==
    /\ Grounded(ledger) /\ Replayed /\ Received /\ Checkpointed /\ Knows /\ OperatorCounted

\* The cursor of the replay points into the ledger.
LEMMA CursorIs ==
    ASSUME Shape, Grounded(ledger), Replayed, NEW n \in 1..(Len(rounds) + 1)
    PROVE  /\ ExpectedStart(n) \in Nat /\ ExpectedStart(n) >= 3
           /\ n # 1 => n - 1 \in 1..Len(rounds) /\ ExpectedStart(n) <= Len(ledger)
           /\ ExpectedAllocation(n) # NoRecord =>
                 n # 1 /\ ExpectedAllocation(n) \in 1..Len(ledger)
           /\ (IF n = 1 THEN ledger # << >> ELSE ExpectedAllocation(n) # NoRecord)
                 => ExpectedParent(n) \in Candidates(ledger)
<1>1. CASE n = 1
  BY <1>1, FirstLedger DEF ExpectedStart, ExpectedAllocation, ExpectedParent, Grounded, NoRecord
<1>2. CASE n # 1
  <2> DEFINE r == rounds[n - 1]
  <2>1. n - 1 \in 1..Len(rounds)
    BY <1>2 DEF Shape
  <2>2. /\ r.head \in Nat /\ r.head >= 3 /\ r.head <= Len(ledger)
        /\ r.allocation = IF ledger[r.head].kind = "allocation" THEN r.head ELSE NoRecord
    BY <2>1, FirstLedger DEF Replayed, RoundsReplay, RoundReplays, OneExactSuffix
  <2>3. /\ ExpectedStart(n) = r.head /\ ExpectedAllocation(n) = r.allocation
        /\ r.allocation # NoRecord => ExpectedParent(n) = ledger[r.allocation].selected
    BY <1>2 DEF ExpectedStart, ExpectedAllocation, ExpectedParent
  <2>4. r.head \in 1..Len(ledger) /\ DOMAIN ledger = 1..Len(ledger)
    BY <2>2 DEF Grounded, IsLedger
  <2>5. r.allocation # NoRecord => r.allocation \in Indices(ledger, "allocation")
    BY <2>2, <2>4 DEF Indices
  <2> HIDE DEF r
  <2> QED
    BY <1>2, <2>1, <2>2, <2>3, <2>4, <2>5 DEF Grounded
<1> QED
  BY <1>1, <1>2

\* What is durable is added to, never replaced.
Kept(new, old) == \A a \in DOMAIN old : a \in DOMAIN new /\ new[a] = old[a]
Grows ==
    /\ Extends(ledger', ledger)
    /\ Kept(receipts'.controller, receipts.controller)
    /\ Kept(receipts'.evidence, receipts.evidence)
    /\ Len(rounds') >= Len(rounds) /\ \A n \in 1..Len(rounds) : rounds'[n] = rounds[n]

\* A cursor stays where it is.
LEMMA CursorStays ==
    ASSUME Shape, Grounded(ledger), Replayed, Grows, NEW n \in 1..(Len(rounds) + 1)
    PROVE  /\ ExpectedStart(n)' = ExpectedStart(n)
           /\ ExpectedAllocation(n)' = ExpectedAllocation(n)
           /\ ExpectedParent(n)' = ExpectedParent(n)
<1>1. n # 1 => n - 1 \in 1..Len(rounds) /\ rounds'[n - 1] = rounds[n - 1]
  BY CursorIs DEF Grows
<1>2. ExpectedAllocation(n) # NoRecord =>
          n # 1 /\ ledger'[ExpectedAllocation(n)] = ledger[ExpectedAllocation(n)]
  BY CursorIs DEF Grows, Extends
<1> QED
  BY <1>1, <1>2 DEF ExpectedStart, ExpectedAllocation, ExpectedParent

\* A committed round replays whatever is added.
LEMMA RoundsStay ==
    ASSUME Shape, Grounded(ledger), Replayed, Grows, NEW n \in 1..Len(rounds)
    PROVE  RoundReplays(ledger, n)'
<1> DEFINE r == rounds[n]
           start == ExpectedStart(n)
           a == Attempt(r)
<1>1. /\ RoundReplays(ledger, n) /\ r.head \in Nat /\ r.head >= 3 /\ r.head <= Len(ledger)
      /\ rounds'[n] = r /\ n \in 1..(Len(rounds) + 1)
  BY FirstLedger DEF Replayed, RoundsReplay, RoundReplays, Grows, Shape
<1>2. /\ ExpectedStart(n)' = start /\ ExpectedAllocation(n)' = ExpectedAllocation(n)
      /\ ExpectedParent(n)' = ExpectedParent(n)
  BY <1>1, CursorStays
<1>3. start \in Nat /\ start >= 3 /\ start <= Len(ledger)
  <2>1. CASE n = 1
    BY <1>1, <2>1, CursorIs, FirstLedger DEF ExpectedStart, Grounded, IsLedger
  <2>2. CASE n # 1
    BY <1>1, <2>2, CursorIs
  <2> QED
    BY <2>1, <2>2
<1>4. /\ Len(ledger) \in Nat /\ Len(ledger') \in Nat /\ Len(ledger) <= Len(ledger')
      /\ \A i \in 1..Len(ledger) : ledger'[i] = ledger[i]
  BY DEF Grounded, IsLedger, Grows, Extends
<1> HIDE DEF start
<1>5. SubSeq(ledger', 1, start) = SubSeq(ledger, 1, start)
  BY <1>3, <1>4, SameSlice
<1>6. SubSeq(ledger', start + 1, r.head) = SubSeq(ledger, start + 1, r.head)
  <2> DEFINE h == r.head
  <2>1. h \in Int /\ start + 1 \in Int /\ \A i \in (start + 1)..h : ledger'[i] = ledger[i]
    BY <1>1, <1>3, <1>4
  <2> HIDE DEF h
  <2>2. SubSeq(ledger', start + 1, h) = SubSeq(ledger, start + 1, h)
    BY <1>3, <2>1, SameSlice
  <2> QED
    BY <2>2 DEF h
<1>7. ledger'[r.head] = ledger[r.head] /\ ledger'[r.head - 1] = ledger[r.head - 1]
  BY <1>1, <1>4
<1>8. Candidates(ledger) \subseteq Candidates(ledger')
  BY CandidatesStay DEF Grounded, Grows
<1>9. /\ a \in DOMAIN receipts'.controller /\ a \in DOMAIN receipts'.evidence
      /\ receipts'.controller[a] = receipts.controller[a]
      /\ receipts'.evidence[a] = receipts.evidence[a]
  <2>1. a \in DOMAIN receipts.controller /\ a \in DOMAIN receipts.evidence
    BY <1>1 DEF RoundReplays
  <2> QED
    BY <2>1 DEF Grows, Kept
<1>10. r.head <= Len(ledger')
  BY <1>1, <1>4
<1> HIDE DEF r, a
<1>11. /\ r.round = n /\ r.parent = ExpectedParent(n)
       /\ r.parentAllocation = ExpectedAllocation(n) /\ r.parent \in Candidates(ledger)
       /\ r.attempts >= 1 /\ r.evidenceAttempts >= 1
       /\ r.evidenceWall = r.evidenceAttempts * EvidenceTimeout
       /\ r.child = receipts.controller[a]
       /\ SubSeq(ledger, start + 1, r.head) =
              RoundRecords(SubSeq(ledger, 1, start), n, r.parent, r.child, receipts.evidence[a])
       /\ r.allocation = IF ledger[r.head].kind = "allocation" THEN r.head ELSE NoRecord
       /\ r.members = DOMAIN (IF ledger[r.head].kind = "allocation"
                                THEN ledger[r.head - 1] ELSE ledger[r.head]).members
  BY <1>1 DEF RoundReplays, OneExactSuffix, Child, r, a, start
<1>12. /\ r.child = receipts'.controller[a]
       /\ SubSeq(ledger', start + 1, r.head) =
              RoundRecords(SubSeq(ledger', 1, start), n, r.parent, r.child, receipts'.evidence[a])
       /\ r.allocation = IF ledger'[r.head].kind = "allocation" THEN r.head ELSE NoRecord
       /\ r.members = DOMAIN (IF ledger'[r.head].kind = "allocation"
                                THEN ledger'[r.head - 1] ELSE ledger'[r.head]).members
       /\ r.parent \in Candidates(ledger')
  BY <1>5, <1>6, <1>7, <1>8, <1>9, <1>11
<1>13. rounds'[n] = r /\ Attempt(r) = a
  BY <1>1 DEF r, a
<1> QED
  BY <1>2, <1>9, <1>10, <1>11, <1>12, <1>13 DEF RoundReplays, OneExactSuffix, Child, Attempt

----------------------------------------------------------------------------
\* n records of l behind the first `start`, record by record.
Stretch(l, start, n) == SubSeq(l, start + 1, start + n)

LEMMA StretchIs ==
    ASSUME NEW l, NEW start \in Nat, NEW n \in Nat
    PROVE  /\ IsLedger(Stretch(l, start, n)) /\ Len(Stretch(l, start, n)) = n
           /\ \A i \in 1..n : Stretch(l, start, n)[i] = l[start + i]
<1> DEFINE a == start + 1
           b == start + n
<1>1. /\ a \in Int /\ b \in Int /\ b - a + 1 = n /\ (IF a <= b THEN b - a + 1 ELSE 0) = n
      /\ \A i \in 1..n : a + i - 1 = start + i
  OBVIOUS
<1>2. Stretch(l, start, n) = SubSeq(l, a, b)
  BY DEF Stretch
<1> HIDE DEF a, b
<1>3. /\ IsLedger(SubSeq(l, a, b))
      /\ Len(SubSeq(l, a, b)) = IF a <= b THEN b - a + 1 ELSE 0
      /\ \A i \in 1..(b - a + 1) : SubSeq(l, a, b)[i] = l[a + i - 1]
  BY <1>1, SliceIsLedger
<1>4. Len(SubSeq(l, a, b)) = n /\ \A i \in 1..n : SubSeq(l, a, b)[i] = l[start + i]
  BY <1>1, <1>3
<1> QED
  BY <1>2, <1>3, <1>4

LEMMA PrefixIs ==
    ASSUME NEW l, IsLedger(l), NEW start \in Nat, start <= Len(l), NEW R, IsLedger(R)
    PROVE  IsPrefix(Suffix(l, start), R) <=>
               /\ Len(l) - start <= Len(R)
               /\ \A i \in 1..(Len(l) - start) : l[start + i] = R[i]
<1> DEFINE n == Len(l) - start
           t == Suffix(l, start)
<1>1. Len(l) \in Nat /\ Len(R) \in Nat /\ n \in Nat
  BY DEF IsLedger
<1>2. IsLedger(t) /\ Len(t) = n /\ \A i \in 1..n : t[i] = l[start + i]
  <2>1. Len(l) = start + n
    BY <1>1
  <2>2. t = Stretch(l, start, n)
    BY <2>1 DEF Suffix, Stretch
  <2> HIDE DEF n, t
  <2> QED
    BY <1>1, <2>2, StretchIs
<1> HIDE DEF n, t
<1>3. /\ IsLedger(SubSeq(t, 1, n)) /\ Len(SubSeq(t, 1, n)) = n
      /\ IsLedger(SubSeq(R, 1, n)) /\ Len(SubSeq(R, 1, n)) = n
      /\ \A i \in 1..n : SubSeq(t, 1, n)[i] = t[i] /\ SubSeq(R, 1, n)[i] = R[i]
  <2>1. /\ 1 \in Int /\ n \in Int /\ n - 1 + 1 = n /\ (IF 1 <= n THEN n - 1 + 1 ELSE 0) = n
        /\ \A i \in Int : 1 + i - 1 = i
    BY <1>1
  <2>2. \A x : /\ IsLedger(SubSeq(x, 1, n))
               /\ Len(SubSeq(x, 1, n)) = IF 1 <= n THEN n - 1 + 1 ELSE 0
               /\ \A i \in 1..(n - 1 + 1) : SubSeq(x, 1, n)[i] = x[1 + i - 1]
    BY <2>1, SliceIsLedger
  <2> QED
    BY <2>1, <2>2
<1>4. SubSeq(t, 1, n) = SubSeq(R, 1, n) <=> \A i \in 1..n : t[i] = R[i]
  <2>1. ASSUME \A i \in 1..n : t[i] = R[i] PROVE SubSeq(t, 1, n) = SubSeq(R, 1, n)
    <3>1. \A i \in 1..Len(SubSeq(t, 1, n)) : SubSeq(t, 1, n)[i] = SubSeq(R, 1, n)[i]
      BY <1>3, <2>1
    <3> QED
      BY <1>3, <3>1, SameLedger
  <2>2. ASSUME SubSeq(t, 1, n) = SubSeq(R, 1, n) PROVE \A i \in 1..n : t[i] = R[i]
    BY <1>3, <2>2
  <2> QED
    BY <2>1, <2>2
<1> QED
  BY <1>2, <1>4 DEF IsPrefix, n, t

\* A tail that is one record longer, and one that is whole.
LEMMA TailGrows ==
    ASSUME NEW l, IsLedger(l), NEW start \in Nat, start <= Len(l), NEW R, IsLedger(R),
           IsPrefix(Suffix(l, start), R), NEW n \in Nat, n = Len(l) - start
    PROVE  /\ n # Len(R) =>
                 /\ n + 1 \in 1..Len(R)
                 /\ IsPrefix(Suffix(Append(l, R[n + 1]), start), R)
           /\ n = Len(R) =>
                 /\ start + Len(R) <= Len(l)
                 /\ SubSeq(l, start + 1, start + Len(R)) = R
<1>1. Len(l) \in Nat /\ Len(R) \in Nat /\ Len(l) = start + n
  BY DEF IsLedger
<1>2. n <= Len(R) /\ \A i \in 1..n : l[start + i] = R[i]
  BY PrefixIs
<1>3. ASSUME n # Len(R) PROVE n + 1 \in 1..Len(R) /\ IsPrefix(Suffix(Append(l, R[n + 1]), start), R)
  <2> DEFINE m == Append(l, R[n + 1])
  <2>1. /\ IsLedger(m) /\ Len(m) = Len(l) + 1 /\ m[Len(l) + 1] = R[n + 1]
        /\ \A i \in 1..Len(l) : m[i] = l[i]
    BY AppendIsLedger
  <2> HIDE DEF m
  <2>2. Len(m) - start = n + 1 /\ n + 1 \in 1..Len(R) /\ start <= Len(m)
    BY <1>1, <1>2, <1>3, <2>1
  <2>3. ASSUME NEW i \in 1..(n + 1) PROVE m[start + i] = R[i]
    <3>1. CASE i = n + 1
      <4>1. start + i = Len(l) + 1
        BY <1>1, <3>1
      <4> QED
        BY <2>1, <3>1, <4>1
    <3>2. CASE i # n + 1
      <4>1. i \in 1..n /\ start + i \in 1..Len(l)
        BY <1>1, <3>2
      <4> QED
        BY <1>2, <2>1, <4>1
    <3> QED
      BY <3>1, <3>2
  <2>4. Len(m) - start <= Len(R) /\ \A i \in 1..(Len(m) - start) : m[start + i] = R[i]
    BY <1>1, <2>2, <2>3
  <2>5. IsPrefix(Suffix(m, start), R)
    BY <2>1, <2>2, <2>4, PrefixIs
  <2> QED
    BY <2>2, <2>5 DEF m
<1>4. ASSUME n = Len(R)
      PROVE  start + Len(R) <= Len(l) /\ SubSeq(l, start + 1, start + Len(R)) = R
  <2> DEFINE t == Stretch(l, start, n)
  <2>0. \A k \in Nat : /\ IsLedger(Stretch(l, start, k)) /\ Len(Stretch(l, start, k)) = k
                      /\ \A i \in 1..k : Stretch(l, start, k)[i] = l[start + i]
    BY StretchIs
  <2>1. IsLedger(t) /\ Len(t) = n /\ \A i \in 1..n : t[i] = l[start + i]
    BY <2>0
  <2> HIDE DEF t
  <2>2. Len(t) = Len(R) /\ \A i \in 1..Len(t) : t[i] = R[i]
    BY <1>2, <1>4, <2>1
  <2>3. t = R
    BY <2>1, <2>2, SameLedger
  <2>4. SubSeq(l, start + 1, start + Len(R)) = R
    BY <1>4, <2>3 DEF t, Stretch
  <2> QED
    BY <1>1, <1>4, <2>4
<1> QED
  BY <1>3, <1>4

LEMMA WholeTail ==
    ASSUME NEW l, IsLedger(l), NEW start \in Nat, start <= Len(l), NEW R, IsLedger(R),
           IsPrefix(Suffix(l, start), R)
    PROVE  Len(l) - start = Len(R) =>
               start + Len(R) <= Len(l) /\ SubSeq(l, start + 1, start + Len(R)) = R
<1>1. Len(l) \in Nat /\ Len(R) \in Nat
  BY DEF IsLedger
<1>2. \A k \in Nat : k = Len(l) - start =>
          (k = Len(R) => start + Len(R) <= Len(l) /\ SubSeq(l, start + 1, start + Len(R)) = R)
  BY TailGrows
<1> QED
  BY <1>1, <1>2

LEMMA LongerTail ==
    ASSUME NEW l, IsLedger(l), NEW start \in Nat, start <= Len(l), NEW R, IsLedger(R),
           IsPrefix(Suffix(l, start), R), Len(l) - start # Len(R)
    PROVE  /\ Len(l) - start + 1 \in 1..Len(R)
           /\ IsPrefix(Suffix(Append(l, R[Len(l) - start + 1]), start), R)
<1>1. Len(l) \in Nat /\ Len(R) \in Nat /\ Len(l) - start \in Nat
  BY DEF IsLedger
<1>2. \A k \in Nat : k = Len(l) - start =>
          (k # Len(R) => /\ k + 1 \in 1..Len(R)
                         /\ IsPrefix(Suffix(Append(l, R[k + 1]), start), R))
  BY TailGrows
<1> QED
  BY <1>1, <1>2

\* The records of the round under way.
LEMMA RecordsAre ==
    ASSUME IInv, RInv, ActivePending
    PROVE  /\ pending.round = Len(rounds) + 1 /\ pending.round \in 1..(Len(rounds) + 1)
           /\ pending.round \in Nat \ {0} /\ Len(rounds) \in Nat /\ IsPending(pending)
           /\ pending.start \in Nat /\ pending.start >= 3 /\ pending.start <= Len(ledger)
           /\ IsLedger(ledger) /\ Len(ledger) \in Nat /\ ledger # << >>
           /\ IsLedger(RecordsOf(pending, ledger)) /\ Len(RecordsOf(pending, ledger)) \in Nat
           /\ \A i \in 1..Len(RecordsOf(pending, ledger)) :
                 OfRound(RecordsOf(pending, ledger)[i], pending.round, Child(Attempt(pending)))
<1>1. /\ pending.round = Len(rounds) + 1 /\ pending.round \in 1..(Len(rounds) + 1)
      /\ pending.round \in Nat \ {0} /\ Len(rounds) \in Nat /\ IsPending(pending)
  BY DEF IInv, Shape, ActivePending, CurrentRound
<1>2. pending.start \in Nat /\ pending.start >= 3
  BY <1>1, CursorIs DEF IInv, RInv, Checkpointed, Anchored
<1>3. /\ pending.start <= Len(ledger) /\ IsLedger(ledger) /\ Len(ledger) \in Nat
  BY DEF RInv, Checkpointed, Anchored, Grounded, IsLedger
<1>4. ledger # << >>
  BY <1>2, <1>3
<1>5. IsLedger(SubSeq(ledger, 1, pending.start))
  BY <1>2, SliceIsLedger
<1> QED
  BY <1>1, <1>2, <1>3, <1>4, <1>5, RoundAppends DEF RecordsOf

\* They are what they were, whatever is added.
LEMMA RecordsStay ==
    ASSUME IInv, RInv, ActivePending, Grows,
           pending'.round = pending.round, pending'.parent = pending.parent,
           pending'.start = pending.start, pending'.attempts = pending.attempts,
           Attempt(pending) \in DOMAIN receipts.controller,
           Attempt(pending) \in DOMAIN receipts.evidence
    PROVE  RecordsOf(pending, ledger)' = RecordsOf(pending, ledger)
<1>1. Attempt(pending') = Attempt(pending)
  BY DEF Attempt
<1>2. /\ receipts'.controller[Attempt(pending)] = receipts.controller[Attempt(pending)]
      /\ receipts'.evidence[Attempt(pending)] = receipts.evidence[Attempt(pending)]
  BY DEF Grows, Kept
<1>3. SubSeq(ledger', 1, pending.start) = SubSeq(ledger, 1, pending.start)
  <2>1. pending.start \in Int /\ \A i \in 1..pending.start : ledger'[i] = ledger[i]
    BY RecordsAre DEF Grows, Extends
  <2> QED
    BY <2>1, SameSlice
<1> QED
  BY <1>1, <1>2, <1>3 DEF RecordsOf, Child

LEMMA AnchorStays ==
    ASSUME IInv, RInv, ActivePending, Grows,
           pending'.round = pending.round, pending'.parent = pending.parent,
           pending'.allocation = pending.allocation, pending'.start = pending.start
    PROVE  Anchored'
<1>1. pending.round \in 1..(Len(rounds) + 1)
  BY RecordsAre
<1> PICK n \in 1..(Len(rounds) + 1) : n = pending.round
  BY <1>1
<1>2. /\ pending.parent = ExpectedParent(n) /\ pending.allocation = ExpectedAllocation(n)
      /\ pending.start = ExpectedStart(n) /\ pending.start <= Len(ledger)
      /\ pending.parent \in Candidates(ledger)
  BY DEF RInv, Checkpointed, Anchored
<1>3. /\ ExpectedStart(n)' = ExpectedStart(n) /\ ExpectedAllocation(n)' = ExpectedAllocation(n)
      /\ ExpectedParent(n)' = ExpectedParent(n)
  BY CursorStays DEF IInv, RInv
<1>4. pending'.start <= Len(ledger')
  BY <1>2, RecordsAre DEF Grows, Extends, IsLedger
<1>5. pending'.parent \in Candidates(ledger')
  BY <1>2, CandidatesStay DEF Grows, RInv, Grounded
<1>6. /\ ExpectedStart(n)' = ExpectedStart(pending.round)'
      /\ ExpectedAllocation(n)' = ExpectedAllocation(pending.round)'
      /\ ExpectedParent(n)' = ExpectedParent(pending.round)'
  <2>1. pending'.round = n
    OBVIOUS
  <2> QED
    BY <2>1 DEF ExpectedStart, ExpectedAllocation, ExpectedParent
<1> QED
  BY <1>2, <1>3, <1>4, <1>5, <1>6 DEF Anchored

----------------------------------------------------------------------------
\* The steps.  What is on disk, apart from what the invocation knows.
Durable == Grounded(ledger) /\ Replayed /\ Received /\ Checkpointed

\* What does not change is kept.
LEMMA StillGrows ==
    ASSUME IInv, RInv, UNCHANGED <<ledger, rounds, receipts>>
    PROVE  Grows
<1>1. IsLedger(ledger) /\ Len(ledger) \in Nat /\ Len(rounds) \in Nat
  BY DEF IInv, RInv, Shape, Grounded, IsLedger
<1>2. Extends(ledger', ledger)
  BY <1>1 DEF Extends
<1> QED
  BY <1>1, <1>2 DEF Grows, Kept

\* Steps that write no ledger, round, checkpoint or receipt.
LEMMA StillStep ==
    ASSUME IInv, RInv, UNCHANGED <<ledger, rounds, pending, receipts>>, called \subseteq called',
           Undisturbed' => Undisturbed
    PROVE  Durable' /\ (ActivePending' <=> ActivePending)
<1>1. Grounded(ledger') /\ Received'
  BY DEF RInv, Received, Child
<1>2. ASSUME NEW n \in 1..Len(rounds)
      PROVE  RoundReplays(ledger, n)'
  BY StillGrows, RoundsStay DEF IInv, RInv
<1>3. Replayed'
  BY <1>2 DEF RInv, Replayed, RoundsReplay
<1>4. ActivePending' <=> ActivePending
  BY DEF ActivePending, CurrentRound
<1>5. Anchored => Anchored'
  BY DEF Anchored, ExpectedStart, ExpectedAllocation, ExpectedParent
<1>6. Receipted => Receipted'
  BY DEF Receipted, Reserved, Attempt
<1>7. RecordsOf(pending, ledger)' = RecordsOf(pending, ledger)
  BY DEF RecordsOf, Attempt, Child
<1>8. Untouched => Untouched'
  BY <1>7 DEF Untouched, OwnsTail
<1> QED
  BY <1>1, <1>3, <1>4, <1>5, <1>6, <1>8 DEF Durable, RInv, Checkpointed

\* Where the invocation goes next it knows nothing more.
Idle == States \ (Working \cup {"planning"})

LEMMA IdleKnows == pc' \in Idle => Knows'
BY DEF Idle, Knows, States, Working

\* The environment moves beside the invocation.
LEMMA BesideStep ==
    ASSUME IInv, RInv, UNCHANGED <<ledger, rounds, pending, receipts, called, pc, seen>>,
           Undisturbed' => Undisturbed, popLock = "driver" => popLock' = "driver",
           OperatorCounted'
    PROVE  RInv'
<1>1. Durable' /\ (ActivePending' <=> ActivePending)
  BY StillStep
<1>2. RecordsOf(pending, ledger)' = RecordsOf(pending, ledger)
  BY DEF RecordsOf, Attempt, Child
<1>3. pc = "planning" => Planned'
  BY <1>1 DEF RInv, Knows, Planned, Reserved
<1>4. pc = "ingesting" => popLock' = "driver" /\ OwnsTail(pending, ledger)'
  BY <1>2 DEF RInv, Knows, OwnsTail
<1>5. pc = "commit" => InTheLedger'
  BY <1>2 DEF RInv, Knows, InTheLedger
<1>6. Knows'
  BY <1>3, <1>4, <1>5 DEF RInv, Knows, Counting, Reserved, Attempt
<1> QED
  BY <1>1, <1>6 DEF RInv, Durable

\* The invocation leaves, or goes where it relies on nothing.
LEMMA LeaveStep ==
    ASSUME IInv, RInv, UNCHANGED <<ledger, rounds, pending, receipts>>, called \subseteq called',
           Undisturbed' => Undisturbed, pc' \in Idle,
           popLock' = "operator" => popLock = "operator", appends' = appends
    PROVE  RInv'
<1>1. Durable' /\ Knows'
  BY StillStep, IdleKnows
<1> QED
  BY <1>1 DEF RInv, Durable, OperatorCounted

\* Verify and the planner's first steps on an active checkpoint.
LEMMA VerifySteps == IInv /\ RInv /\ Verify => RInv'
<1> SUFFICES ASSUME IInv, RInv, Verify PROVE RInv'
  OBVIOUS
<1>0. /\ UNCHANGED <<ledger, rounds, pending, receipts, called, popLock, appends, torn>>
  BY DEF Verify, durable, history, bounds
<1>1. Durable' /\ (ActivePending' <=> ActivePending)
  BY <1>0, StillStep DEF Undisturbed
<1>2. CASE pc' = "planning"
  <2>1. Verifiable(ledger) /\ seen' = Len(ledger)
    BY <1>2 DEF Verify, Exit
  <2>2. ActivePending => Reserved
    BY <2>1 DEF Verifiable, CommittedPending, ActivePending, CurrentRound, PendingValid,
         Reserved, IInv, Shape
  <2>3. Planned'
    BY <1>0, <1>1, <2>1, <2>2 DEF Planned, Reserved, RInv, Grounded, IsLedger
  <2>4. Knows'
    BY <1>2, <2>3 DEF Knows, Working
  <2> QED
    BY <1>0, <1>1, <2>4 DEF RInv, Durable, OperatorCounted
<1>3. CASE pc' # "planning"
  <2>1. pc' \in Idle
    BY <1>3 DEF Verify, Exit, Idle, States, Working
  <2> QED
    BY <1>0, <2>1, LeaveStep DEF Undisturbed
<1> QED
  BY <1>2, <1>3

LEMMA LeavingSteps ==
    ASSUME IInv, RInv,
           \/ FinishVerify \/ Stop \/ LeaveIndeterminate \/ Refresh
           \/ (Retry /\ ~ RetryAllowed)
    PROVE  RInv'
<1>1. /\ UNCHANGED <<ledger, rounds, pending, receipts, called, popLock, appends, torn>>
      /\ pc' \in Idle
  BY DEF FinishVerify, Stop, LeaveIndeterminate, Refresh, Retry, Exit, Goto, durable, history,
     bounds, Idle, States, Working
<1> QED
  BY <1>1, LeaveStep DEF Undisturbed

\* The planner reaches an active checkpoint, and knows its reservation.
LEMMA AdvancingIs ==
    ASSUME IInv, RInv, Advancing
    PROVE  ActivePending /\ Reserved
BY DEF Advancing, Planning, CommittedPending, IInv, Placed, ActivePending, CurrentRound, RInv,
   Knows, Planned

LEMMA ReachingSteps ==
    ASSUME IInv, RInv, CallController \/ ReachEvidence \/ ReachIngest
    PROVE  RInv'
<1>1. /\ UNCHANGED <<ledger, rounds, pending, receipts, popLock, appends, torn>>
      /\ called \subseteq called' /\ Reserved
      /\ \/ pc' = "controller" /\ pending.stage = "controller_pending"
         \/ pc' = "evidence" /\ pending.stage = "controller_complete"
         \/ pc' = "ingest"
  BY AdvancingIs DEF CallController, ReachEvidence, ReachIngest, durable, history, bounds, Goto
<1>2. Durable'
  BY <1>1, StillStep DEF Undisturbed
<1>3. Knows'
  BY <1>1 DEF Knows, Working, Reserved
<1> QED
  BY <1>1, <1>2, <1>3 DEF RInv, Durable, OperatorCounted

LEMMA IngestingSteps ==
    ASSUME IInv, RInv, BeginIngest \/ FinishIngest
    PROVE  RInv'
<1>1. /\ UNCHANGED <<ledger, rounds, pending, receipts, called, appends, torn>>
      /\ pc \in Working /\ pc # "counting"
      /\ popLock' = "operator" => popLock = "operator"
  BY DEF BeginIngest, FinishIngest, durable, history, bounds, Working
<1>2. Durable' /\ (ActivePending' <=> ActivePending)
  BY <1>1, StillStep DEF Undisturbed
<1>3. RecordsOf(pending, ledger)' = RecordsOf(pending, ledger)
  BY <1>1 DEF RecordsOf, Attempt, Child
<1>4. CASE pc' \in Idle
  BY <1>1, <1>4, LeaveStep DEF Undisturbed
<1>5. CASE pc' = "ingesting"
  <2>1. popLock' = "driver" /\ OwnsTail(pending, ledger)
    BY <1>5 DEF BeginIngest, FinishIngest, Exit, Goto
  <2>2. Knows'
    BY <1>1, <1>3, <1>5, <2>1 DEF Knows, RInv, OwnsTail, Reserved, Working
  <2> QED
    BY <1>1, <1>2, <2>2 DEF RInv, Durable, OperatorCounted
<1>6. CASE pc' = "commit"
  <2>1. pc = "ingesting" /\ Complete
    BY <1>6 DEF BeginIngest, FinishIngest, Exit, Goto
  <2>2. ActivePending /\ OwnsTail(pending, ledger)
    BY <2>1 DEF IInv, Located, Working, RInv, Knows
  <2>3. /\ IsLedger(ledger) /\ pending.start \in Nat /\ pending.start <= Len(ledger)
        /\ IsLedger(RecordsOf(pending, ledger))
    BY <2>2, RecordsAre
  <2>4. InTheLedger
    BY <2>1, <2>2, <2>3, WholeTail DEF OwnsTail, Complete, Ingested, InTheLedger
  <2>5. Knows'
    BY <1>1, <1>3, <1>6, <2>4 DEF Knows, RInv, InTheLedger, Reserved, Working
  <2> QED
    BY <1>1, <1>2, <2>5 DEF RInv, Durable, OperatorCounted
<1> QED
  BY <1>4, <1>5, <1>6 DEF BeginIngest, FinishIngest, Exit, Goto, Idle, States, Working

LEMMA BesideSteps ==
    ASSUME IInv, RInv,
           RemoveAbandonedLocks \/ OperatorBegins \/ OperatorGivesUp \/ OperatorDies
    PROVE  RInv'
<1>1. /\ UNCHANGED <<ledger, rounds, pending, receipts, called, pc, seen>>
      /\ torn' = {} => torn = {}
      /\ popLock = "driver" => popLock' = "driver"
  BY DEF RemoveAbandonedLocks, OperatorBegins, OperatorGivesUp, OperatorDies, durable,
     invocation, history
<1>2. (appends' = 0 => appends = 0) /\ OperatorCounted'
  BY DEF RemoveAbandonedLocks, OperatorBegins, OperatorGivesUp, OperatorDies, durable, bounds,
     RInv, OperatorCounted
<1> QED
  BY <1>1, <1>2, BesideStep DEF Undisturbed

LEMMA CrashStep == IInv /\ RInv /\ Crash => RInv'
<1> SUFFICES ASSUME IInv, RInv, Crash PROVE RInv'
  OBVIOUS
<1>1. /\ UNCHANGED <<ledger, rounds, pending, receipts, called, appends>>
      /\ torn' = {} => torn = {}
      /\ pc' = "off"
      /\ popLock' = "operator" => popLock = "operator"
  BY DEF Crash, history
<1>2. pc' \in Idle
  BY <1>1 DEF Idle, States, Working
<1> QED
  BY <1>1, <1>2, LeaveStep DEF Undisturbed

LEMMA LargerOfOne ==
    ASSUME NEW n \in Nat
    PROVE  Max({1, n}) = IF n = 0 THEN 1 ELSE n
<1> DEFINE m == IF n = 0 THEN 1 ELSE n
<1>1. m \in {1, n} /\ \A y \in {1, n} : m >= y
  OBVIOUS
<1>2. \A x \in {1, n} : (\A y \in {1, n} : x >= y) => x = m
  OBVIOUS
<1> HIDE DEF m
<1>3. (CHOOSE x \in {1, n} : \A y \in {1, n} : x >= y) = m
  BY <1>1, <1>2
<1> QED
  BY <1>3 DEF Max, m

\* Nothing stands behind the end of a ledger.
LEMMA EmptyTail ==
    ASSUME NEW l, IsLedger(l), NEW R, IsLedger(R)
    PROVE  IsPrefix(Suffix(l, Len(l)), R)
<1>1. Len(l) \in Nat /\ Len(R) \in Nat /\ Len(l) <= Len(l)
  BY DEF IsLedger
<1>2. Len(l) - Len(l) <= Len(R) /\ \A i \in 1..(Len(l) - Len(l)) : l[Len(l) + i] = R[i]
  BY <1>1
<1> QED
  BY <1>1, <1>2, PrefixIs

\* The checkpoint is rewritten for the same attempt of the same round.
SameAttempt ==
    /\ pending'.round = pending.round /\ pending'.parent = pending.parent
    /\ pending'.allocation = pending.allocation /\ pending'.start = pending.start
    /\ pending'.attempts = pending.attempts

LEMMA MarkStep ==
    ASSUME IInv, RInv, ActivePending, pending.stage # "evidence_complete",
           UNCHANGED <<ledger, rounds, receipts, called, torn, popLock, appends>>,
           SameAttempt, pending'.stage \in Stages, Receipted'
    PROVE  Durable' /\ ActivePending' /\ Attempt(pending') = Attempt(pending) /\ OperatorCounted'
<1>1. Grows
  BY StillGrows
<1>2. Anchored'
  BY <1>1, AnchorStays DEF SameAttempt
<1>3. Attempt(pending') = Attempt(pending)
  BY DEF Attempt, SameAttempt
<1>4. pending' # NoPending
  BY DEF NoPending, Stages
<1>5. ActivePending'
  BY <1>4 DEF ActivePending, CurrentRound, SameAttempt
<1>6. Untouched'
  <2> SUFFICES ASSUME Undisturbed'
               PROVE  IF pending'.stage = "evidence_complete" THEN OwnsTail(pending, ledger)'
                      ELSE Len(ledger') = pending'.start
    BY DEF Untouched
  <2>1. Len(ledger) = pending.start
    BY DEF Undisturbed, RInv, Checkpointed, Untouched
  <2>2. ASSUME pending'.stage = "evidence_complete"
        PROVE  OwnsTail(pending, ledger)'
    <3>1. Attempt(pending) \in DOMAIN receipts.controller /\ Attempt(pending) \in DOMAIN receipts.evidence
      BY <1>3, <2>2 DEF Receipted
    <3>2. RecordsOf(pending, ledger)' = RecordsOf(pending, ledger)
      BY <1>1, <3>1, RecordsStay DEF SameAttempt
    <3>3. IsLedger(ledger) /\ IsLedger(RecordsOf(pending, ledger)) /\ Len(ledger) \in Nat
      BY RecordsAre
    <3>4. IsPrefix(Suffix(ledger, Len(ledger)), RecordsOf(pending, ledger))
      BY <3>3, EmptyTail
    <3> QED
      BY <2>1, <3>2, <3>3, <3>4 DEF OwnsTail, SameAttempt
  <2> QED
    BY <2>1, <2>2 DEF SameAttempt
<1>7. Replayed'
  BY <1>1, RoundsStay DEF Replayed, RoundsReplay, RInv, IInv
<1>8. Grounded(ledger') /\ Received' /\ OperatorCounted'
  BY DEF RInv, Received, Child, OperatorCounted
<1> QED
  BY <1>2, <1>3, <1>5, <1>6, <1>7, <1>8 DEF Durable, Checkpointed

\* The checkpoint before and after a step at work on it.
LEMMA MarkIs ==
    ASSUME IInv, RInv, pc \in Working
    PROVE  ActivePending /\ IsPending(pending) /\ Receipted /\ pending.evidenceAttempts \in Nat
BY RecordsAre DEF IInv, Located, RInv, Checkpointed, Receipted

\* Reservations before and after an adapter call is counted.
LEMMA Reservations ==
    ASSUME pending.evidenceAttempts \in Nat
    PROVE  Reserved <=> pending.evidenceWall =
               (IF pending.evidenceAttempts = 0 THEN 1 ELSE pending.evidenceAttempts) * EvidenceTimeout
BY LargerOfOne DEF Reserved

LEMMA ControllerMarks ==
    ASSUME IInv, RInv, AdoptControllerReceipt \/ CheckpointController
    PROVE  RInv'
<1>1. ActivePending /\ Reserved
  BY AdvancingIs, MarkIs DEF AdoptControllerReceipt, CheckpointController, RInv, Knows, Working
<1>2. IsPending(pending) /\ Receipted
  BY <1>1, RecordsAre DEF RInv, Checkpointed
<1>3. /\ pending.stage = "controller_pending" /\ Attempt(pending) \in DOMAIN receipts.controller
      /\ pc' = "evidence"
      /\ UNCHANGED <<ledger, rounds, receipts, called, torn, popLock, appends>>
  BY DEF AdoptControllerReceipt, CheckpointController, RInv, Knows, history, bounds, Goto
<1>4. pending' = [pending EXCEPT !.stage = "controller_complete", !.error = FALSE]
  BY DEF AdoptControllerReceipt, CheckpointController
<1>5. /\ SameAttempt /\ pending'.stage = "controller_complete"
      /\ pending'.evidenceAttempts = pending.evidenceAttempts
      /\ pending'.evidenceWall = pending.evidenceWall
  BY <1>2, <1>4 DEF SameAttempt, IsPending, PendingFields
<1>6. Attempt(pending') = Attempt(pending)
  BY <1>5 DEF Attempt, SameAttempt
<1>7. Receipted'
  BY <1>2, <1>3, <1>5, <1>6 DEF Receipted
<1>8. Durable' /\ OperatorCounted'
  BY <1>1, <1>3, <1>5, <1>7, MarkStep DEF Stages
<1>9. Knows'
  BY <1>1, <1>3, <1>5 DEF Knows, Reserved, Working
<1> QED
  BY <1>8, <1>9 DEF RInv, Durable

LEMMA FailureMarks ==
    ASSUME IInv, RInv, ControllerFails \/ AdapterFails \/ EvidenceWallLimit
    PROVE  RInv'
<1>1. /\ pc \in Working /\ pending.stage # "evidence_complete"
      /\ UNCHANGED <<ledger, rounds, receipts, called, torn, popLock, appends>>
      /\ pc' = "refresh"
  BY DEF ControllerFails, AdapterFails, EvidenceWallLimit, NeedsAdapter, RInv, Knows, history,
     bounds, Goto, Working
<1>2. ActivePending /\ IsPending(pending) /\ Receipted
  BY <1>1, MarkIs
<1>3. pending' = [pending EXCEPT !.error = TRUE]
  BY DEF ControllerFails, AdapterFails, EvidenceWallLimit
<1>4. /\ SameAttempt /\ pending'.stage = pending.stage
      /\ pending'.evidenceAttempts = pending.evidenceAttempts
      /\ pending'.evidenceWall = pending.evidenceWall
  BY <1>2, <1>3 DEF SameAttempt, IsPending, PendingFields
<1>5. Attempt(pending') = Attempt(pending)
  BY <1>4 DEF Attempt, SameAttempt
<1>6. Receipted'
  BY <1>1, <1>2, <1>4, <1>5 DEF Receipted
<1>7. Durable' /\ OperatorCounted'
  BY <1>1, <1>2, <1>4, <1>6, MarkStep DEF IsPending
<1>8. Knows'
  BY <1>1, IdleKnows DEF Idle, States, Working
<1> QED
  BY <1>7, <1>8 DEF RInv, Durable

LEMMA EvidenceMarks ==
    ASSUME IInv, RInv, AdoptEvidenceReceipt \/ CheckpointEvidence
    PROVE  RInv'
<1>1. /\ pc \in Working /\ Reserved /\ pending.stage = "controller_complete"
      /\ Attempt(pending) \in DOMAIN receipts.evidence
      /\ UNCHANGED <<ledger, rounds, receipts, called, torn, popLock, appends>>
      /\ pc' = "ingest"
  BY DEF AdoptEvidenceReceipt, CheckpointEvidence, RInv, Knows, history, bounds, Goto, Working
<1>2. ActivePending /\ IsPending(pending) /\ Receipted
  BY <1>1, MarkIs
<1>3. pending' = [pending EXCEPT !.stage = "evidence_complete", !.error = FALSE]
  BY DEF AdoptEvidenceReceipt, CheckpointEvidence
<1>4. /\ SameAttempt /\ pending'.stage = "evidence_complete"
      /\ pending'.evidenceAttempts = pending.evidenceAttempts
      /\ pending'.evidenceWall = pending.evidenceWall
  BY <1>2, <1>3 DEF SameAttempt, IsPending, PendingFields
<1>5. Attempt(pending') = Attempt(pending) /\ Reserved'
  BY <1>1, <1>4 DEF Attempt, SameAttempt, Reserved
<1>6. Receipted'
  BY <1>1, <1>2, <1>4, <1>5 DEF Receipted
<1>7. Durable' /\ OperatorCounted'
  BY <1>1, <1>2, <1>4, <1>6, MarkStep DEF Stages
<1>8. Knows'
  BY <1>1, <1>5 DEF Knows, Working
<1> QED
  BY <1>7, <1>8 DEF RInv, Durable

\* The reservation, then the attempt: the two checkpoints of an adapter call.
LEMMA ReserveStep ==
    ASSUME IInv, RInv, ReserveEvidence
    PROVE  RInv'
<1>1. /\ pc \in Working /\ Reserved /\ pending.stage = "controller_complete"
      /\ pending.evidenceAttempts > 0
      /\ UNCHANGED <<ledger, rounds, receipts, called, torn, popLock, appends>>
      /\ pc' = "counting"
  BY DEF ReserveEvidence, NeedsAdapter, RInv, Knows, history, bounds, Goto, Working
<1>2. ActivePending /\ IsPending(pending) /\ Receipted /\ pending.evidenceAttempts \in Nat
  BY <1>1, MarkIs
<1>3. pending' = [pending EXCEPT !.evidenceWall = @ + EvidenceTimeout]
  BY DEF ReserveEvidence
<1>4. /\ SameAttempt /\ pending'.stage = "controller_complete"
      /\ pending'.evidenceAttempts = pending.evidenceAttempts
      /\ pending'.evidenceWall = pending.evidenceWall + EvidenceTimeout
  BY <1>1, <1>2, <1>3 DEF SameAttempt, IsPending, PendingFields
<1>5. Attempt(pending') = Attempt(pending)
  BY <1>4 DEF Attempt, SameAttempt
<1>6. Receipted'
  BY <1>1, <1>2, <1>4, <1>5 DEF Receipted
<1>7. Durable' /\ OperatorCounted'
  BY <1>1, <1>2, <1>4, <1>6, MarkStep DEF Stages
<1>8. Counting'
  <2>1. pending.evidenceWall = pending.evidenceAttempts * EvidenceTimeout
    BY <1>1, <1>2, Reservations
  <2>2. \A a \in Nat : a * EvidenceTimeout + EvidenceTimeout = (a + 1) * EvidenceTimeout
    BY LimitsAssumption
  <2> QED
    BY <1>1, <1>2, <1>4, <2>1, <2>2 DEF Counting
<1>9. Knows'
  BY <1>1, <1>4, <1>8 DEF Knows, Working
<1> QED
  BY <1>7, <1>9 DEF RInv, Durable

LEMMA CountStep ==
    ASSUME IInv, RInv, CountEvidence
    PROVE  RInv'
<1>1. /\ pc \in Working /\ pending.stage = "controller_complete"
      /\ UNCHANGED <<ledger, rounds, receipts, called, torn, popLock, appends>>
      /\ pc' = "adapter"
  BY DEF CountEvidence, NeedsAdapter, RInv, Knows, bounds, Goto, Working
<1>2. ActivePending /\ IsPending(pending) /\ Receipted /\ pending.evidenceAttempts \in Nat
  BY <1>1, MarkIs
<1>3. pending' = [pending EXCEPT !.evidenceAttempts = @ + 1, !.error = FALSE]
  BY DEF CountEvidence
<1>4. /\ SameAttempt /\ pending'.stage = "controller_complete"
      /\ pending'.evidenceAttempts = pending.evidenceAttempts + 1
      /\ pending'.evidenceWall = pending.evidenceWall
  BY <1>1, <1>2, <1>3 DEF SameAttempt, IsPending, PendingFields
<1>5. Attempt(pending') = Attempt(pending)
  BY <1>4 DEF Attempt, SameAttempt
<1>6. Receipted'
  BY <1>1, <1>2, <1>4, <1>5 DEF Receipted
<1>7. Durable' /\ OperatorCounted'
  BY <1>1, <1>2, <1>4, <1>6, MarkStep DEF Stages
<1>8. pending.evidenceWall = (pending.evidenceAttempts + 1) * EvidenceTimeout
  <2>1. CASE pc = "counting"
    BY <2>1 DEF RInv, Knows, Counting, Working
  <2>2. CASE NeedsAdapter /\ pending.evidenceAttempts = 0
    BY <1>2, <2>2, Reservations DEF NeedsAdapter, RInv, Knows, Working
  <2> QED
    BY <2>1, <2>2 DEF CountEvidence
<1>9. Reserved'
  <2>1. \A a \in Nat : Max({1, a + 1}) = a + 1
    BY LargerOfOne
  <2> QED
    BY <1>2, <1>4, <1>8, <2>1 DEF Reserved
<1>10. Knows'
  BY <1>1, <1>2, <1>4, <1>9 DEF Knows, Working
<1> QED
  BY <1>7, <1>10 DEF RInv, Durable

\* A receipt is added.
LEMMA ReceiptStep ==
    ASSUME IInv, RInv, pc \in Working, pending.stage # "evidence_complete",
           UNCHANGED <<ledger, rounds, pending, called, torn, popLock, appends>>,
           Kept(receipts'.controller, receipts.controller),
           Kept(receipts'.evidence, receipts.evidence), Received',
           Attempt(pending) \in DOMAIN receipts'.evidence => pending.evidenceAttempts >= 1
    PROVE  Durable' /\ OperatorCounted'
<1>1. ActivePending /\ Receipted /\ pending.evidenceAttempts \in Nat
  BY MarkIs
<1>2. Grows
  <2>1. IsLedger(ledger) /\ Len(ledger) \in Nat /\ Len(rounds) \in Nat
    BY <1>1, RecordsAre
  <2> QED
    BY <2>1 DEF Grows, Extends
<1>3. Anchored'
  BY <1>1, <1>2, AnchorStays
<1>4. Receipted'
  BY <1>1 DEF Receipted, Attempt, Kept
<1>5. Untouched'
  BY <1>1 DEF Untouched, Undisturbed, RInv, Checkpointed
<1>6. Replayed'
  BY <1>2, RoundsStay DEF Replayed, RoundsReplay, RInv, IInv
<1>7. Grounded(ledger') /\ OperatorCounted'
  BY DEF RInv, OperatorCounted
<1> QED
  BY <1>3, <1>4, <1>5, <1>6, <1>7 DEF Durable, Checkpointed

LEMMA ControllerReturnsStep ==
    ASSUME IInv, RInv, NEW c \in Candidate, ControllerReturns(c)
    PROVE  RInv'
<1> DEFINE a == Attempt(pending)
<1>1. /\ pc \in Working /\ pending.stage = "controller_pending" /\ Reserved
      /\ UNCHANGED <<ledger, rounds, pending, called, torn, popLock, appends>>
      /\ pc' = "controller_receipt"
  BY DEF ControllerReturns, RInv, Knows, history, bounds, Goto, Working
<1>2. /\ receipts'.controller = Recorded(receipts.controller, a, c)
      /\ receipts'.evidence = receipts.evidence
  BY DEF ControllerReturns, IInv, Shape
<1> HIDE DEF a
<1>3. Received'
  <2>1. /\ DOMAIN receipts'.controller = DOMAIN receipts.controller \cup {a}
        /\ \A x \in DOMAIN receipts.controller : receipts'.controller[x] = receipts.controller[x]
        /\ receipts'.controller[a] = c \/ a \in DOMAIN receipts.controller
    BY <1>2 DEF Recorded
  <2> QED
    BY <1>1, <1>2, <2>1 DEF RInv, Received, Child
<1>4. a \in DOMAIN receipts'.evidence => pending.evidenceAttempts >= 1
  BY <1>1, <1>2, MarkIs DEF Receipted, a
<1>5. Kept(receipts'.controller, receipts.controller) /\ Kept(receipts'.evidence, receipts.evidence)
  BY <1>2 DEF Recorded, Kept
<1>6. Durable' /\ OperatorCounted'
  BY <1>1, <1>3, <1>4, <1>5, ReceiptStep DEF a
<1>7. Attempt(pending)' \in DOMAIN receipts'.controller
  BY <1>1, <1>2 DEF Recorded, a, Attempt
<1>8. Knows'
  BY <1>1, <1>7 DEF Knows, Working, Reserved
<1> QED
  BY <1>6, <1>8 DEF RInv, Durable

LEMMA AdapterReturnsStep ==
    ASSUME IInv, RInv, NEW ev \in Evidence, AdapterReturns(ev)
    PROVE  RInv'
<1> DEFINE a == Attempt(pending)
<1>1. /\ pc \in Working /\ pending.stage = "controller_complete" /\ Reserved
      /\ pending.evidenceAttempts >= 1
      /\ UNCHANGED <<ledger, rounds, pending, called, torn, popLock, appends>>
      /\ pc' = "evidence_receipt"
  BY DEF AdapterReturns, RInv, Knows, history, bounds, Goto, Working
<1>2. /\ receipts'.evidence = Recorded(receipts.evidence, a, ev)
      /\ receipts'.controller = receipts.controller
  BY DEF AdapterReturns, IInv, Shape
<1>3. a \in called
  BY <1>1 DEF IInv, Located
<1> HIDE DEF a
<1>4. Received'
  BY <1>1, <1>2, <1>3 DEF Recorded, RInv, Received, Child
<1>5. Kept(receipts'.controller, receipts.controller) /\ Kept(receipts'.evidence, receipts.evidence)
  BY <1>2 DEF Recorded, Kept
<1>6. Durable' /\ OperatorCounted'
  BY <1>1, <1>4, <1>5, ReceiptStep
<1>7. Attempt(pending)' \in DOMAIN receipts'.evidence
  BY <1>1, <1>2 DEF Recorded, a, Attempt
<1>8. Knows'
  BY <1>1, <1>7 DEF Knows, Working, Reserved
<1> QED
  BY <1>6, <1>8 DEF RInv, Durable

\* The first invocation publishes the ledger; later ones find it.
LEMMA InvokeStep ==
    ASSUME IInv, RInv, NEW m, Invoke(m)
    PROVE  RInv'
<1>1. /\ UNCHANGED <<rounds, pending, receipts, called, torn, popLock, appends>>
      /\ pc' = "verifying"
      /\ ledger' = IF ledger = << >> THEN InitialLedger ELSE ledger
  BY DEF Invoke, history, bounds
<1>2. pc' \in Idle
  BY <1>1 DEF Idle, States, Working
<1>3. CASE ledger # << >>
  BY <1>1, <1>2, <1>3, LeaveStep DEF Undisturbed
<1>4. CASE ledger = << >>
  <2>1. Grounded(ledger') /\ Len(ledger') = 3 /\ ledger' # << >>
    BY <1>1, <1>4, FirstLedger
  <2>2. ~ ActivePending
    BY <1>4, RecordsAre
  <2>3. Grows
    <3>1. Len(ledger) = 0 /\ Len(rounds) \in Nat /\ IsLedger(ledger')
      BY <1>4, <2>1 DEF IInv, Shape, Grounded
    <3> QED
      BY <1>1, <2>1, <3>1 DEF Grows, Extends, Kept
  <2>4. Replayed' /\ Received'
    BY <1>1, <2>3, RoundsStay DEF Replayed, RoundsReplay, RInv, IInv, Received, Child
  <2>5. ~ ActivePending'
    BY <1>1, <2>2 DEF ActivePending, CurrentRound
  <2>6. Knows' /\ OperatorCounted'
    BY <1>1, <1>2, <2>1, IdleKnows DEF RInv, OperatorCounted
  <2> QED
    BY <2>1, <2>4, <2>5, <2>6 DEF RInv, Checkpointed
<1> QED
  BY <1>3, <1>4

\* A record is appended, by the driver or beside it.
LEMMA AppendStep ==
    ASSUME IInv, RInv, NEW r, ledger' = Append(ledger, r), ledger # << >>,
           RecordValid(ledger, r),
           r.kind = "candidate" => r.cand \in Candidate,
           r.kind = "allocation" => r.draw.denominator \in Nat,
           UNCHANGED <<rounds, pending, receipts, called>>
    PROVE  /\ Grounded(ledger') /\ Grows /\ Replayed' /\ Received'
           /\ ActivePending' <=> ActivePending
           /\ ActivePending => Anchored' /\ Receipted'
           /\ Len(ledger) \in Nat /\ Len(ledger') = Len(ledger) + 1
<1>1. Grounded(ledger') /\ Extends(ledger', ledger)
  BY GroundedGrows DEF RInv
<1>2. Grows
  <2>1. Len(rounds) \in Nat
    BY DEF IInv, Shape
  <2> QED
    BY <1>1, <2>1 DEF Grows, Kept
<1>3. Replayed' /\ Received'
  BY <1>2, RoundsStay DEF Replayed, RoundsReplay, RInv, IInv, Received, Child
<1>4. ActivePending' <=> ActivePending
  BY DEF ActivePending, CurrentRound
<1>5. ActivePending => Anchored'
  BY <1>2, AnchorStays
<1>6. ActivePending => Receipted'
  BY DEF RInv, Checkpointed, Receipted, Reserved, Attempt
<1>7. Len(ledger) \in Nat /\ Len(ledger') = Len(ledger) + 1
  BY AppendIsLedger DEF RInv, Grounded
<1> QED
  BY <1>1, <1>2, <1>3, <1>4, <1>5, <1>6, <1>7

LEMMA OperatorAppendsStep ==
    ASSUME IInv, RInv, NEW r \in OperatorRecord, OperatorAppends(r)
    PROVE  RInv'
<1>1. /\ ledger' = Append(ledger, r) /\ RecordValid(ledger, r)
      /\ UNCHANGED <<rounds, pending, receipts, called, torn, appends, pc, seen>>
      /\ popLock = "operator" /\ popLock' = "free"
  BY DEF OperatorAppends, invocation, history, bounds
<1>2. ledger # << >> /\ appends \in Nat /\ appends # 0
  BY <1>1 DEF RInv, OperatorCounted
<1>3. /\ r.kind = "candidate" => r.cand \in Candidate
      /\ r.kind = "allocation" => r.draw.denominator \in Nat
  BY ValuesAssumption
<1>4. /\ Grounded(ledger') /\ Grows /\ Replayed' /\ Received'
      /\ ActivePending' <=> ActivePending
      /\ ActivePending => Anchored' /\ Receipted'
      /\ Len(ledger) \in Nat /\ Len(ledger') = Len(ledger) + 1
  BY <1>1, <1>2, <1>3, AppendStep
<1>5. ~ Undisturbed /\ ~ Undisturbed'
  BY <1>1, <1>2 DEF Undisturbed
<1>6. Checkpointed' /\ OperatorCounted'
  BY <1>1, <1>2, <1>4, <1>5 DEF Checkpointed, Untouched, OperatorCounted
<1>7. pc = "planning" => Planned'
  BY <1>1, <1>4, <1>5 DEF RInv, Knows, Planned, Reserved
<1>8. ASSUME pc = "commit" PROVE InTheLedger'
  <2>1. ActivePending /\ pending.stage = "evidence_complete"
    BY <1>8 DEF IInv, Located, Working
  <2>2. Attempt(pending) \in DOMAIN receipts.controller /\ Attempt(pending) \in DOMAIN receipts.evidence
    BY <2>1 DEF RInv, Checkpointed, Receipted
  <2>3. RecordsOf(pending, ledger)' = RecordsOf(pending, ledger)
    BY <1>1, <1>4, <2>1, <2>2, RecordsStay
  <2> DEFINE R == RecordsOf(pending, ledger)
             a == pending.start + 1
             b == pending.start + Len(R)
  <2>4. b <= Len(ledger) /\ SubSeq(ledger, a, b) = R
    BY <1>8 DEF RInv, Knows, InTheLedger
  <2>5. a \in Int /\ b \in Int /\ a >= 1
    <3>1. pending.start \in Nat /\ Len(R) \in Nat
      BY <2>1, RecordsAre
    <3> HIDE DEF R
    <3> QED
      BY <3>1
  <2> HIDE DEF R, a, b
  <2>6. \A i \in a..b : ledger'[i] = ledger[i]
    <3>1. \A i \in a..b : i \in 1..Len(ledger)
      BY <1>4, <2>4, <2>5
    <3> QED
      BY <1>4, <3>1 DEF Grows, Extends
  <2>7. SubSeq(ledger', a, b) = SubSeq(ledger, a, b)
    BY <2>5, <2>6, SameSlice
  <2>8. b <= Len(ledger')
    BY <1>4, <2>4, <2>5
  <2> QED
    BY <1>1, <2>3, <2>4, <2>7, <2>8 DEF InTheLedger, R, a, b
<1>9. pc # "ingesting"
  BY <1>1 DEF RInv, Knows
<1>10. Knows'
  BY <1>1, <1>7, <1>8, <1>9 DEF RInv, Knows, Counting, Reserved, Attempt
<1> QED
  BY <1>4, <1>6, <1>10 DEF RInv

LEMMA IngestRecordStep ==
    ASSUME IInv, RInv, IngestRecord
    PROVE  RInv'
<1> DEFINE R == RecordsOf(pending, ledger)
           s == pending.start
           r == R[Ingested + 1]
<1>1. /\ pc = "ingesting" /\ ~ Complete
      /\ UNCHANGED <<rounds, pending, receipts, called, torn, appends>>
      /\ IF RecordValid(ledger, r)
           THEN ledger' = Append(ledger, r) /\ UNCHANGED <<popLock, pc, seen>>
           ELSE ledger' = ledger /\ popLock' = "free" /\ pc' = "off"
  BY DEF IngestRecord, history, bounds, invocation, Exit
<1>2. /\ ActivePending /\ pending.stage = "evidence_complete" /\ Reserved
      /\ popLock = "driver" /\ OwnsTail(pending, ledger)
  BY <1>1 DEF IInv, Located, Working, RInv, Knows
<1>3. Attempt(pending) \in DOMAIN receipts.controller /\ Attempt(pending) \in DOMAIN receipts.evidence
  BY <1>2 DEF RInv, Checkpointed, Receipted
<1>4. /\ IsLedger(ledger) /\ ledger # << >> /\ s \in Nat /\ s <= Len(ledger) /\ IsLedger(R)
      /\ \A i \in 1..Len(R) : OfRound(R[i], pending.round, Child(Attempt(pending)))
  BY <1>2, RecordsAre
<1>5. IsPrefix(Suffix(ledger, s), R) /\ Len(ledger) - s # Len(R)
  BY <1>1, <1>2 DEF OwnsTail, Complete, Ingested
<1>6. r = R[Len(ledger) - s + 1]
  BY DEF Ingested
<1> HIDE DEF R, s, r
<1>7. CASE ~ RecordValid(ledger, r)
  <2>1. pc' \in Idle
    BY <1>1, <1>7 DEF Idle, States, Working
  <2> QED
    BY <1>1, <1>7, <2>1, LeaveStep DEF Undisturbed
<1>8. CASE RecordValid(ledger, r)
  <2>1. /\ Len(ledger) - s + 1 \in 1..Len(R)
        /\ IsPrefix(Suffix(Append(ledger, R[Len(ledger) - s + 1]), s), R)
    BY <1>4, <1>5, LongerTail
  <2>2. IsPrefix(Suffix(ledger', s), R) /\ OfRound(r, pending.round, Child(Attempt(pending)))
    BY <1>1, <1>4, <1>6, <1>8, <2>1
  <2>3. /\ r.kind = "candidate" => r.cand \in Candidate
        /\ r.kind = "allocation" => r.draw.denominator \in Nat
    BY <1>3, <2>2, ValuesAssumption DEF OfRound, RInv, Received
  <2>4. /\ Grounded(ledger') /\ Grows /\ Replayed' /\ Received'
        /\ ActivePending' <=> ActivePending
        /\ ActivePending => Anchored' /\ Receipted'
        /\ Len(ledger) \in Nat /\ Len(ledger') = Len(ledger) + 1
    BY <1>1, <1>4, <1>8, <2>3, AppendStep
  <2>5. RecordsOf(pending, ledger)' = R
    BY <1>1, <1>2, <1>3, <2>4, RecordsStay DEF R
  <2>6. OwnsTail(pending, ledger)'
    BY <1>1, <1>4, <2>2, <2>4, <2>5 DEF OwnsTail, s
  <2>7. Checkpointed'
    BY <1>1, <1>2, <2>4, <2>6 DEF Checkpointed, Untouched
  <2>8. Knows' /\ OperatorCounted'
    BY <1>1, <1>2, <1>8, <2>6 DEF Knows, Working, Reserved, RInv, OperatorCounted
  <2> QED
    BY <2>4, <2>7, <2>8 DEF RInv
<1> QED
  BY <1>7, <1>8

LEMMA ClearingSteps ==
    ASSUME IInv, RInv, ClearCommitted \/ RemovePending
    PROVE  RInv'
<1>1. /\ UNCHANGED <<ledger, rounds, receipts, called, torn, popLock, appends>>
      /\ pending' = NoPending /\ pc' = "verifying"
  BY DEF ClearCommitted, RemovePending, history, bounds, Goto
<1>2. pc' \in Idle /\ ~ ActivePending'
  BY <1>1 DEF Idle, States, Working, ActivePending, NoPending
<1>3. Replayed'
  BY <1>1, StillGrows, RoundsStay DEF Replayed, RoundsReplay, RInv, IInv
<1>4. Grounded(ledger') /\ Received' /\ OperatorCounted'
  BY <1>1 DEF RInv, Received, Child, OperatorCounted
<1> QED
  BY <1>2, <1>3, <1>4, IdleKnows DEF RInv, Checkpointed

\* The planner starts a round at the end of the ledger it knows.
LEMMA StartStep ==
    ASSUME IInv, RInv, IInv', StartPending
    PROVE  RInv'
<1>1. /\ UNCHANGED <<ledger, rounds, receipts, called, torn, popLock, appends>>
      /\ pc' = "verifying" /\ allow' = TRUE /\ pc = "planning" /\ pending = NoPending
      /\ PlanStatus(Snapshot) = "none"
  BY DEF StartPending, Planning, history, bounds, Goto
<1>2. PICK n \in 1..(Len(rounds) + 1) : n = CurrentRound
  BY DEF IInv, Shape, CurrentRound
<1>3. /\ pending'.stage = "controller_pending" /\ pending'.round = n
      /\ pending'.parent = ExpectedParent(n) /\ pending'.allocation = ExpectedAllocation(n)
      /\ pending'.start = seen /\ pending'.evidenceAttempts = 0
  BY <1>2 DEF StartPending
<1>4. /\ seen \in Nat /\ seen <= Len(ledger) /\ (Undisturbed => seen = Len(ledger))
  BY <1>1 DEF RInv, Knows, Planned
<1>5. Len(Snapshot) = seen
  <2>1. \A k \in Nat : Len(SubSeq(ledger, 1, k)) = IF 1 <= k THEN k - 1 + 1 ELSE 0
    BY SliceIsLedger
  <2>2. \A k \in Nat : (IF 1 <= k THEN k - 1 + 1 ELSE 0) = k
    OBVIOUS
  <2> QED
    BY <1>4, <2>1, <2>2 DEF Snapshot
<1>6. seen = ExpectedStart(n) /\ ExpectedParent(n) # NoCandidate
  BY <1>1, <1>2, <1>5 DEF PlanStatus, StopStatus
<1>7. ExpectedStart(n) \in Nat /\ ExpectedStart(n) >= 3
  BY CursorIs DEF IInv, RInv
<1>8. ledger # << >>
  BY <1>4, <1>6, <1>7
<1>9. n = 1 \/ ExpectedAllocation(n) # NoRecord
  BY <1>6 DEF ExpectedParent, ExpectedAllocation
<1>10. ExpectedParent(n) \in Candidates(ledger)
  BY <1>8, <1>9, CursorIs DEF IInv, RInv
<1>11. Anchored'
  BY <1>1, <1>3, <1>4, <1>6, <1>10
     DEF Anchored, ExpectedStart, ExpectedAllocation, ExpectedParent
<1>12. ActivePending'
  BY <1>1, <1>2, <1>3 DEF ActivePending, CurrentRound, NoPending
<1>13. Attempt(pending)' \notin DOMAIN receipts'.evidence
  <2>1. Attempt(pending)' \notin called'
    BY <1>1, <1>3, <1>12 DEF IInv, Fresh
  <2> QED
    BY <1>1, <2>1 DEF RInv, Received
<1>14. Receipted' /\ Untouched'
  BY <1>1, <1>3, <1>4, <1>13 DEF Receipted, Untouched, Undisturbed
<1>15. Replayed'
  BY <1>1, StillGrows, RoundsStay DEF Replayed, RoundsReplay, RInv, IInv
<1>16. Grounded(ledger') /\ Received' /\ OperatorCounted'
  BY <1>1 DEF RInv, Received, Child, OperatorCounted
<1>17. Knows'
  BY <1>1, IdleKnows DEF Idle, States, Working
<1> QED
  BY <1>11, <1>14, <1>15, <1>16, <1>17 DEF RInv, Checkpointed

\* One more attempt of the same round, which has no receipt yet.
LEMMA RetryStep ==
    ASSUME IInv, RInv, IInv', Retry, RetryAllowed
    PROVE  RInv'
<1>1. /\ UNCHANGED <<ledger, rounds, receipts, called, torn, popLock, appends>>
      /\ pc' = "verifying" /\ allow' = TRUE
      /\ pending' = [pending EXCEPT !.attempts = @ + 1, !.error = FALSE]
      /\ ActivePending /\ pending.stage = "controller_pending"
  BY DEF Retry, RetryAllowed, history, bounds
<1>2. IsPending(pending) /\ Receipted
  BY <1>1, RecordsAre DEF RInv, Checkpointed
<1>3. /\ pending'.stage = "controller_pending" /\ pending'.round = pending.round
      /\ pending'.parent = pending.parent /\ pending'.allocation = pending.allocation
      /\ pending'.start = pending.start /\ pending'.evidenceAttempts = pending.evidenceAttempts
  BY <1>1, <1>2 DEF IsPending, PendingFields
<1>4. Grows
  BY <1>1, StillGrows
<1>5. Anchored'
  BY <1>1, <1>3, <1>4, AnchorStays
<1>6. ActivePending'
  BY <1>1, <1>3 DEF ActivePending, CurrentRound, NoPending
<1>7. Attempt(pending)' \notin DOMAIN receipts'.evidence
  <2>1. Attempt(pending)' \notin called'
    BY <1>1, <1>3, <1>6 DEF IInv, Fresh
  <2> QED
    BY <1>1, <2>1 DEF RInv, Received
<1>8. Receipted' /\ Untouched'
  <2>1. Receipted'
    BY <1>2, <1>3, <1>7 DEF Receipted
  <2>2. Undisturbed => Len(ledger) = pending.start
    BY <1>1 DEF Untouched, RInv, Checkpointed
  <2>3. Undisturbed' => Undisturbed
    BY <1>1 DEF Undisturbed
  <2> QED
    BY <1>1, <1>3, <2>1, <2>2, <2>3 DEF Untouched
<1>9. Replayed'
  BY <1>1, <1>4, RoundsStay DEF Replayed, RoundsReplay, RInv, IInv
<1>10. Grounded(ledger') /\ Received' /\ OperatorCounted'
  BY <1>1 DEF RInv, Received, Child, OperatorCounted
<1>11. Knows'
  BY <1>1, IdleKnows DEF Idle, States, Working
<1> QED
  BY <1>5, <1>8, <1>9, <1>10, <1>11 DEF RInv, Checkpointed

\* The driver record says what the round did.
LEMMA CommitReplays ==
    ASSUME IInv, RInv, Commit
    PROVE  RInv'
<1> DEFINE R == RecordsOf(pending, ledger)
           head == pending.start + Len(R)
           allocated == ledger[head].kind = "allocation"
           a == Attempt(pending)
           r == [round |-> pending.round,
                 parent |-> pending.parent,
                 parentAllocation |-> pending.allocation,
                 child |-> Child(a),
                 attempts |-> pending.attempts,
                 evidenceAttempts |-> pending.evidenceAttempts,
                 evidenceWall |-> pending.evidenceWall,
                 head |-> head,
                 allocation |-> IF allocated THEN head ELSE NoRecord,
                 members |-> DOMAIN ledger[IF allocated THEN head - 1 ELSE head].members]
<1>1. /\ UNCHANGED <<ledger, pending, receipts, called, torn, popLock, appends>>
      /\ pc' = "remove" /\ rounds' = Append(rounds, r)
  BY DEF Commit, history, bounds, Goto
<1>2. ActivePending /\ pending.stage = "evidence_complete" /\ Reserved /\ InTheLedger
  BY DEF Commit, IInv, Located, RInv, Knows, Working
<1>3. /\ pending.round = Len(rounds) + 1 /\ Len(rounds) \in Nat /\ IsPending(pending)
      /\ pending.start \in Nat /\ pending.start >= 3
      /\ IsLedger(ledger) /\ Len(ledger) \in Nat /\ Len(R) \in Nat
  BY <1>2, RecordsAre
<1>4. Anchored /\ Receipted
  BY <1>2 DEF RInv, Checkpointed
<1>5. /\ pending.evidenceAttempts \in Nat /\ pending.evidenceAttempts >= 1
      /\ a \in DOMAIN receipts.controller /\ a \in DOMAIN receipts.evidence
  BY <1>2, <1>4 DEF Receipted
<1>6. pending.evidenceWall = pending.evidenceAttempts * EvidenceTimeout
  BY <1>2, <1>5, Reservations
<1>7. head \in Nat /\ head >= 3
  <2> HIDE DEF R
  <2> QED
    BY <1>3
<1>8. head <= Len(ledger) /\ SubSeq(ledger, pending.start + 1, head) = R
  BY <1>2 DEF InTheLedger
<1>9. R = RoundRecords(SubSeq(ledger, 1, pending.start), pending.round, pending.parent, Child(a),
                       receipts.evidence[a])
  BY DEF RecordsOf
<1> HIDE DEF R
<1>10. /\ r.round = pending.round /\ r.parent = pending.parent
       /\ r.parentAllocation = pending.allocation /\ r.child = Child(a)
       /\ r.attempts = pending.attempts /\ r.evidenceAttempts = pending.evidenceAttempts
       /\ r.evidenceWall = pending.evidenceWall /\ r.head = head
       /\ r.allocation = (IF ledger[head].kind = "allocation" THEN head ELSE NoRecord)
       /\ r.members = DOMAIN ledger[IF ledger[head].kind = "allocation" THEN head - 1 ELSE head].members
  OBVIOUS
<1>11. Attempt(r) = a
  BY <1>10 DEF Attempt
<1> HIDE DEF r, head, a
<1>12. /\ IsLedger(rounds') /\ Len(rounds') = Len(rounds) + 1
       /\ rounds'[Len(rounds) + 1] = r
       /\ \A i \in 1..Len(rounds) : rounds'[i] = rounds[i]
  BY <1>1, AppendIsLedger DEF IInv, Shape
<1>13. Grows
  <2>1. Extends(ledger', ledger)
    BY <1>1, <1>3 DEF Extends
  <2> QED
    BY <1>1, <1>3, <1>12, <2>1 DEF Grows, Kept
<1>14. PICK N \in 1..(Len(rounds) + 1) : N = Len(rounds) + 1
  BY <1>3
<1>15. /\ ExpectedStart(N)' = pending.start /\ ExpectedAllocation(N)' = pending.allocation
       /\ ExpectedParent(N)' = pending.parent
  <2>1. /\ pending.start = ExpectedStart(N) /\ pending.allocation = ExpectedAllocation(N)
        /\ pending.parent = ExpectedParent(N)
    BY <1>3, <1>4, <1>14 DEF Anchored
  <2> QED
    BY <1>13, <2>1, CursorStays DEF IInv, RInv
<1>16. rounds'[N] = r
  BY <1>12, <1>14
<1>17. RoundReplays(ledger, N)'
  <2>1. /\ r.round = N /\ r.parent \in Candidates(ledger)
        /\ r.attempts >= 1 /\ r.evidenceAttempts >= 1
        /\ r.evidenceWall = r.evidenceAttempts * EvidenceTimeout
    BY <1>3, <1>4, <1>5, <1>6, <1>10, <1>14 DEF Anchored, IsPending
  <2>2. /\ r.child = receipts.controller[a]
        /\ SubSeq(ledger, pending.start + 1, r.head) =
               RoundRecords(SubSeq(ledger, 1, pending.start), N, r.parent, r.child,
                            receipts.evidence[a])
    BY <1>3, <1>8, <1>9, <1>10, <1>14 DEF Child
  <2>3. r.members = DOMAIN (IF ledger[r.head].kind = "allocation"
                              THEN ledger[r.head - 1] ELSE ledger[r.head]).members
    BY <1>10
  <2>4. r.head <= Len(ledger)
    BY <1>8, <1>10
  <2>5. r.allocation = (IF ledger[r.head].kind = "allocation" THEN r.head ELSE NoRecord)
    BY <1>10
  <2>6. r.parent = pending.parent /\ r.parentAllocation = pending.allocation
    BY <1>10
  <2> QED
    BY <1>1, <1>5, <1>11, <1>15, <1>16, <2>1, <2>2, <2>3, <2>4, <2>5, <2>6
       DEF RoundReplays, OneExactSuffix, Child, Attempt
<1>18. Replayed'
  <2>1. ASSUME NEW n \in 1..Len(rounds')
        PROVE  rounds'[n].head \in Nat /\ rounds'[n].head >= 3 /\ RoundReplays(ledger, n)'
    <3>1. CASE n = N
      BY <1>7, <1>10, <1>16, <1>17, <3>1
    <3>2. CASE n # N
      <4>1. n \in 1..Len(rounds)
        BY <1>3, <1>12, <1>14, <3>2
      <4> QED
        BY <1>12, <1>13, <4>1, RoundsStay, FirstLedger DEF Replayed, RInv, IInv
    <3> QED
      BY <3>1, <3>2
  <2> QED
    BY <2>1, FirstLedger DEF Replayed, RoundsReplay
<1>19. ~ ActivePending'
  BY <1>1, <1>3, <1>12 DEF ActivePending, CurrentRound
<1>20. Grounded(ledger') /\ Received' /\ OperatorCounted'
  BY <1>1 DEF RInv, Received, Child, OperatorCounted
<1>21. Knows'
  BY <1>1, IdleKnows DEF Idle, States, Working
<1> QED
  BY <1>18, <1>19, <1>20, <1>21 DEF RInv, Checkpointed

----------------------------------------------------------------------------

LEMMA InitReplays == Init => RInv
<1> SUFFICES ASSUME Init PROVE RInv
  OBVIOUS
<1>1. Grounded(ledger)
  <2>1. IsLedger(ledger) /\ DOMAIN ledger = {}
    BY EmptyIsLedger DEF Init
  <2>2. \A kind : Indices(ledger, kind) = {}
    BY <2>1 DEF Indices
  <2> QED
    BY <2>1, <2>2 DEF Init, Grounded
<1>2. Replayed
  BY DEF Init, Replayed, RoundsReplay
<1>3. Received /\ Checkpointed /\ Knows /\ OperatorCounted
  BY DEF Init, Received, Checkpointed, ActivePending, Knows, Working, OperatorCounted
<1> QED
  BY <1>1, <1>2, <1>3 DEF RInv

LEMMA StepReplays == IInv /\ RInv /\ IInv' /\ [Next]_vars => RInv'
<1> SUFFICES ASSUME IInv, RInv, IInv', [Next]_vars PROVE RInv'
  OBVIOUS
<1>1. CASE UNCHANGED vars
  <2>1. UNCHANGED <<ledger, rounds, pending, receipts, called, pc, seen, torn, popLock, appends>>
    BY <1>1 DEF vars
  <2>2. OperatorCounted'
    BY <2>1 DEF RInv, OperatorCounted
  <2> QED
    BY <2>1, <2>2, BesideStep DEF Undisturbed
<1>2. CASE \E m \in Modes : Invoke(m)
  BY <1>2, InvokeStep
<1>3. CASE Planner
  BY <1>3, VerifySteps, ClearingSteps, LeavingSteps, StartStep, RetryStep DEF Planner
<1>4. CASE Controller
  BY <1>4, ReachingSteps, ControllerMarks, LeavingSteps, ControllerReturnsStep DEF Controller
<1>5. CASE Adapter
  BY <1>5, ReachingSteps, EvidenceMarks, FailureMarks, ReserveStep, CountStep, AdapterReturnsStep
     DEF Adapter
<1>6. CASE Ingestion
  BY <1>6, ReachingSteps, IngestingSteps, IngestRecordStep, CommitReplays, ClearingSteps
     DEF Ingestion
<1>7. CASE ControllerFails \/ AdapterFails
  BY <1>7, FailureMarks
<1>8. CASE Crash
  BY <1>8, CrashStep
<1>9. CASE RemoveAbandonedLocks \/ OperatorBegins \/ OperatorGivesUp \/ OperatorDies
  BY <1>9, BesideSteps
<1>10. CASE \E r \in OperatorRecord : OperatorAppends(r)
  BY <1>10, OperatorAppendsStep
<1> QED
  BY <1>1, <1>2, <1>3, <1>4, <1>5, <1>6, <1>7, <1>8, <1>9, <1>10 DEF Next, Driver

\* What the next invocation reads is what verify_context accepts.
LEMMA ReplaysWhatIsThere == IInv /\ RInv => StateReplays
<1> SUFFICES ASSUME IInv, RInv PROVE StateReplays
  OBVIOUS
<1>1. RoundsReplay
  BY DEF RInv, Replayed
<1>2. ASSUME Undisturbed, ~ ReservationGap, ActivePending
      PROVE  PendingValid(ledger)
  <2>1. Anchored /\ Receipted /\ Untouched
    BY <1>2 DEF RInv, Checkpointed
  <2>2. IsPending(pending) /\ Len(ledger) \in Nat /\ pending.start \in Nat
    BY <1>2, RecordsAre
  <2>3. Reserved
    BY <1>2 DEF ReservationGap, Reserved
  <2>4. pending.attempts >= 1 /\ pending.evidenceAttempts \in Nat
    BY <2>1, <2>2 DEF IsPending, Receipted
  <2>5. pending.stage # "evidence_complete" => Len(ledger) = pending.start
    BY <1>2, <2>1 DEF Untouched
  <2>6. pending.stage = "evidence_complete" => OwnsTail(pending, ledger)
    BY <1>2, <2>1 DEF Untouched
  <2> QED
    BY <2>1, <2>3, <2>4, <2>5, <2>6 DEF PendingValid, Anchored, Receipted, Reserved
<1>3. pending # NoPending => CommittedPending \/ ActivePending
  BY DEF IInv, Placed, CommittedPending, ActivePending, CurrentRound
<1>4. ResumableOutsideGap
  BY <1>1, <1>2, <1>3 DEF ResumableOutsideGap, Verifiable, RoundsReplay
<1> QED
  BY <1>1, <1>4 DEF StateReplays

\* Every committed round replays for good, from the ledger before it, its receipts
\* and the configuration, and what an invocation leaves behind at any step is
\* accepted by verify_context of the next one, unless the operator appended, a
\* line is torn or the death fell between the two checkpoints of
\* run_evidence_adapter (_replay_rounds, _verify_pending).
THEOREM DurableStateReplays == Spec => []StateReplays
<1>1. Init => RInv
  BY InitReplays
<1>2. IInv /\ RInv /\ IInv' /\ [Next]_vars => RInv'
  BY StepReplays
<1>3. IInv /\ RInv => StateReplays
  BY ReplaysWhatIsThere
<1> QED
  BY <1>1, <1>2, <1>3, InductiveInvariant, PTL DEF Spec
----------------------------------------------------------------------------
\* The limits.  What the cursor adds up, first: a sum of natural weights is the
\* size of a set that holds w[x] copies of each x, so that sums obey the laws of
\* cardinality; a fold has no other value, by a least counterexample.

Block(w, x) == {x} \X (1..w[x])
Blocks(w, s) == UNION {Block(w, x) : x \in s}
Total(w, s) == Cardinality(Blocks(w, s))

LEMMA BlockSize ==
    ASSUME NEW w, NEW x, w[x] \in Nat
    PROVE  IsFiniteSet(Block(w, x)) /\ Cardinality(Block(w, x)) = w[x]
<1>1. IsFiniteSet({x}) /\ Cardinality({x}) = 1
  BY FS_Singleton
<1>2. IsFiniteSet(1..w[x]) /\ Cardinality(1..w[x]) = w[x]
  <2> DEFINE n == w[x]
  <2>1. n \in Nat
    OBVIOUS
  <2> HIDE DEF n
  <2>2. IsFiniteSet(1..n) /\ Cardinality(1..n) = IF 1 > n THEN 0 ELSE n - 1 + 1
    <3>1. 1 \in Int /\ n \in Int
      BY <2>1
    <3> QED
      BY <3>1, FS_Interval
  <2>3. Cardinality(1..n) = n
    BY <2>1, <2>2
  <2> QED
    BY <2>2, <2>3 DEF n
<1>3. /\ IsFiniteSet({x} \X (1..w[x]))
      /\ Cardinality({x} \X (1..w[x])) = Cardinality({x}) * Cardinality(1..w[x])
  BY <1>1, <1>2, FS_Product
<1> QED
  BY <1>1, <1>2, <1>3 DEF Block

LEMMA BlocksAreFinite ==
    ASSUME NEW w, NEW s, IsFiniteSet(s), \A x \in s : w[x] \in Nat
    PROVE  IsFiniteSet(Blocks(w, s))
<1> DEFINE T == {Block(w, x) : x \in s}
           f == [x \in s |-> Block(w, x)]
<1>1. f \in Surjection(s, T)
  BY DEF Surjection
<1>2. IsFiniteSet(T)
  BY <1>1, FS_Surjection
<1>3. \A b \in T : IsFiniteSet(b)
  BY BlockSize
<1> QED
  BY <1>2, <1>3, FS_UNION DEF Blocks

LEMMA EmptyTotal == \A w : Total(w, {}) = 0
<1>1. \A w : Blocks(w, {}) = {}
  BY DEF Blocks
<1> QED
  BY <1>1, FS_EmptySet DEF Total

\* One member more adds its weight.
LEMMA TotalSplits ==
    ASSUME NEW w, NEW s, IsFiniteSet(s), \A x \in s : w[x] \in Nat, NEW x \in s
    PROVE  Total(w, s) = w[x] + Total(w, s \ {x}) /\ Total(w, s) \in Nat
<1> DEFINE b == Block(w, x)
           r == Blocks(w, s \ {x})
<1>1. IsFiniteSet(b) /\ Cardinality(b) = w[x]
  BY BlockSize
<1>2. IsFiniteSet(s \ {x}) /\ IsFiniteSet(r)
  BY FS_RemoveElement, BlocksAreFinite
<1>3. Blocks(w, s) = b \cup r
  BY DEF Blocks
<1>4. b \cap r = {}
  BY DEF Block, Blocks
<1> HIDE DEF b, r
<1>5. Cardinality(b \cup r) = Cardinality(b) + Cardinality(r) - Cardinality({})
  <2>1. Cardinality(b \cup r) = Cardinality(b) + Cardinality(r) - Cardinality(b \cap r)
    BY <1>1, <1>2, FS_Union
  <2> QED
    BY <1>4, <2>1
<1>6. Cardinality({}) = 0 /\ Cardinality(r) \in Nat
  BY <1>2, FS_EmptySet, FS_CardinalityType
<1>7. Cardinality(b \cup r) = w[x] + Cardinality(r) /\ w[x] + Cardinality(r) \in Nat
  BY <1>1, <1>5, <1>6
<1> QED
  BY <1>3, <1>7 DEF Total, r

LEMMA SameTotal ==
    ASSUME NEW w, NEW v, NEW s, \A x \in s : w[x] = v[x]
    PROVE  Total(w, s) = Total(v, s)
<1>1. Blocks(w, s) = Blocks(v, s)
  BY DEF Blocks, Block
<1> QED
  BY <1>1 DEF Total

\* The equation of a fold that adds up weights, in the order of CHOOSE.
Adds(g, w, S) ==
    g = [s \in SUBSET S |->
            IF s = {} THEN 0 ELSE w[CHOOSE x \in s : TRUE] + g[s \ {CHOOSE x \in s : TRUE}]]

LEMMA SomeAdds ==
    ASSUME NEW S, IsFiniteSet(S), NEW w, \A x \in S : w[x] \in Nat
    PROVE  Adds([s \in SUBSET S |-> Total(w, s)], w, S)
<1> DEFINE g == [s \in SUBSET S |-> Total(w, s)]
<1>1. ASSUME NEW s \in SUBSET S
      PROVE  g[s] = IF s = {} THEN 0
                    ELSE w[CHOOSE x \in s : TRUE] + g[s \ {CHOOSE x \in s : TRUE}]
  <2>1. CASE s = {}
    BY <2>1, EmptyTotal
  <2>2. CASE s # {}
    <3> DEFINE c == CHOOSE x \in s : TRUE
    <3>1. c \in s /\ IsFiniteSet(s)
      BY <2>2, FS_Subset
    <3> HIDE DEF c
    <3>2. Total(w, s) = w[c] + Total(w, s \ {c})
      BY <3>1, TotalSplits
    <3>3. g[s] = w[c] + g[s \ {c}]
      BY <3>2
    <3> QED
      BY <2>2, <3>3 DEF c
  <2> QED
    BY <2>1, <2>2
<1> QED
  BY <1>1 DEF Adds

LEMMA WhatAdds ==
    ASSUME NEW S, IsFiniteSet(S), NEW w, \A x \in S : w[x] \in Nat, NEW g, Adds(g, w, S)
    PROVE  g[S] = Total(w, S)
<1> DEFINE D == {s \in SUBSET S : g[s] # Total(w, s)}
<1>1. SUFFICES ASSUME D # {} PROVE FALSE
  OBVIOUS
<1>2. IsWellFoundedOn(StrictSubsetOrdering(S), FiniteSubsetsOf(S)) /\ FiniteSubsetsOf(S) = SUBSET S
  BY FS_StrictSubsetOrderingWellFounded, FS_FiniteSubsetsOfFinite
<1>3. PICK s \in D : \A t \in D : ~ (<<t, s>> \in StrictSubsetOrdering(S))
  <2>1. D \subseteq FiniteSubsetsOf(S) /\ D # {}
    BY <1>1, <1>2
  <2> HIDE DEF D
  <2> QED
    BY <1>2, <2>1, WFMin
<1>4. s # {}
  BY <1>3, EmptyTotal DEF Adds
<1> DEFINE c == CHOOSE x \in s : TRUE
           t == s \ {c}
<1>5. c \in s /\ IsFiniteSet(s)
  BY <1>4, FS_Subset
<1>6. g[s] = w[c] + g[t]
  BY <1>4 DEF Adds
<1> HIDE DEF c
<1>7. <<t, s>> \in StrictSubsetOrdering(S)
  BY <1>5 DEF StrictSubsetOrdering
<1>8. g[t] = Total(w, t)
  BY <1>3, <1>7
<1>9. Total(w, s) = w[c] + Total(w, t)
  BY <1>5, TotalSplits
<1> QED
  BY <1>6, <1>8, <1>9

\* The sums of the cursor, over any set of rounds.
CallsOf(S) == MapThenSumSet(LAMBDA r : r.attempts, S)
WallOf(S) == MapThenSumSet(LAMBDA r : r.attempts * ControllerTimeout + r.evidenceWall, S)

LEMMA CallsAre ==
    ASSUME NEW S, IsFiniteSet(S), \A r \in S : r.attempts \in Nat
    PROVE  CallsOf(S) = Total([r \in S |-> r.attempts], S)
<1> DEFINE w == [r \in S |-> r.attempts]
           Sums(g) ==
               g = [s \in SUBSET S |->
                       IF s = {} THEN 0
                       ELSE (CHOOSE x \in s : TRUE).attempts + g[s \ {CHOOSE x \in s : TRUE}]]
           sum == CHOOSE g : Sums(g)
<1>1. \A x \in S : w[x] \in Nat
  OBVIOUS
<1>2. \A g : Sums(g) <=> Adds(g, w, S)
  BY DEF Adds
<1>3. Adds(sum, w, S)
  BY <1>1, <1>2, SomeAdds
<1>4. sum[S] = Total(w, S)
  BY <1>1, <1>3, WhatAdds
<1>5. CallsOf(S) = sum[S]
  BY DEF CallsOf, MapThenSumSet, MapThenFoldSet
<1> QED
  BY <1>4, <1>5

LEMMA WallIs ==
    ASSUME NEW S, IsFiniteSet(S),
           \A r \in S : r.attempts * ControllerTimeout + r.evidenceWall \in Nat
    PROVE  WallOf(S) = Total([r \in S |-> r.attempts * ControllerTimeout + r.evidenceWall], S)
<1> DEFINE w == [r \in S |-> r.attempts * ControllerTimeout + r.evidenceWall]
           Sums(g) ==
               g = [s \in SUBSET S |->
                       IF s = {} THEN 0
                       ELSE ((CHOOSE x \in s : TRUE).attempts * ControllerTimeout
                                 + (CHOOSE x \in s : TRUE).evidenceWall)
                                + g[s \ {CHOOSE x \in s : TRUE}]]
           sum == CHOOSE g : Sums(g)
<1>1. \A x \in S : w[x] \in Nat
  OBVIOUS
<1>2. \A g : Sums(g) <=> Adds(g, w, S)
  BY DEF Adds
<1>3. Adds(sum, w, S)
  BY <1>1, <1>2, SomeAdds
<1>4. sum[S] = Total(w, S)
  BY <1>1, <1>3, WhatAdds
<1>5. WallOf(S) = sum[S]
  BY DEF WallOf, MapThenSumSet, MapThenFoldSet
<1> QED
  BY <1>4, <1>5

\* One round more adds what it spent.
LEMMA OneRoundMore ==
    ASSUME NEW S, IsFiniteSet(S),
           \A r \in S : r.attempts \in Nat /\ r.evidenceWall \in Nat,
           NEW x, x \notin S, x.attempts \in Nat, x.evidenceWall \in Nat
    PROVE  /\ CallsOf(S \cup {x}) = CallsOf(S) + x.attempts
           /\ WallOf(S \cup {x}) = WallOf(S) + (x.attempts * ControllerTimeout + x.evidenceWall)
           /\ CallsOf(S) \in Nat /\ WallOf(S) \in Nat
<1> DEFINE T == S \cup {x}
           Wall(r) == r.attempts * ControllerTimeout + r.evidenceWall
<1>1. IsFiniteSet(T) /\ T \ {x} = S /\ x \in T
  BY FS_AddElement
<1>2. \A r \in T : r.attempts \in Nat /\ Wall(r) \in Nat
  <2>1. \A a, b \in Nat : a * ControllerTimeout + b \in Nat
    BY LimitsAssumption
  <2> QED
    BY <2>1
<1> HIDE DEF T, Wall
<1>3. ASSUME NEW w \in [T -> Nat], NEW v \in [S -> Nat], \A r \in S : w[r] = v[r]
      PROVE  Total(w, T) = Total(v, S) + w[x] /\ Total(v, S) \in Nat
  <2>1. \A r \in T : w[r] \in Nat
    OBVIOUS
  <2>2. Total(w, T) = w[x] + Total(w, T \ {x})
    BY <1>1, <2>1, TotalSplits
  <2>3. Total(w, S) = Total(v, S)
    BY <1>3, SameTotal
  <2>4. Total(v, S) \in Nat
    BY BlocksAreFinite, FS_CardinalityType DEF Total
  <2>5. w[x] \in Nat
    BY <1>1
  <2>6. Total(w, T) = w[x] + Total(v, S)
    BY <1>1, <2>2, <2>3
  <2> QED
    BY <2>4, <2>5, <2>6
<1>4. CallsOf(T) = CallsOf(S) + x.attempts /\ CallsOf(S) \in Nat
  <2> DEFINE w == [r \in T |-> r.attempts]
             v == [r \in S |-> r.attempts]
  <2>1. w \in [T -> Nat] /\ v \in [S -> Nat] /\ (\A r \in S : w[r] = v[r]) /\ w[x] = x.attempts
    BY <1>1, <1>2
  <2>2. CallsOf(T) = Total(w, T) /\ CallsOf(S) = Total(v, S)
    BY <1>1, <1>2, CallsAre
  <2> HIDE DEF w, v
  <2> QED
    BY <1>3, <2>1, <2>2
<1>5. WallOf(T) = WallOf(S) + Wall(x) /\ WallOf(S) \in Nat
  <2> DEFINE w == [r \in T |-> r.attempts * ControllerTimeout + r.evidenceWall]
             v == [r \in S |-> r.attempts * ControllerTimeout + r.evidenceWall]
  <2>1. w \in [T -> Nat] /\ v \in [S -> Nat] /\ (\A r \in S : w[r] = v[r]) /\ w[x] = Wall(x)
    BY <1>1, <1>2 DEF Wall
  <2>2. WallOf(T) = Total(w, T) /\ WallOf(S) = Total(v, S)
    BY <1>1, <1>2, WallIs DEF Wall
  <2> HIDE DEF w, v
  <2> QED
    BY <1>3, <2>1, <2>2
<1> QED
  BY <1>4, <1>5 DEF T, Wall

\* What the cursor adds up, split into committed rounds and the one under way.
Committed == {rounds[n] : n \in 1..Len(rounds)}
PendingCalls == IF ActivePending THEN pending.attempts ELSE 0
PendingWall ==
    IF ActivePending THEN pending.attempts * ControllerTimeout + pending.evidenceWall ELSE 0

\* What of the round's reservation is spoken for.
PendingUsed ==
    IF ActivePending
      THEN pending.attempts * ControllerTimeout + pending.evidenceAttempts * EvidenceTimeout
      ELSE 0

\* The invocation holds an attempt that it will spend.
MayCall ==
    /\ pc \in {"verifying", "planning"} /\ allow
    /\ ActivePending /\ pending.stage = "controller_pending"
Due == IF MayCall THEN 1 ELSE 0

\* Types of what is added up.
Weighed ==
    /\ \A n \in 1..Len(rounds) : rounds[n].evidenceWall \in Nat
    /\ adapters \in Nat
    /\ ActivePending =>
          /\ pending.evidenceWall \in Nat
          /\ pending.evidenceAttempts * EvidenceTimeout <= pending.evidenceWall

\* Every call has an attempt behind it, an attempt held back included.
CallsCovered == calls + Due <= CallsOf(Committed) + PendingCalls
WallCovered ==
    (calls + Due) * ControllerTimeout + adapters * EvidenceTimeout
        <= WallOf(Committed) + PendingUsed
Limited ==
    /\ CallsOf(Committed) + PendingCalls <= MaxProposalCalls
    /\ WallOf(Committed) + PendingWall <= MaxWall

SInv == Weighed /\ CallsCovered /\ WallCovered /\ Limited

LEMMA CommittedIs ==
    ASSUME IInv, Weighed
    PROVE  /\ IsFiniteSet(Committed)
           /\ \A r \in Committed : r.attempts \in Nat /\ r.evidenceWall \in Nat
           /\ \A r \in Committed : r.round # Len(rounds) + 1
           /\ Len(rounds) \in Nat
<1>1. Len(rounds) \in Nat
  BY DEF IInv, Shape
<1>2. IsFiniteSet(Committed)
  <2> DEFINE I == 1..Len(rounds)
             f == [n \in I |-> rounds[n]]
  <2>1. IsFiniteSet(I)
    <3>1. 1 \in Int /\ Len(rounds) \in Int
      BY <1>1
    <3> QED
      BY <3>1, FS_Interval
  <2>2. f \in Surjection(I, Committed)
    BY DEF Surjection, Committed
  <2> QED
    BY <2>1, <2>2, FS_Surjection
<1>3. \A r \in Committed : r.attempts \in Nat /\ r.evidenceWall \in Nat /\ r.round # Len(rounds) + 1
  BY <1>1 DEF Committed, IInv, Shape, Weighed
<1> QED
  BY <1>1, <1>2, <1>3

LEMMA SumsOfNone == CallsOf({}) = 0 /\ WallOf({}) = 0
<1>1. IsFiniteSet({})
  BY FS_EmptySet
<1>2. CallsOf({}) = Total([r \in {} |-> r.attempts], {})
  BY <1>1, CallsAre
<1>3. WallOf({}) = Total([r \in {} |-> r.attempts * ControllerTimeout + r.evidenceWall], {})
  BY <1>1, WallIs
<1> QED
  BY <1>2, <1>3, EmptyTotal

LEMMA SumsAreNatural ==
    ASSUME IInv, Weighed
    PROVE  CallsOf(Committed) \in Nat /\ WallOf(Committed) \in Nat
<1> DEFINE x == [round |-> Len(rounds) + 1, attempts |-> 0, evidenceWall |-> 0]
<1>1. x \notin Committed /\ x.attempts \in Nat /\ x.evidenceWall \in Nat
  BY CommittedIs
<1> HIDE DEF x
<1> QED
  BY <1>1, CommittedIs, OneRoundMore

\* The cursor's sums.
LEMMA AccountIs ==
    ASSUME IInv, RInv, Weighed
    PROVE  /\ ProposalCalls = CallsOf(Committed) + PendingCalls
           /\ ReservedWall = WallOf(Committed) + PendingWall
           /\ CallsOf(Committed) \in Nat /\ WallOf(Committed) \in Nat
<1>1. ProposalCalls = CallsOf(Accounted) /\ ReservedWall = WallOf(Accounted)
  BY DEF ProposalCalls, ReservedWall, CallsOf, WallOf, MapThenSumSet, MapThenFoldSet
<1>2. CallsOf(Committed) \in Nat /\ WallOf(Committed) \in Nat
  BY SumsAreNatural
<1>3. CASE ~ ActivePending
  <2>1. Accounted = Committed
    BY <1>3 DEF Accounted, Committed
  <2> QED
    BY <1>1, <1>2, <1>3, <2>1 DEF PendingCalls, PendingWall
<1>4. CASE ActivePending
  <2>1. Accounted = Committed \cup {pending}
    BY <1>4 DEF Accounted, Committed
  <2>2. pending.round = Len(rounds) + 1 /\ pending.attempts \in Nat /\ pending.evidenceWall \in Nat
    BY <1>4, RecordsAre DEF IsPending, Weighed
  <2>3. pending \notin Committed
    BY <2>2, CommittedIs
  <2>4. /\ CallsOf(Committed \cup {pending}) = CallsOf(Committed) + pending.attempts
        /\ WallOf(Committed \cup {pending}) =
               WallOf(Committed) + (pending.attempts * ControllerTimeout + pending.evidenceWall)
    BY <2>2, <2>3, CommittedIs, OneRoundMore
  <2> QED
    BY <1>1, <1>2, <1>4, <2>1, <2>4 DEF PendingCalls, PendingWall
<1> QED
  BY <1>3, <1>4

\* Numbers of the round under way.
LEMMA NumbersAre ==
    ASSUME IInv, RInv, SInv
    PROVE  /\ ControllerTimeout \in Nat /\ EvidenceTimeout \in Nat /\ MaxWall \in Nat
           /\ MaxProposalCalls \in Nat /\ calls \in Nat /\ adapters \in Nat /\ Due \in {0, 1}
           /\ CallsOf(Committed) \in Nat /\ WallOf(Committed) \in Nat
           /\ PendingCalls \in Nat /\ PendingUsed \in Nat /\ PendingWall \in Nat
           /\ PendingUsed <= PendingWall
           /\ ActivePending => /\ pending.attempts \in Nat /\ pending.evidenceAttempts \in Nat
                               /\ pending.evidenceWall \in Nat
<1>1. /\ ControllerTimeout \in Nat /\ EvidenceTimeout \in Nat /\ MaxWall \in Nat
      /\ MaxProposalCalls \in Nat
  BY LimitsAssumption
<1>2. calls \in Nat /\ adapters \in Nat /\ Due \in {0, 1}
  BY DEF IInv, Shape, SInv, Weighed, Due
<1>3. ActivePending => /\ pending.attempts \in Nat /\ pending.evidenceAttempts \in Nat
                       /\ pending.evidenceWall \in Nat
                       /\ pending.evidenceAttempts * EvidenceTimeout <= pending.evidenceWall
  BY RecordsAre DEF IsPending, SInv, Weighed, RInv, Checkpointed, Receipted
<1>4. \A a, b \in Nat : a * b \in Nat
  OBVIOUS
<1>5. PendingCalls \in Nat /\ PendingUsed \in Nat /\ PendingWall \in Nat /\ PendingUsed <= PendingWall
  BY <1>1, <1>3, <1>4 DEF PendingCalls, PendingUsed, PendingWall
<1> QED
  BY <1>1, <1>2, <1>3, <1>5, SumsAreNatural DEF SInv

LEMMA CoveredIsReserved == IInv /\ RInv /\ SInv => SpendWithinReservation
<1> SUFFICES ASSUME IInv, RInv, SInv PROVE SpendWithinReservation
  OBVIOUS
<1> DEFINE c == calls
           d == calls * ControllerTimeout
           e == (calls + Due) * ControllerTimeout
           a == adapters * EvidenceTimeout
<1>1. c + Due <= ProposalCalls /\ ProposalCalls <= MaxProposalCalls /\ ReservedWall <= MaxWall
  BY AccountIs DEF SInv, CallsCovered, Limited
<1>2. e + a <= WallOf(Committed) + PendingUsed
  BY DEF SInv, WallCovered
<1>3. d <= e /\ d \in Nat /\ e \in Nat /\ a \in Nat
  <2>1. \A x, y \in Nat : x * y \in Nat /\ x * y <= (x + 0) * y /\ x * y <= (x + 1) * y
    OBVIOUS
  <2>2. Due = 0 \/ Due = 1
    BY NumbersAre
  <2> QED
    BY <2>1, <2>2, NumbersAre
<1> HIDE DEF d, e, a
<1>4. d + a <= ReservedWall
  BY <1>2, <1>3, NumbersAre, AccountIs DEF SInv
<1>5. c <= ProposalCalls
  BY <1>1, NumbersAre, AccountIs DEF SInv
<1> QED
  BY <1>1, <1>4, <1>5 DEF SpendWithinReservation, d, a

----------------------------------------------------------------------------
\* The steps, by what they spend.

LEMMA Products ==
    /\ \A a, b \in Nat : a * b \in Nat /\ (a + 1) * b = a * b + b /\ (a + 0) * b = a * b
    /\ \A b \in Nat : 0 * b = 0 /\ 1 * b = b
OBVIOUS

\* Steps that neither spend nor reserve.
LEMMA SameSpending ==
    ASSUME IInv, RInv, SInv, UNCHANGED <<rounds, calls, adapters>>,
           ActivePending' <=> ActivePending,
           ActivePending => /\ pending'.attempts = pending.attempts
                            /\ pending'.evidenceAttempts = pending.evidenceAttempts
                            /\ pending'.evidenceWall = pending.evidenceWall,
           MayCall' => MayCall
    PROVE  SInv'
<1>1. Committed' = Committed
  BY DEF Committed
<1>2. PendingCalls' = PendingCalls /\ PendingWall' = PendingWall /\ PendingUsed' = PendingUsed
  BY DEF PendingCalls, PendingWall, PendingUsed
<1>3. Weighed'
  BY DEF SInv, Weighed
<1>4. Due' = Due \/ (Due' = 0 /\ Due = 1)
  BY DEF Due
<1>5. CallsCovered'
  BY <1>1, <1>2, <1>4, NumbersAre DEF SInv, CallsCovered
<1>6. WallCovered'
  <2> DEFINE a == adapters * EvidenceTimeout
             w == WallOf(Committed) + PendingUsed
  <2>1. (calls + Due) * ControllerTimeout + a <= w
    BY DEF SInv, WallCovered
  <2>2. (calls + Due') * ControllerTimeout <= (calls + Due) * ControllerTimeout
    BY <1>4, NumbersAre, Products
  <2>3. a \in Nat /\ w \in Nat /\ (calls + Due) * ControllerTimeout \in Nat
        /\ (calls + Due') * ControllerTimeout \in Nat
    <3>1. calls + Due \in Nat /\ calls + Due' \in Nat
      BY <1>4, NumbersAre
    <3> QED
      BY <3>1, NumbersAre, Products
  <2> HIDE DEF a, w
  <2>4. (calls + Due') * ControllerTimeout + a <= w
    BY <2>1, <2>2, <2>3
  <2> QED
    BY <1>1, <1>2, <2>4 DEF WallCovered, a, w
<1>7. Limited'
  BY <1>1, <1>2 DEF SInv, Limited
<1> QED
  BY <1>3, <1>5, <1>6, <1>7 DEF SInv

\* Steps beside the checkpoint.
LEMMA QuietSpending ==
    ASSUME IInv, RInv, SInv, UNCHANGED <<rounds, pending, calls, adapters>>, MayCall' => MayCall
    PROVE  SInv'
<1>1. ActivePending' <=> ActivePending
  BY DEF ActivePending, CurrentRound
<1> QED
  BY <1>1, SameSpending

LEMMA QuietSteps ==
    ASSUME IInv, RInv, SInv,
           \/ \E m \in Modes : Invoke(m)
           \/ Verify \/ FinishVerify \/ Stop \/ Refresh \/ (Retry /\ ~ RetryAllowed)
           \/ LeaveIndeterminate \/ (\E c \in Candidate : ControllerReturns(c))
           \/ ReachEvidence \/ (\E ev \in Evidence : AdapterReturns(ev))
           \/ ReachIngest \/ BeginIngest \/ IngestRecord \/ FinishIngest
           \/ Crash \/ RemoveAbandonedLocks \/ OperatorBegins \/ OperatorGivesUp \/ OperatorDies
           \/ (\E r \in OperatorRecord : OperatorAppends(r))
    PROVE  SInv'
<1>1. UNCHANGED <<rounds, pending, calls, adapters>>
  BY DEF Invoke, Verify, FinishVerify, Stop, Refresh, Retry, LeaveIndeterminate, ControllerReturns,
     ReachEvidence, AdapterReturns, ReachIngest, BeginIngest, IngestRecord, FinishIngest, Crash,
     RemoveAbandonedLocks, OperatorBegins, OperatorGivesUp, OperatorDies, OperatorAppends,
     durable, history
<1>2. ActivePending' <=> ActivePending
  BY <1>1 DEF ActivePending, CurrentRound
<1>3. (pc' \in {"verifying", "planning"} /\ allow') => (pc \in {"verifying", "planning"} /\ allow)
  BY DEF Invoke, Verify, FinishVerify, Stop, Refresh, Retry, LeaveIndeterminate, ControllerReturns,
     ReachEvidence, AdapterReturns, ReachIngest, BeginIngest, IngestRecord, FinishIngest, Crash,
     RemoveAbandonedLocks, OperatorBegins, OperatorGivesUp, OperatorDies, OperatorAppends,
     invocation, Exit, Goto, IInv, Located
<1>4. MayCall' => MayCall
  BY <1>1, <1>2, <1>3 DEF MayCall
<1> QED
  BY <1>1, <1>4, QuietSpending

\* The checkpoint is rewritten with the same numbers, or removed when it is spent.
LEMMA MarkSpending ==
    ASSUME IInv, RInv, SInv,
           \/ AdoptControllerReceipt \/ CheckpointController \/ ControllerFails
           \/ AdoptEvidenceReceipt \/ CheckpointEvidence \/ AdapterFails \/ EvidenceWallLimit
    PROVE  SInv'
<1>1. /\ UNCHANGED <<rounds, calls, adapters>>
      /\ pc' \in {"evidence", "ingest", "refresh"}
      /\ \/ pending' = [pending EXCEPT !.stage = "controller_complete", !.error = FALSE]
         \/ pending' = [pending EXCEPT !.stage = "evidence_complete", !.error = FALSE]
         \/ pending' = [pending EXCEPT !.error = TRUE]
  BY DEF AdoptControllerReceipt, CheckpointController, ControllerFails, AdoptEvidenceReceipt,
     CheckpointEvidence, AdapterFails, EvidenceWallLimit, history, Goto
<1>2. ActivePending
  BY AdvancingIs, MarkIs DEF AdoptControllerReceipt, CheckpointController, ControllerFails,
     AdoptEvidenceReceipt, CheckpointEvidence, AdapterFails, EvidenceWallLimit, NeedsAdapter, Working
<1>3. IsPending(pending)
  BY <1>2, RecordsAre
<1>4. /\ pending'.attempts = pending.attempts /\ pending'.round = pending.round
      /\ pending'.evidenceAttempts = pending.evidenceAttempts
      /\ pending'.evidenceWall = pending.evidenceWall
      /\ pending'.stage \in Stages
  BY <1>1, <1>3 DEF IsPending, PendingFields, Stages
<1>5. ActivePending'
  BY <1>1, <1>2, <1>4 DEF ActivePending, CurrentRound, NoPending, Stages
<1>6. ~ MayCall'
  BY <1>1 DEF MayCall
<1> QED
  BY <1>1, <1>2, <1>4, <1>5, <1>6, SameSpending

LEMMA ClearSpending ==
    ASSUME IInv, RInv, SInv, ClearCommitted \/ RemovePending
    PROVE  SInv'
<1>1. UNCHANGED <<rounds, calls, adapters>> /\ pending' = NoPending
  BY DEF ClearCommitted, RemovePending, history
<1>2. ~ ActivePending
  BY DEF ClearCommitted, RemovePending, CommittedPending, ActivePending, CurrentRound, IInv, Shape,
     Located
<1>3. ~ ActivePending' /\ ~ MayCall'
  BY <1>1 DEF ActivePending, MayCall
<1> QED
  BY <1>1, <1>2, <1>3, SameSpending

\* The call spends the attempt held back.
LEMMA CallSpends ==
    ASSUME IInv, RInv, SInv, CallController
    PROVE  SInv'
<1>1. /\ UNCHANGED <<rounds, pending, adapters>> /\ calls' = calls + 1
      /\ pc' = "controller" /\ pc = "planning" /\ allow /\ pending.stage = "controller_pending"
  BY DEF CallController, Advancing, Planning, durable, Goto
<1>2. ActivePending
  BY AdvancingIs DEF CallController
<1>3. Due = 1 /\ Due' = 0
  BY <1>1, <1>2 DEF Due, MayCall
<1>4. calls' + Due' = calls + Due
  BY <1>1, <1>3, NumbersAre
<1>5. ActivePending' <=> ActivePending
  BY <1>1 DEF ActivePending, CurrentRound
<1>6. /\ Committed' = Committed /\ PendingCalls' = PendingCalls /\ PendingWall' = PendingWall
      /\ PendingUsed' = PendingUsed
  BY <1>1, <1>5 DEF Committed, PendingCalls, PendingWall, PendingUsed
<1>7. Weighed'
  BY <1>1, <1>5 DEF SInv, Weighed
<1>8. CallsCovered' /\ WallCovered' /\ Limited'
  BY <1>1, <1>4, <1>6 DEF SInv, CallsCovered, WallCovered, Limited
<1> QED
  BY <1>7, <1>8 DEF SInv

\* An attempt is added within the limits, and held by the invocation.
LEMMA AttemptSpends ==
    ASSUME IInv, RInv, SInv, UNCHANGED <<rounds, calls, adapters>>, Weighed', ActivePending',
           PendingCalls' = PendingCalls + 1,
           PendingUsed' = PendingUsed + ControllerTimeout,
           ProposalCalls < MaxProposalCalls, ReservedWall + (PendingWall' - PendingWall) <= MaxWall,
           PendingWall' \in Nat
    PROVE  SInv'
<1>1. Committed' = Committed
  BY DEF Committed
<1>2. /\ calls \in Nat /\ Due \in {0, 1} /\ Due' \in {0, 1} /\ ControllerTimeout \in Nat
      /\ CallsOf(Committed) \in Nat /\ WallOf(Committed) \in Nat
      /\ PendingCalls \in Nat /\ PendingUsed \in Nat /\ PendingWall \in Nat
      /\ MaxWall \in Nat /\ MaxProposalCalls \in Nat
  BY NumbersAre DEF Due
<1>3. CallsCovered'
  BY <1>1, <1>2 DEF SInv, CallsCovered
<1>4. WallCovered'
  <2> DEFINE a == adapters * EvidenceTimeout
             w == WallOf(Committed) + PendingUsed
             d == calls * ControllerTimeout
  <2>1. a \in Nat /\ d \in Nat /\ w \in Nat
    BY <1>2, NumbersAre, Products
  <2>2. /\ (calls + Due) * ControllerTimeout \in Nat
        /\ d <= (calls + Due) * ControllerTimeout
    <3>1. CASE Due = 0
      BY <1>2, <2>1, <3>1, Products
    <3>2. CASE Due = 1
      <4>1. (calls + 1) * ControllerTimeout = d + ControllerTimeout
        BY <1>2, Products
      <4> QED
        BY <1>2, <2>1, <3>2, <4>1
    <3> QED
      BY <1>2, <3>1, <3>2
  <2>3. /\ (calls + Due') * ControllerTimeout \in Nat
        /\ (calls + Due') * ControllerTimeout <= d + ControllerTimeout
    <3>1. CASE Due' = 0
      BY <1>2, <2>1, <3>1, Products
    <3>2. CASE Due' = 1
      <4>1. (calls + 1) * ControllerTimeout = d + ControllerTimeout
        BY <1>2, Products
      <4> QED
        BY <1>2, <2>1, <3>2, <4>1
    <3> QED
      BY <1>2, <3>1, <3>2
  <2>4. (calls + Due) * ControllerTimeout + a <= w
    BY DEF SInv, WallCovered
  <2>5. w + ControllerTimeout = WallOf(Committed) + PendingUsed'
    BY <1>2
  <2> DEFINE x == (calls + Due) * ControllerTimeout
             y == (calls + Due') * ControllerTimeout
  <2>6. /\ x \in Nat /\ d <= x /\ y \in Nat /\ y <= d + ControllerTimeout /\ x + a <= w
    BY <2>2, <2>3, <2>4
  <2> HIDE DEF a, d, w, x, y
  <2>7. y + a <= w + ControllerTimeout
    BY <1>2, <2>1, <2>6
  <2> QED
    BY <1>1, <2>5, <2>7 DEF WallCovered, a, y
<1>5. Limited'
  <2>1. /\ ProposalCalls = CallsOf(Committed) + PendingCalls
        /\ ReservedWall = WallOf(Committed) + PendingWall
    BY AccountIs DEF SInv
  <2> QED
    BY <1>1, <1>2, <2>1 DEF Limited
<1> QED
  BY <1>3, <1>4, <1>5 DEF SInv

LEMMA StartSpends ==
    ASSUME IInv, RInv, SInv, StartPending
    PROVE  SInv'
<1>1. /\ UNCHANGED <<rounds, calls, adapters>> /\ pending = NoPending
      /\ PlanStatus(Snapshot) = "none"
      /\ pending'.round = CurrentRound /\ pending'.stage = "controller_pending"
      /\ pending'.attempts = 1 /\ pending'.evidenceAttempts = 0
      /\ pending'.evidenceWall = EvidenceTimeout
  BY DEF StartPending, history
<1>2. ~ ActivePending
  BY <1>1 DEF ActivePending
<1>3. ActivePending'
  BY <1>1 DEF ActivePending, CurrentRound, NoPending
<1>4. /\ ProposalCalls \in Nat /\ ReservedWall \in Nat
      /\ ControllerTimeout \in Nat /\ EvidenceTimeout \in Nat /\ MaxWall \in Nat
      /\ MaxProposalCalls \in Nat
      /\ PendingCalls = 0 /\ PendingUsed = 0 /\ PendingWall = 0
  BY <1>2, AccountIs, NumbersAre DEF SInv, PendingCalls, PendingUsed, PendingWall
<1>5. /\ ~ (ProposalCalls >= MaxProposalCalls)
      /\ ReservedWall + ControllerTimeout + EvidenceTimeout <= MaxWall
  BY <1>1 DEF PlanStatus, StopStatus
<1>6. /\ PendingCalls' = 1 /\ PendingUsed' = ControllerTimeout
      /\ PendingWall' = ControllerTimeout + EvidenceTimeout
  BY <1>1, <1>3, <1>4, Products DEF PendingCalls, PendingUsed, PendingWall
<1>7. Weighed'
  BY <1>1, <1>4, Products DEF SInv, Weighed
<1>8. ProposalCalls < MaxProposalCalls /\ ReservedWall + (PendingWall' - PendingWall) <= MaxWall
  BY <1>4, <1>5, <1>6
<1> QED
  BY <1>1, <1>3, <1>4, <1>6, <1>7, <1>8, AttemptSpends

LEMMA RetrySpends ==
    ASSUME IInv, RInv, SInv, Retry, RetryAllowed
    PROVE  SInv'
<1>1. /\ UNCHANGED <<rounds, calls, adapters>> /\ ActivePending
      /\ pending' = [pending EXCEPT !.attempts = @ + 1, !.error = FALSE]
      /\ pending.stage = "controller_pending"
      /\ ProposalCalls < MaxProposalCalls /\ ReservedWall + ControllerTimeout <= MaxWall
  BY DEF Retry, RetryAllowed, history
<1>2. IsPending(pending)
  BY <1>1, RecordsAre
<1>3. /\ pending'.attempts = pending.attempts + 1 /\ pending'.round = pending.round
      /\ pending'.evidenceAttempts = pending.evidenceAttempts
      /\ pending'.evidenceWall = pending.evidenceWall
      /\ pending'.stage = "controller_pending"
  BY <1>1, <1>2 DEF IsPending, PendingFields
<1>4. ActivePending'
  BY <1>1, <1>3 DEF ActivePending, CurrentRound, NoPending
<1>5. Weighed'
  BY <1>1, <1>3 DEF SInv, Weighed
<1>6. /\ ControllerTimeout \in Nat /\ EvidenceTimeout \in Nat /\ pending.attempts \in Nat
      /\ pending.evidenceAttempts \in Nat /\ pending.evidenceWall \in Nat
      /\ PendingCalls \in Nat /\ PendingUsed \in Nat /\ PendingWall \in Nat
  BY <1>1, NumbersAre
<1>7. /\ PendingCalls' = PendingCalls + 1 /\ PendingUsed' = PendingUsed + ControllerTimeout
      /\ PendingWall' = PendingWall + ControllerTimeout
  <2> DEFINE p == pending.attempts * ControllerTimeout
             e == pending.evidenceAttempts * EvidenceTimeout
  <2>1. p \in Nat /\ e \in Nat /\ (pending.attempts + 1) * ControllerTimeout = p + ControllerTimeout
    BY <1>6, Products
  <2> HIDE DEF p, e
  <2>2. /\ PendingCalls = pending.attempts /\ PendingUsed = p + e
        /\ PendingWall = p + pending.evidenceWall
    BY <1>1 DEF PendingCalls, PendingUsed, PendingWall, p, e
  <2>3. /\ PendingCalls' = pending.attempts + 1
        /\ PendingUsed' = (pending.attempts + 1) * ControllerTimeout + e
        /\ PendingWall' = (pending.attempts + 1) * ControllerTimeout + pending.evidenceWall
    BY <1>3, <1>4 DEF PendingCalls, PendingUsed, PendingWall, e
  <2> QED
    BY <1>6, <2>1, <2>2, <2>3
<1>8. PendingWall' \in Nat /\ PendingWall' - PendingWall = ControllerTimeout
  BY <1>6, <1>7
<1>9. ReservedWall + (PendingWall' - PendingWall) <= MaxWall
  BY <1>1, <1>8
<1> QED
  BY <1>1, <1>4, <1>5, <1>7, <1>8, <1>9, AttemptSpends

\* The adapter's reservation grows within the limit, then its count.
LEMMA ReserveSpends ==
    ASSUME IInv, RInv, SInv, ReserveEvidence
    PROVE  SInv'
<1>1. /\ UNCHANGED <<rounds, calls, adapters>> /\ pc \in Working /\ pc' = "counting"
      /\ pending' = [pending EXCEPT !.evidenceWall = @ + EvidenceTimeout]
      /\ ReservedWall + EvidenceTimeout <= MaxWall
  BY DEF ReserveEvidence, NeedsAdapter, WallLeft, Working, history, Goto
<1>2. ActivePending /\ IsPending(pending)
  BY <1>1, MarkIs
<1>3. /\ pending'.attempts = pending.attempts /\ pending'.round = pending.round
      /\ pending'.evidenceAttempts = pending.evidenceAttempts
      /\ pending'.evidenceWall = pending.evidenceWall + EvidenceTimeout
      /\ pending'.stage \in Stages
  BY <1>1, <1>2 DEF IsPending, PendingFields
<1>4. ActivePending'
  BY <1>1, <1>2, <1>3 DEF ActivePending, CurrentRound, NoPending, Stages
<1>5. /\ EvidenceTimeout \in Nat /\ pending.evidenceWall \in Nat
      /\ pending.evidenceAttempts * EvidenceTimeout \in Nat
      /\ pending.evidenceAttempts * EvidenceTimeout <= pending.evidenceWall
      /\ PendingWall \in Nat /\ pending.attempts * ControllerTimeout \in Nat
      /\ WallOf(Committed) \in Nat /\ MaxWall \in Nat
  BY <1>2, NumbersAre, Products DEF SInv, Weighed
<1>6. Weighed'
  <2> DEFINE e == pending.evidenceAttempts * EvidenceTimeout
  <2>1. e \in Nat /\ e <= pending.evidenceWall
    BY <1>5
  <2> HIDE DEF e
  <2>2. e <= pending.evidenceWall + EvidenceTimeout
    BY <1>5, <2>1
  <2> QED
    BY <1>1, <1>3, <1>5, <2>2 DEF SInv, Weighed, e
<1>7. /\ Committed' = Committed /\ PendingCalls' = PendingCalls /\ PendingUsed' = PendingUsed
  BY <1>1, <1>2, <1>3, <1>4 DEF Committed, PendingCalls, PendingUsed
<1>8. PendingWall' = PendingWall + EvidenceTimeout
  <2> DEFINE p == pending.attempts * ControllerTimeout
  <2>1. p \in Nat
    BY <1>5
  <2> HIDE DEF p
  <2>2. PendingWall = p + pending.evidenceWall
    BY <1>2 DEF PendingWall, p
  <2>3. PendingWall' = p + (pending.evidenceWall + EvidenceTimeout)
    BY <1>3, <1>4 DEF PendingWall, p
  <2> QED
    BY <1>5, <2>1, <2>2, <2>3
<1>9. Limited'
  BY <1>1, <1>5, <1>7, <1>8, AccountIs DEF SInv, Limited
<1>10. Due' = 0 /\ Due = 0
  BY <1>1 DEF Due, MayCall, Working
<1>11. CallsCovered' /\ WallCovered'
  BY <1>1, <1>7, <1>10 DEF SInv, CallsCovered, WallCovered
<1> QED
  BY <1>6, <1>9, <1>11 DEF SInv

LEMMA CountSpends ==
    ASSUME IInv, RInv, SInv, CountEvidence
    PROVE  SInv'
<1>1. /\ UNCHANGED <<rounds, calls>> /\ adapters' = adapters + 1
      /\ pc \in Working /\ pc' = "adapter"
      /\ pending' = [pending EXCEPT !.evidenceAttempts = @ + 1, !.error = FALSE]
  BY DEF CountEvidence, NeedsAdapter, Working, Goto
<1>2. ActivePending /\ IsPending(pending) /\ pending.evidenceAttempts \in Nat
  BY <1>1, MarkIs
<1>3. /\ pending'.attempts = pending.attempts /\ pending'.round = pending.round
      /\ pending'.evidenceAttempts = pending.evidenceAttempts + 1
      /\ pending'.evidenceWall = pending.evidenceWall
      /\ pending'.stage \in Stages
  BY <1>1, <1>2 DEF IsPending, PendingFields
<1>4. ActivePending'
  BY <1>1, <1>2, <1>3 DEF ActivePending, CurrentRound, NoPending, Stages
<1>5. pending.evidenceWall = (pending.evidenceAttempts + 1) * EvidenceTimeout
  <2>1. CASE pc = "counting"
    BY <2>1 DEF RInv, Knows, Counting, Working
  <2>2. CASE NeedsAdapter /\ pending.evidenceAttempts = 0
    BY <1>2, <2>2, Reservations DEF NeedsAdapter, RInv, Knows, Working
  <2> QED
    BY <2>1, <2>2 DEF CountEvidence
<1>6. Weighed'
  <2> DEFINE e == (pending.evidenceAttempts + 1) * EvidenceTimeout
  <2>1. e \in Nat /\ pending.evidenceWall = e
    <3>1. pending.evidenceAttempts + 1 \in Nat
      BY <1>2
    <3> QED
      BY <1>5, <3>1, NumbersAre, Products
  <2>2. pending'.evidenceWall = e /\ pending'.evidenceAttempts * EvidenceTimeout = e
    BY <1>3, <2>1
  <2>3. adapters + 1 \in Nat
    BY NumbersAre
  <2> HIDE DEF e
  <2>4. pending'.evidenceAttempts * EvidenceTimeout <= pending'.evidenceWall
    BY <2>1, <2>2
  <2> QED
    BY <1>1, <2>1, <2>2, <2>3, <2>4 DEF SInv, Weighed
<1>7. Committed' = Committed /\ PendingCalls' = PendingCalls /\ PendingWall' = PendingWall
  BY <1>1, <1>2, <1>3, <1>4 DEF Committed, PendingCalls, PendingWall
<1>8. Due' = 0 /\ Due = 0
  BY <1>1 DEF Due, MayCall, Working
<1>9. WallCovered'
  <2> DEFINE a == adapters * EvidenceTimeout
             d == (calls + 0) * ControllerTimeout
             p == pending.attempts * ControllerTimeout
             e == pending.evidenceAttempts * EvidenceTimeout
             w == WallOf(Committed)
  <2>1. /\ a \in Nat /\ d \in Nat /\ p \in Nat /\ e \in Nat /\ w \in Nat /\ EvidenceTimeout \in Nat
        /\ (adapters + 1) * EvidenceTimeout = a + EvidenceTimeout
        /\ (pending.evidenceAttempts + 1) * EvidenceTimeout = e + EvidenceTimeout
    BY <1>2, NumbersAre, Products
  <2>2. d + a <= w + (p + e)
    BY <1>2, <1>8 DEF SInv, WallCovered, PendingUsed
  <2>3. PendingUsed' = p + (pending.evidenceAttempts + 1) * EvidenceTimeout
    BY <1>3, <1>4 DEF PendingUsed
  <2>4. WallCovered' <=> d + (adapters + 1) * EvidenceTimeout <= w + PendingUsed'
    BY <1>1, <1>7, <1>8 DEF WallCovered
  <2> HIDE DEF a, d, p, e, w
  <2>5. d + (a + EvidenceTimeout) <= w + (p + (e + EvidenceTimeout))
    BY <2>1, <2>2
  <2> QED
    BY <2>1, <2>3, <2>4, <2>5
<1>10. CallsCovered' /\ Limited'
  BY <1>1, <1>7, <1>8 DEF SInv, CallsCovered, Limited
<1> QED
  BY <1>6, <1>9, <1>10 DEF SInv

\* A committed round keeps what it spent, and what was reserved is spent.
LEMMA CommitSpends ==
    ASSUME IInv, RInv, SInv, Commit
    PROVE  SInv'
<1>1. PICK r :
        /\ UNCHANGED <<pending, calls, adapters>> /\ pc = "commit" /\ pc' = "remove"
        /\ rounds' = Append(rounds, r)
        /\ r.round = pending.round /\ r.attempts = pending.attempts
        /\ r.evidenceWall = pending.evidenceWall
  BY DEF Commit, history, Goto
<1>2. ActivePending /\ pending.stage = "evidence_complete" /\ Reserved /\ Receipted
  BY <1>1 DEF IInv, Located, RInv, Knows, Checkpointed, Working
<1>3. /\ pending.round = Len(rounds) + 1 /\ Len(rounds) \in Nat
      /\ pending.attempts \in Nat /\ pending.evidenceWall \in Nat
      /\ pending.evidenceAttempts \in Nat /\ pending.evidenceAttempts >= 1
  BY <1>2, RecordsAre, NumbersAre DEF Receipted
<1>4. /\ Len(rounds') = Len(rounds) + 1 /\ rounds'[Len(rounds) + 1] = r
      /\ \A n \in 1..Len(rounds) : rounds'[n] = rounds[n]
  BY <1>1, AppendIsLedger DEF IInv, Shape
<1>5. ~ ActivePending'
  BY <1>1, <1>3, <1>4 DEF ActivePending, CurrentRound
<1>6. Committed' = Committed \cup {r}
  <2>1. \A n \in 1..(Len(rounds) + 1) : n \in 1..Len(rounds) \/ n = Len(rounds) + 1
    BY <1>3
  <2>2. 1..Len(rounds) \subseteq 1..(Len(rounds) + 1) /\ Len(rounds) + 1 \in 1..(Len(rounds) + 1)
    BY <1>3
  <2>3. Committed' = {rounds'[n] : n \in 1..(Len(rounds) + 1)}
    BY <1>4 DEF Committed
  <2> QED
    BY <1>4, <2>1, <2>2, <2>3 DEF Committed
<1>7. r \notin Committed
  BY <1>1, <1>3, CommittedIs DEF SInv
<1>8. /\ CallsOf(Committed \cup {r}) = CallsOf(Committed) + r.attempts
      /\ WallOf(Committed \cup {r}) =
             WallOf(Committed) + (r.attempts * ControllerTimeout + r.evidenceWall)
  <2>1. r.attempts \in Nat /\ r.evidenceWall \in Nat
    BY <1>1, <1>3
  <2> QED
    BY <1>7, <2>1, CommittedIs, OneRoundMore DEF SInv
<1>9. pending.evidenceWall = pending.evidenceAttempts * EvidenceTimeout
  BY <1>2, <1>3, Reservations
<1>10. /\ CallsOf(Committed') = CallsOf(Committed) + PendingCalls
       /\ WallOf(Committed') = WallOf(Committed) + PendingWall
       /\ PendingUsed = PendingWall
  BY <1>1, <1>2, <1>6, <1>8, <1>9 DEF PendingCalls, PendingWall, PendingUsed
<1>11. PendingCalls' = 0 /\ PendingWall' = 0 /\ PendingUsed' = 0
  BY <1>5 DEF PendingCalls, PendingWall, PendingUsed
<1>12. Due' = 0 /\ Due = 0
  BY <1>1 DEF Due, MayCall
<1>13. Weighed'
  <2>1. \A n \in 1..(Len(rounds) + 1) : rounds'[n].evidenceWall \in Nat
    BY <1>1, <1>3, <1>4 DEF SInv, Weighed
  <2> QED
    BY <1>1, <1>4, <1>5, <2>1 DEF SInv, Weighed
<1>14. /\ CallsOf(Committed') + PendingCalls' = CallsOf(Committed) + PendingCalls
       /\ WallOf(Committed') + PendingUsed' = WallOf(Committed) + PendingUsed
       /\ WallOf(Committed') + PendingWall' = WallOf(Committed) + PendingWall
  BY <1>10, <1>11, NumbersAre
<1>15. CallsCovered' /\ WallCovered' /\ Limited'
  BY <1>1, <1>12, <1>14 DEF SInv, CallsCovered, WallCovered, Limited
<1> QED
  BY <1>13, <1>15 DEF SInv

LEMMA InitSpends == Init => SInv
<1> SUFFICES ASSUME Init PROVE SInv
  OBVIOUS
<1>1. /\ Len(rounds) = 0 /\ ~ ActivePending /\ calls = 0 /\ adapters = 0 /\ pc = "off"
  BY DEF Init, ActivePending
<1>2. Committed = {}
  BY <1>1 DEF Committed
<1>3. CallsOf(Committed) = 0 /\ WallOf(Committed) = 0
  BY <1>2, SumsOfNone
<1>4. PendingCalls = 0 /\ PendingWall = 0 /\ PendingUsed = 0 /\ Due = 0
  BY <1>1 DEF PendingCalls, PendingWall, PendingUsed, Due, MayCall
<1>5. ControllerTimeout \in Nat /\ EvidenceTimeout \in Nat /\ MaxWall \in Nat
      /\ MaxProposalCalls \in Nat
  BY LimitsAssumption
<1>6. Weighed
  BY <1>1 DEF Weighed
<1>7. CallsCovered /\ WallCovered /\ Limited
  <2>1. 0 * ControllerTimeout = 0 /\ 0 * EvidenceTimeout = 0
    BY <1>5, Products
  <2>2. (0 + 0) * ControllerTimeout + 0 * EvidenceTimeout <= 0 + 0
    BY <2>1
  <2> QED
    BY <1>1, <1>3, <1>4, <1>5, <2>2 DEF CallsCovered, WallCovered, Limited
<1> QED
  BY <1>6, <1>7 DEF SInv

LEMMA StepSpends == IInv /\ RInv /\ SInv /\ [Next]_vars => SInv'
<1> SUFFICES ASSUME IInv, RInv, SInv, [Next]_vars PROVE SInv'
  OBVIOUS
<1>1. CASE UNCHANGED vars
  <2>1. UNCHANGED <<rounds, pending, calls, adapters, pc, allow>>
    BY <1>1 DEF vars
  <2>2. MayCall' => MayCall
    BY <2>1 DEF MayCall, ActivePending, CurrentRound
  <2> QED
    BY <2>1, <2>2, QuietSpending
<1>2. CASE \E m \in Modes : Invoke(m)
  BY <1>2, QuietSteps
<1>3. CASE Planner
  BY <1>3, QuietSteps, ClearSpending, RetrySpends, StartSpends DEF Planner
<1>4. CASE Controller
  BY <1>4, QuietSteps, MarkSpending, CallSpends DEF Controller
<1>5. CASE Adapter
  BY <1>5, QuietSteps, MarkSpending, ReserveSpends, CountSpends DEF Adapter
<1>6. CASE Ingestion
  BY <1>6, QuietSteps, CommitSpends, ClearSpending DEF Ingestion
<1>7. CASE ControllerFails \/ AdapterFails
  BY <1>7, MarkSpending
<1>8. CASE Crash \/ RemoveAbandonedLocks \/ OperatorBegins \/ OperatorGivesUp \/ OperatorDies
  BY <1>8, QuietSteps
<1>9. CASE \E r \in OperatorRecord : OperatorAppends(r)
  BY <1>9, QuietSteps
<1> QED
  BY <1>1, <1>2, <1>3, <1>4, <1>5, <1>6, <1>7, <1>8, <1>9 DEF Next, Driver

\* However often invocations die between a durable intent and the call it pays
\* for, whatever is retried and whoever resumes: the model calls and the adapter
\* calls really made stay within what is reserved on record, and the record
\* within its limits (stop_status before a round, retry_population_driver before
\* another attempt, run_evidence_adapter before a repeated call).
THEOREM SpendingStaysReserved == Spec => []SpendWithinReservation
<1>1. Init => RInv /\ SInv
  BY InitReplays, InitSpends
<1>2. IInv /\ IInv' /\ RInv /\ SInv /\ [Next]_vars => (RInv /\ SInv)'
  BY StepReplays, StepSpends
<1>3. IInv /\ RInv /\ SInv => SpendWithinReservation
  BY CoveredIsReserved
<1> QED
  BY <1>1, <1>2, <1>3, InductiveInvariant, PTL DEF Spec

=============================================================================
