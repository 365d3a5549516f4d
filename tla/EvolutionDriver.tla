--------------------------- MODULE EvolutionDriver --------------------------
(***************************************************************************)
(* evolver.py: the serial loop of generations over one state file.  Every  *)
(* invocation makes the lock directory, reads and replays the file, and    *)
(* then calls the Controller and appends its receipt until a limit says    *)
(* stop.  Invocations overlap, die at any point and are repeated, with the *)
(* same request or with another; calls and writes may fail.                *)
(*                                                                         *)
(* A record id is a hash chained over the file, so it is an index here.  A *)
(* line that was begun and not finished is "torn", an empty new file too.  *)
(***************************************************************************)
EXTENDS Integers, Sequences, FiniteSets

CONSTANTS
    Process,       \* invocations
    Requests,      \* records [initial, maxGenerations, maxRejections]
    Candidates,
    MaxDeaths,     \* bound on invocations that die
    MaxFailures,   \* bound on Controller calls and writes that fail
    Nothing

\* decode_request, of what the loop depends on: a candidate and positive limits.
IsRequest(q) ==
    /\ q.initial \in Candidates
    /\ q.maxGenerations \in Nat \ {0} /\ q.maxRejections \in Nat \ {0}

ASSUME RequestsAssumption ==
    /\ Nothing \notin Process /\ Nothing \notin Requests
    /\ \A q \in Requests: IsRequest(q)
    /\ MaxDeaths \in Nat /\ MaxFailures \in Nat

VARIABLES
    ledger,      \* the complete lines of the state file
    torn,        \* TRUE when an incomplete line follows them
    lock,        \* who made the lock directory
    pc,          \* the point an invocation is at
    memory,      \* what it has in memory: the request, and the loop's variables
    paid,        \* Controller calls made
    deaths, failures

vars == <<ledger, torn, lock, pc, memory, paid, deaths, failures>>

Running == {"read", "header", "heading", "verify", "loop", "calling", "append",
            "appending", "release"}
States == {"idle"} \cup Running

-----------------------------------------------------------------------------
(* The file's contents *)

Header(q) == [kind |-> "run", owner |-> q]

Selected(r) == IF r.result.promoted THEN r.result.child ELSE r.request.parent

\* _feedback: what the next proposal is told of this generation.
Feedback(r) ==
    [generation |-> r.generation, promoted |-> r.result.promoted, selected |-> Selected(r)]

\* The values _verify_ledger leaves the loop with.
HeadOf(l) == IF Len(l) = 1 THEN l[1].owner.initial ELSE Selected(l[Len(l)])
PreviousOf(l) == IF Len(l) = 1 THEN Nothing ELSE Feedback(l[Len(l)])
CountOf(l) == Len(l) - 1
TrailingRetained(l) == {i \in 2 .. Len(l): \A j \in i .. Len(l): ~l[j].result.promoted}
RejectionsOf(l) == Cardinality(TrailingRetained(l))

\* _controller_request
ControllerRequest(q, parent, generation, previous) ==
    [owner |-> q, parent |-> parent, generation |-> generation, previous |-> previous]

\* validate_agent_generation_receipt, of what a Controller may answer.
ResultValid(request, result) == result.child # request.parent

RecordFits(l, i, q) ==
    LET before == SubSeq(l, 1, i - 1)
    IN /\ l[i].generation = i - 1
       /\ l[i].parentRecord = i - 1
       /\ l[i].request =
            ControllerRequest(q, HeadOf(before), i - 1, PreviousOf(before))
       /\ ResultValid(l[i].request, l[i].result)

\* _verify_ledger
Verified(l, q) ==
    /\ l # <<>> /\ l[1] = Header(q)
    /\ \A i \in 2 .. Len(l): RecordFits(l, i, q)

-----------------------------------------------------------------------------
NoMemory == [request |-> Nothing, head |-> Nothing, previous |-> Nothing, count |-> 0,
             rejections |-> 0, last |-> 0, expired |-> FALSE, result |-> Nothing]

Init ==
    /\ ledger = <<>> /\ torn = FALSE /\ lock = Nothing
    /\ pc = [p \in Process |-> "idle"]
    /\ memory = [p \in Process |-> NoMemory]
    /\ paid = 0 /\ deaths = 0 /\ failures = 0

Goto(p, point) == pc' = [pc EXCEPT ![p] = point]

\* An invocation with a request finds the lock free and makes its directory;
\* one that finds it taken ends without a trace.
Invoke(p, q) ==
    /\ pc[p] = "idle" /\ lock = Nothing
    /\ lock' = p
    /\ memory' = [memory EXCEPT ![p] = [NoMemory EXCEPT !.request = q]]
    /\ Goto(p, "read")
    /\ UNCHANGED <<ledger, torn, paid, deaths, failures>>

\* _read_records: a file with an incomplete line is refused.
Read(p) ==
    /\ pc[p] = "read"
    /\ \/ torn /\ Goto(p, "release")
       \/ ~torn /\ ledger = <<>> /\ Goto(p, "header")
       \/ ~torn /\ ledger # <<>> /\ Goto(p, "verify")
    /\ UNCHANGED <<ledger, torn, lock, memory, paid, deaths, failures>>

BeginHeader(p) ==
    /\ pc[p] = "header"
    /\ torn' = TRUE
    /\ Goto(p, "heading")
    /\ UNCHANGED <<ledger, lock, memory, paid, deaths, failures>>

FinishHeader(p) ==
    /\ pc[p] = "heading"
    /\ ledger' = <<Header(memory[p].request)>> /\ torn' = FALSE
    /\ Goto(p, "verify")
    /\ UNCHANGED <<lock, memory, paid, deaths, failures>>

\* Mutant: the wall clock runs from the first invocation, not from this one.
MutantVerify(p) ==
    /\ pc[p] = "verify"
    /\ \/ /\ Verified(ledger, memory[p].request)
          /\ memory' = [memory EXCEPT
                ![p].head = HeadOf(ledger), ![p].previous = PreviousOf(ledger),
                ![p].count = CountOf(ledger), ![p].rejections = RejectionsOf(ledger),
                ![p].last = Len(ledger), ![p].expired = Len(ledger) > 1]
          /\ Goto(p, "loop")
       \/ /\ ~Verified(ledger, memory[p].request)
          /\ Goto(p, "release") /\ UNCHANGED memory
    /\ UNCHANGED <<ledger, torn, lock, paid, deaths, failures>>

Verify(p) ==
    /\ pc[p] = "verify"
    /\ \/ /\ Verified(ledger, memory[p].request)
          /\ memory' = [memory EXCEPT
                ![p].head = HeadOf(ledger), ![p].previous = PreviousOf(ledger),
                ![p].count = CountOf(ledger), ![p].rejections = RejectionsOf(ledger),
                ![p].last = Len(ledger)]
          /\ Goto(p, "loop")
       \/ /\ ~Verified(ledger, memory[p].request)
          /\ Goto(p, "release") /\ UNCHANGED memory
    /\ UNCHANGED <<ledger, torn, lock, paid, deaths, failures>>

\* Mutant: one generation too many.
MutantAtLimit(p) ==
    \/ memory[p].rejections >= memory[p].request.maxRejections
    \/ memory[p].count > memory[p].request.maxGenerations
    \/ memory[p].expired

AtLimit(p) ==
    \/ memory[p].rejections >= memory[p].request.maxRejections
    \/ memory[p].count >= memory[p].request.maxGenerations
    \/ memory[p].expired

\* The head of the loop: a status, or the next Controller call.
Decide(p) ==
    /\ pc[p] = "loop"
    /\ \/ AtLimit(p) /\ Goto(p, "release") /\ UNCHANGED paid
       \/ ~AtLimit(p) /\ Goto(p, "calling") /\ paid' = paid + 1
    /\ UNCHANGED <<ledger, torn, lock, memory, deaths, failures>>

NextRequest(p) ==
    ControllerRequest(memory[p].request, memory[p].head, memory[p].count + 1,
                      memory[p].previous)

\* Mutant: a receipt that comes after the wall clock has run out is thrown away.
MutantControllerAnswers(p) ==
    /\ pc[p] = "calling"
    /\ \E child \in Candidates, promoted \in BOOLEAN, expired \in BOOLEAN:
        /\ ResultValid(NextRequest(p), [child |-> child])
        /\ memory' = [memory EXCEPT
                ![p].result = [child |-> child, promoted |-> promoted],
                ![p].expired = expired]
        /\ Goto(p, IF expired THEN "release" ELSE "append")
    /\ UNCHANGED <<ledger, torn, lock, paid, deaths, failures>>

\* A valid receipt; the wall clock may have run out by then.
ControllerAnswers(p) ==
    /\ pc[p] = "calling"
    /\ \E child \in Candidates, promoted \in BOOLEAN, expired \in BOOLEAN:
        /\ ResultValid(NextRequest(p), [child |-> child])
        /\ memory' = [memory EXCEPT
                ![p].result = [child |-> child, promoted |-> promoted],
                ![p].expired = expired]
    /\ Goto(p, "append")
    /\ UNCHANGED <<ledger, torn, lock, paid, deaths, failures>>

\* No answer in time, an error, or a receipt that does not replay.
ControllerFails(p) ==
    /\ pc[p] = "calling" /\ failures < MaxFailures
    /\ failures' = failures + 1
    /\ Goto(p, "release")
    /\ UNCHANGED <<ledger, torn, lock, memory, paid, deaths>>

BeginAppend(p) ==
    /\ pc[p] = "append"
    /\ torn' = TRUE
    /\ Goto(p, "appending")
    /\ UNCHANGED <<ledger, lock, memory, paid, deaths, failures>>

NextRecord(p) ==
    [kind |-> "generation", generation |-> memory[p].count + 1,
     parentRecord |-> memory[p].last, request |-> NextRequest(p),
     result |-> memory[p].result]

\* Mutant: a promotion does not clear the count of rejections.
MutantFinishAppend(p) ==
    /\ pc[p] = "appending"
    /\ ledger' = Append(ledger, NextRecord(p)) /\ torn' = FALSE
    /\ memory' = [memory EXCEPT
            ![p].head = Selected(NextRecord(p)), ![p].previous = Feedback(NextRecord(p)),
            ![p].count = memory[p].count + 1,
            ![p].rejections =
                IF memory[p].result.promoted THEN memory[p].rejections ELSE memory[p].rejections + 1,
            ![p].last = memory[p].last + 1, ![p].result = Nothing]
    /\ Goto(p, "loop")
    /\ UNCHANGED <<lock, paid, deaths, failures>>

\* The line is complete, and the loop goes on from what it selected.
FinishAppend(p) ==
    /\ pc[p] = "appending"
    /\ ledger' = Append(ledger, NextRecord(p)) /\ torn' = FALSE
    /\ memory' = [memory EXCEPT
            ![p].head = Selected(NextRecord(p)), ![p].previous = Feedback(NextRecord(p)),
            ![p].count = memory[p].count + 1,
            ![p].rejections =
                IF memory[p].result.promoted THEN 0 ELSE memory[p].rejections + 1,
            ![p].last = memory[p].last + 1, ![p].result = Nothing]
    /\ Goto(p, "loop")
    /\ UNCHANGED <<lock, paid, deaths, failures>>

\* Opening or writing fails: before the first byte, or after it.
FailAppend(p) ==
    /\ pc[p] \in {"header", "heading", "append", "appending"}
    /\ failures < MaxFailures /\ failures' = failures + 1
    /\ Goto(p, "release")
    /\ UNCHANGED <<ledger, torn, lock, memory, paid, deaths>>

\* The whole line is there, and then fsync or close fails.
FailSync(p) ==
    /\ pc[p] \in {"heading", "appending"}
    /\ failures < MaxFailures /\ failures' = failures + 1
    /\ ledger' = IF pc[p] = "heading" THEN <<Header(memory[p].request)>>
                                      ELSE Append(ledger, NextRecord(p))
    /\ torn' = FALSE
    /\ Goto(p, "release")
    /\ UNCHANGED <<lock, memory, paid, deaths>>

\* The lock directory is removed on every way out of the with block; a removal that
\* fails leaves what a death at this point leaves.
Release(p) ==
    /\ pc[p] = "release"
    /\ lock' = Nothing
    /\ memory' = [memory EXCEPT ![p] = NoMemory]
    /\ Goto(p, "idle")
    /\ UNCHANGED <<ledger, torn, paid, deaths, failures>>

\* A death leaves the lock directory, and a line as far as it was written.
Die(p) ==
    /\ pc[p] # "idle" /\ deaths < MaxDeaths
    /\ deaths' = deaths + 1
    /\ memory' = [memory EXCEPT ![p] = NoMemory]
    /\ Goto(p, "idle")
    /\ UNCHANGED <<ledger, torn, lock, paid, failures>>

\* "Inspect a stale lock before removing it": its maker is gone.
RemoveStaleLock ==
    /\ lock # Nothing
    /\ pc[lock] = "idle"
    /\ lock' = Nothing
    /\ UNCHANGED <<ledger, torn, pc, memory, paid, deaths, failures>>

Step(p) ==
    \/ Read(p) \/ BeginHeader(p) \/ FinishHeader(p) \/ Verify(p) \/ Decide(p)
    \/ ControllerAnswers(p) \/ ControllerFails(p)
    \/ BeginAppend(p) \/ FinishAppend(p) \/ FailAppend(p) \/ FailSync(p)
    \/ Release(p)

Next ==
    \/ \E p \in Process: Step(p) \/ Die(p) \/ \E q \in Requests: Invoke(p, q)
    \/ RemoveStaleLock

\* An invocation goes on, its call ends by its timeout, the operator removes a
\* stale lock and repeats each request.
Fairness ==
    /\ \A p \in Process: WF_vars(Step(p))
    /\ WF_vars(RemoveStaleLock)
    /\ \A q \in Requests: SF_vars(\E p \in Process: Invoke(p, q))

Spec == Init /\ [][Next]_vars /\ Fairness

-----------------------------------------------------------------------------
(* What a running loop has in memory is what a replay of the file would give
   it: an invocation that is killed and repeated decides as this one would. *)
MemoryIsReplay ==
    \A p \in Process: pc[p] \in {"loop", "calling", "append", "appending"} =>
        /\ Verified(ledger, memory[p].request)
        /\ memory[p].head = HeadOf(ledger) /\ memory[p].previous = PreviousOf(ledger)
        /\ memory[p].count = CountOf(ledger) /\ memory[p].last = Len(ledger)
        /\ memory[p].rejections = RejectionsOf(ledger)

(* A call is paid again only for a death or a failure: at most one call per
   interruption is missing from the file. *)
InFlight == {p \in Process: pc[p] \in {"calling", "append", "appending"}}
PaidCallsAreRecorded ==
    ledger # <<>> =>
        paid <= CountOf(ledger) + Cardinality(InFlight) + deaths + failures

(* The file is one history of one request, over all invocations. *)
History == INSTANCE GenerationHistory WITH
    owner <- IF ledger = <<>> THEN Nothing ELSE ledger[1].owner,
    head <- IF ledger = <<>> THEN Nothing ELSE HeadOf(ledger),
    count <- IF ledger = <<>> THEN 0 ELSE CountOf(ledger),
    rejections <- IF ledger = <<>> THEN 0 ELSE RejectionsOf(ledger)

ImplementsHistory == History!Spec

(* An evolution whose request is repeated reaches its limit, whatever stopped
   it on the way, unless a write was cut: then the file stays refused. *)
Finished ==
    /\ ledger # <<>>
    /\ \/ CountOf(ledger) = ledger[1].owner.maxGenerations
       \/ RejectionsOf(ledger) = ledger[1].owner.maxRejections
EvolutionFinishes == <>[](Finished \/ torn)
=============================================================================
