-------------------------- MODULE PopulationCommands --------------------------
(***************************************************************************)
(* Concurrent invocations of the Population command line                   *)
(* (apps/population/population.py) over one state directory: the lock      *)
(* directory, the ledger file, the SQLite projection, and processes that   *)
(* may die at any point and leave the lock, or half a line, behind.        *)
(***************************************************************************)
EXTENDS PopulationIndex

CONSTANTS
    Process,      \* invocations that may overlap
    NoProcess,    \* the lock directory does not exist
    Request,      \* the requests given on standard input
    MaxRecords,   \* bound: requests that append are not started beyond it
    MaxCrashes    \* bound on deaths of a process

ASSUME NoProcessAssumption == NoProcess \notin Process
\* What the request decoders check before a command does anything.
ASSUME RequestAssumption ==
    \A q \in Request :
        /\ q.command = "candidate" => q.cand \in Candidate
        /\ q.command = "allocate" => q.draw.denominator \in Nat
        /\ q.command = "query" => q.type \in {"summary", "candidates", "lineage", "archive"}
ASSUME BoundsAssumption == MaxRecords \in Nat /\ MaxCrashes \in Nat

VARIABLES
    ledger,    \* the complete lines of population.jsonl
    torn,      \* the file ends in an incomplete line
    index,     \* the tables of the SQLite file, empty ones when it is absent
    lock,      \* who created STATE.lock
    pc,        \* per process: its next step
    request,   \* per process: its request
    view,      \* per process: the ledger load_state returned
    body,      \* per process: the record it is going to append
    answered,  \* per process: the answer its query has read, none yet or refused: {}
    crashes

durable == <<ledger, torn, index, lock>>
process == <<pc, request, view, body, answered>>
vars == <<ledger, torn, index, lock, pc, request, view, body, answered, crashes>>

NoRequest == [command |-> "none"]
NoRecord == [kind |-> "none"]

Appending == {"init", "candidate", "recombine", "experiment", "run", "archive", "allocate"}
Reading == {"verify", "rebuild", "verify-index", "query"}

States == {"idle", "locked", "loaded", "appending", "writing", "releasing"}

TypeOK ==
    /\ IsLedger(ledger)
    /\ torn \in BOOLEAN
    /\ lock \in Process \cup {NoProcess}
    /\ pc \in [Process -> States]
    /\ request \in [Process -> Request \cup {NoRequest}]
    /\ \A p \in Process : IsLedger(view[p])
    /\ crashes \in 0..MaxCrashes

Init ==
    /\ ledger = << >>
    /\ torn = FALSE
    /\ index = NoProjection
    /\ lock = NoProcess
    /\ pc = [p \in Process |-> "idle"]
    /\ request = [p \in Process |-> NoRequest]
    /\ view = [p \in Process |-> << >>]
    /\ body = [p \in Process |-> NoRecord]
    /\ answered = [p \in Process |-> {}]
    /\ crashes = 0

----------------------------------------------------------------------------
\* The body each decode_*_request builds from a request and the loaded state:
\* one record, or none when the request is refused.

CandidateRecord(q, c) ==
    [kind |-> "candidate", cand |-> c, parents |-> q.parents,
     variation |-> q.variation, loci |-> q.loci]

Bodies(l, q) ==
    CASE q.command = "init" -> {Header}
      [] q.command = "candidate" ->
             {r \in {CandidateRecord(q, q.cand)} : CandidateBodyValid(l, r)}
      [] q.command = "recombine" ->
             {r \in {CandidateRecord(q, c) : c \in Candidate} : CandidateBodyValid(l, r)}
      [] q.command = "experiment" -> {[kind |-> "experiment", exp |-> q.exp]}
      [] q.command = "run" ->
             {r \in {[kind |-> "run", cand |-> q.cand, exp |-> q.exp,
                      rep |-> q.rep, ev |-> q.ev]} :
                 r.cand \in Candidates(l) /\ r.exp \in Experiments(l)}
      [] q.command = "archive" ->
             {ArchiveBody(l, e) : e \in {x \in {q.exp} : ArchivableExperiment(l, x)}}
      [] q.command = "allocate" ->
             {AllocationBody(l, a, q.draw) :
                 a \in {x \in {q.archive} : AllocationPossible(l, x, q.draw)}}

\* What a request may append to the ledger it has loaded.  initialize()
\* refuses a directory that already holds a ledger; everything else needs one.
Appendable(l, q) ==
    IF q.command = "init"
      THEN IF l = << >> THEN {Header} ELSE {}
      ELSE IF l = << >> THEN {} ELSE {r \in Bodies(l, q) : RecordValid(l, r)}

Goto(p, s) == pc' = [pc EXCEPT ![p] = s]

----------------------------------------------------------------------------

\* Mutant: an existing lock directory is not an error.
StartUnlocked(p, q) ==
    /\ pc[p] = "idle"
    /\ q.command \in Appending => Len(ledger) < MaxRecords
    /\ lock' = p
    /\ Goto(p, "locked")
    /\ request' = [request EXCEPT ![p] = q]
    /\ UNCHANGED <<ledger, torn, index, view, body, answered, crashes>>

\* locked_state: mkdir succeeds for one process; for another, the command
\* ends with an error and changes nothing.
Start(p, q) ==
    /\ pc[p] = "idle"
    /\ lock = NoProcess
    /\ q.command \in Appending => Len(ledger) < MaxRecords
    /\ lock' = p
    /\ Goto(p, "locked")
    /\ request' = [request EXCEPT ![p] = q]
    /\ UNCHANGED <<ledger, torn, index, view, body, answered, crashes>>

\* Mutants: a torn line is skipped; a torn line is waited for.
LoadSkippingTorn(p) ==
    /\ pc[p] = "locked"
    /\ IF ledger = << >> /\ request[p].command # "init"
         THEN Goto(p, "releasing") /\ view' = view
         ELSE Goto(p, "loaded") /\ view' = [view EXCEPT ![p] = ledger]
    /\ UNCHANGED <<ledger, torn, index, lock, request, body, answered, crashes>>

LoadAwaitingLine(p) == ~ torn /\ LoadSkippingTorn(p)

\* load_state, or the emptiness test of initialize: a missing or torn
\* ledger is refused.
Load(p) ==
    /\ pc[p] = "locked"
    /\ IF torn \/ (ledger = << >> /\ request[p].command # "init")
         THEN Goto(p, "releasing") /\ view' = view
         ELSE Goto(p, "loaded") /\ view' = [view EXCEPT ![p] = ledger]
    /\ UNCHANGED <<ledger, torn, index, lock, request, body, answered, crashes>>

\* Decode the request and apply its record to the loaded state in memory.
Validate(p) ==
    /\ pc[p] = "loaded"
    /\ request[p].command \in Appending
    /\ \/ \E r \in Appendable(view[p], request[p]) :
            body' = [body EXCEPT ![p] = r] /\ Goto(p, "appending")
       \/ /\ Appendable(view[p], request[p]) = {}
          /\ body' = body /\ Goto(p, "releasing")
    /\ UNCHANGED <<ledger, torn, index, lock, request, view, answered, crashes>>

\* append_fsynced is not atomic: other processes, and a crash, see the file
\* between the first and the last byte of the line.
BeginAppend(p) ==
    /\ pc[p] = "appending"
    /\ torn' = TRUE
    /\ Goto(p, "writing")
    /\ UNCHANGED <<ledger, index, lock, request, view, body, answered, crashes>>

FinishAppend(p) ==
    /\ pc[p] = "writing"
    /\ ledger' = Append(ledger, body[p])
    /\ torn' = FALSE
    /\ Goto(p, "releasing")
    /\ UNCHANGED <<index, lock, request, view, body, answered, crashes>>

\* The operating system refuses the write, before its first byte or midway:
\* the error leaves the line as it is and the lock is released.
FailAppend(p) ==
    /\ pc[p] \in {"appending", "writing"}
    /\ crashes < MaxCrashes
    /\ crashes' = crashes + 1
    /\ Goto(p, "releasing")
    /\ UNCHANGED <<ledger, torn, index, lock, request, view, body, answered>>

\* Mutant: a query trusts the projection it finds.
ReadUnverified(p) ==
    /\ pc[p] = "loaded"
    /\ request[p].command \in Reading
    /\ index' = IF request[p].command = "rebuild" THEN Projection(view[p]) ELSE index
    /\ answered' = IF request[p].command = "query"
                     THEN [answered EXCEPT ![p] = QueryAnswers(index, request[p])]
                     ELSE answered
    /\ Goto(p, "releasing")
    /\ UNCHANGED <<ledger, torn, lock, request, view, body, crashes>>

\* The commands that append nothing.  rebuild replaces the projection
\* atomically (a temporary file renamed into place); verify and verify-index
\* change nothing; query answers only from one that equals a fresh rebuild.
Read(p) ==
    /\ pc[p] = "loaded"
    /\ request[p].command \in Reading
    /\ index' = IF request[p].command = "rebuild" THEN Projection(view[p]) ELSE index
    /\ answered' = IF request[p].command = "query" /\ IndexMatches(index, view[p])
                     THEN [answered EXCEPT ![p] = QueryAnswers(index, request[p])]
                     ELSE answered
    /\ Goto(p, "releasing")
    /\ UNCHANGED <<ledger, torn, lock, request, view, body, crashes>>

\* Mutant: only the directory's owner is cleared, to no process state.
ReleaseNowhere(p) ==
    /\ pc[p] = "releasing"
    /\ lock' = NoProcess
    /\ Goto(p, "released")
    /\ UNCHANGED <<ledger, torn, index, request, view, body, answered, crashes>>

\* The finally of locked_state, after success and after every error; a rmdir that
\* fails ends the command with its lock left, as Crash does at this point.
Release(p) ==
    /\ pc[p] = "releasing"
    /\ lock' = NoProcess
    /\ Goto(p, "idle")
    /\ request' = [request EXCEPT ![p] = NoRequest]
    /\ view' = [view EXCEPT ![p] = << >>]
    /\ body' = [body EXCEPT ![p] = NoRecord]
    /\ answered' = [answered EXCEPT ![p] = {}]
    /\ UNCHANGED <<ledger, torn, index, crashes>>

\* The process is killed: what it held in memory is gone, the lock stays.
Crash(p) ==
    /\ pc[p] # "idle"
    /\ crashes < MaxCrashes
    /\ crashes' = crashes + 1
    /\ Goto(p, "idle")
    /\ request' = [request EXCEPT ![p] = NoRequest]
    /\ view' = [view EXCEPT ![p] = << >>]
    /\ body' = [body EXCEPT ![p] = NoRecord]
    /\ answered' = [answered EXCEPT ![p] = {}]
    /\ UNCHANGED <<ledger, torn, index, lock>>

\* "Inspect an abandoned lock before removing it": the operator removes the
\* lock directory of a process that is gone.
RemoveAbandonedLock ==
    /\ lock # NoProcess
    /\ pc[lock] = "idle"
    /\ lock' = NoProcess
    /\ UNCHANGED <<ledger, torn, index, process, crashes>>

Step(p) ==
    \/ Load(p) \/ Validate(p) \/ BeginAppend(p) \/ FinishAppend(p)
    \/ Read(p) \/ Release(p)

Next ==
    \/ \E p \in Process :
          \/ \E q \in Request : Start(p, q)
          \/ Step(p)
          \/ FailAppend(p)
          \/ Crash(p)
    \/ RemoveAbandonedLock

Spec == Init /\ [][Next]_vars

\* A running process is scheduled, and an operator deals with a dead one's lock.
Fairness ==
    /\ \A p \in Process : WF_vars(Step(p))
    /\ WF_vars(RemoveAbandonedLock)

FairSpec == Spec /\ Fairness

----------------------------------------------------------------------------
\* Properties.

Abstract == INSTANCE PopulationLedger

\* However invocations overlap, fail and die, the complete lines of the file
\* grow by one record at a time, each valid against all lines before it: the
\* lock makes load-validate-append atomic (locked_state around
\* _mutating_response).
LedgerAtomic == Abstract!Spec

\* The seal, the freshness of allocations, survival of allocated parents,
\* mixing of recombinants and lineage, on the ledger of every state.
SealHolds == SearchSealed(ledger)
AllocationsAreFresh == AllocationsFresh(ledger)
OnlySurvivorsAllocated == AllocatedParentsSurvived(ledger)
RecombinantsAreMixed == RecombinantsMix(ledger)
LineageIsWellFounded == LineageWellFounded(ledger)

\* Nothing is ever appended after an incomplete line, which would fuse two
\* records: read_complete_lines refuses the file first.
TornLineIsLast ==
    [][\A p \in Process : (pc[p] = "appending" /\ pc'[p] = "writing") => ~ torn]_vars

\* What a query prints is true of the ledger as it is when it is printed: the
\* projection may be of an older ledger, of none, or be rebuilt meanwhile
\* (verify_index inside query_index, both under the lock).
QueriesAreCurrent ==
    \A p \in Process : \A a \in answered[p] : AnswerHolds(ledger, request[p], a)

\* The lock always comes free again, provided operators remove the locks of
\* dead processes: no error path of a living process keeps it.
LockComesFree == lock # NoProcess ~> lock = NoProcess
=============================================================================
