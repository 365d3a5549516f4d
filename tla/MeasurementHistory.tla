------------------------- MODULE MeasurementHistory -------------------------
(***************************************************************************)
(* history.py: recorders and readers of one dedicated Git repository.  A   *)
(* recorder initialises or validates the repository, makes its lock        *)
(* directory, wants a clean worktree, replaces three files one by one,     *)
(* stages them, commits, and reads the commit back.  Readers take no lock. *)
(*                                                                         *)
(* Git keeps linear commits, so a commit is its index; it commits what is  *)
(* staged, in one step, and only if HEAD is still where it was.  A         *)
(* recorder may die at any point, and its git commit may outlive it; every *)
(* system call and Git command may fail.  The operator removes a lock      *)
(* whose maker is gone and resets the worktree, and leaves an index that   *)
(* a commit is still reading (Git locks it) alone.                         *)
(***************************************************************************)
EXTENDS Integers, Sequences, FiniteSets, Functions

CONSTANTS
    Process, Readers,    \* recorders, and invocations of log and verify
    Requests, Builds,    \* measured requests; provenances
    Response(_),         \* what Metering answers
    MaxRecords,          \* bound on commits
    MaxDeaths,           \* bound on recorders that die
    MaxFailures,         \* bound on Git commands and writes that fail
    None

ASSUME HistoryAssumption ==
    /\ None \notin Process /\ None \notin Requests
    /\ MaxRecords \in Nat /\ MaxDeaths \in Nat /\ MaxFailures \in Nat

VARIABLES
    repository,  \* "absent", "empty", "init" (a .git not yet on the branch) or "ready"
    commits,     \* the commits of metering-history, oldest first
    files,       \* the three files in the worktree
    staged,      \* the three files in the index
    strays,      \* TRUE when a temporary file was left
    lock,        \* who made the lock directory
    pc,          \* the point a recorder or reader is at
    mine,        \* what a recorder measured and found: [record, parent, answer]
    seen,        \* the head a reader resolved
    orphan,      \* the git commit of a recorder that died: [record, parent]
    deaths, failures

repositoryVars == <<repository, commits, files, staged, strays, lock>>
vars == <<repositoryVars, pc, mine, seen, orphan, deaths, failures>>

Log == INSTANCE MeasurementLog WITH log <- commits

NoFiles == [configuration |-> None, result |-> None, provenance |-> None]
NothingMine == [record |-> NoFiles, parent |-> 0, answer |-> 0]

Init ==
    /\ repository = "absent" /\ commits = <<>>
    /\ files = NoFiles /\ staged = NoFiles /\ strays = FALSE /\ lock = None
    /\ pc = [p \in Process \cup Readers |-> "idle"]
    /\ mine = [p \in Process |-> NothingMine]
    /\ seen = [r \in Readers |-> 0]
    /\ orphan = None /\ deaths = 0 /\ failures = 0

Goto(p, point) == pc' = [pc EXCEPT ![p] = point]

Tracked(n) == IF n = 0 THEN NoFiles ELSE commits[n]
Tip == Len(commits)

\* git status: worktree, index and HEAD agree, and nothing is untracked.
Clean == files = Tracked(Tip) /\ staged = Tracked(Tip) /\ ~strays

-----------------------------------------------------------------------------
(* Recorders *)

\* The request was measured first; a rejected one gets no further than that.
Measure(p) ==
    /\ pc[p] = "idle" /\ Tip < MaxRecords
    /\ \E request \in Requests, build \in Builds:
            mine' = [mine EXCEPT ![p] =
                        [NothingMine EXCEPT !.record = Log!Measurement(request, build)]]
    /\ Goto(p, "prepare")
    /\ UNCHANGED <<repositoryVars, seen, orphan, deaths, failures>>

\* Mutant: only a directory this recorder makes is initialised.
MutantFindRoot(p) ==
    /\ pc[p] = "prepare"
    /\ Goto(p, IF repository = "absent" THEN "mkdir" ELSE "branch")
    /\ UNCHANGED <<repositoryVars, mine, seen, orphan, deaths, failures>>

\* _prepare_history, step by step: others may be at it too.
FindRoot(p) ==
    /\ pc[p] = "prepare"
    /\ Goto(p, IF repository = "absent" THEN "mkdir" ELSE "find-git")
    /\ UNCHANGED <<repositoryVars, mine, seen, orphan, deaths, failures>>

\* mkdir of a directory that another recorder has made meanwhile fails.
MakeRoot(p) ==
    /\ pc[p] = "mkdir"
    /\ repository' = IF repository = "absent" THEN "empty" ELSE repository
    /\ Goto(p, IF repository = "absent" THEN "find-git" ELSE "idle")
    /\ UNCHANGED <<commits, files, staged, strays, lock, mine, seen, orphan, deaths,
                   failures>>

FindGit(p) ==
    /\ pc[p] = "find-git"
    /\ Goto(p, IF repository = "empty" THEN "inspect" ELSE "branch")
    /\ UNCHANGED <<repositoryVars, mine, seen, orphan, deaths, failures>>

\* A directory that has entries and is no repository is refused.
InspectRoot(p) ==
    /\ pc[p] = "inspect"
    /\ Goto(p, IF repository = "empty" THEN "init" ELSE "idle")
    /\ UNCHANGED <<repositoryVars, mine, seen, orphan, deaths, failures>>

\* git init of a repository that exists leaves its HEAD alone.
GitInit(p) ==
    /\ pc[p] = "init"
    /\ repository' = IF repository = "empty" THEN "init" ELSE repository
    /\ Goto(p, "symbolic-ref")
    /\ UNCHANGED <<commits, files, staged, strays, lock, mine, seen, orphan, deaths,
                   failures>>

SymbolicRef(p) ==
    /\ pc[p] = "symbolic-ref"
    /\ repository' = "ready"
    /\ Goto(p, "branch")
    /\ UNCHANGED <<commits, files, staged, strays, lock, mine, seen, orphan, deaths,
                   failures>>

CheckBranch(p) ==
    /\ pc[p] = "branch"
    /\ Goto(p, IF repository = "ready" THEN "lock" ELSE "idle")
    /\ UNCHANGED <<repositoryVars, mine, seen, orphan, deaths, failures>>

\* Mutant: a lock directory that exists is taken for one's own.
MutantLock(p) ==
    /\ pc[p] = "lock"
    /\ lock' = p /\ Goto(p, "clean")
    /\ UNCHANGED <<repository, commits, files, staged, strays, mine, seen, orphan,
                   deaths, failures>>

Lock(p) ==
    /\ pc[p] = "lock"
    /\ \/ lock = None /\ lock' = p /\ Goto(p, "clean")
       \/ lock # None /\ Goto(p, "idle") /\ UNCHANGED lock
    /\ UNCHANGED <<repository, commits, files, staged, strays, mine, seen, orphan,
                   deaths, failures>>

EnsureClean(p) ==
    /\ pc[p] = "clean"
    /\ Goto(p, IF Clean THEN "log" ELSE "release")
    /\ UNCHANGED <<repositoryVars, mine, seen, orphan, deaths, failures>>

ReadLog(p) ==
    /\ pc[p] = "log"
    /\ mine' = [mine EXCEPT ![p].parent = Tip]
    /\ Goto(p, "configuration")
    /\ UNCHANGED <<repositoryVars, seen, orphan, deaths, failures>>

NextPoint == [configuration |-> "result", result |-> "provenance", provenance |-> "stage"]

\* _write_file_atomically replaces one of the files.
WriteFile(p) ==
    /\ pc[p] \in DOMAIN NextPoint
    /\ files' = [files EXCEPT ![pc[p]] = mine[p].record[pc[p]]]
    /\ Goto(p, NextPoint[pc[p]])
    /\ UNCHANGED <<repository, commits, staged, strays, lock, mine, seen, orphan,
                   deaths, failures>>

Stage(p) ==
    /\ pc[p] = "stage"
    /\ staged' = files
    /\ Goto(p, "commit")
    /\ UNCHANGED <<repository, commits, files, strays, lock, mine, seen, orphan,
                   deaths, failures>>

Commit(p) ==
    /\ pc[p] = "commit"
    /\ commits' = Append(commits, staged)
    /\ Goto(p, "readback")
    /\ UNCHANGED <<repository, files, staged, strays, lock, mine, seen, orphan, deaths,
                   failures>>

\* Mutant: whatever HEAD names is taken for the commit just made.
MutantReadBack(p) ==
    /\ pc[p] = "readback"
    /\ mine' = [mine EXCEPT ![p].answer = Tip] /\ Goto(p, "settle")
    /\ UNCHANGED <<repositoryVars, seen, orphan, deaths, failures>>

\* The commit at HEAD must be this recorder's, with the parent it read before.
ReadBack(p) ==
    /\ pc[p] = "readback"
    /\ \/ /\ Tip = mine[p].parent + 1
          /\ mine' = [mine EXCEPT ![p].answer = Tip] /\ Goto(p, "settle")
       \/ Tip # mine[p].parent + 1 /\ Goto(p, "release") /\ UNCHANGED mine
    /\ UNCHANGED <<repositoryVars, seen, orphan, deaths, failures>>

\* The second look at the worktree; without it there is no answer.
Settle(p) ==
    /\ pc[p] = "settle"
    /\ mine' = IF Clean THEN mine ELSE [mine EXCEPT ![p].answer = 0]
    /\ Goto(p, "release")
    /\ UNCHANGED <<repositoryVars, seen, orphan, deaths, failures>>

\* The record, or the error, is printed.
Release(p) ==
    /\ pc[p] = "release"
    /\ lock' = None
    /\ mine' = [mine EXCEPT ![p] = NothingMine]
    /\ Goto(p, "idle")
    /\ UNCHANGED <<repository, commits, files, staged, strays, seen, orphan, deaths,
                   failures>>

Locked == {"clean", "log", "configuration", "result", "provenance", "stage", "commit",
           "readback", "settle", "release"}

\* git init that is cut short may leave a .git that is not on the branch.
HalfInit(p) == IF pc[p] = "init" /\ repository = "empty" THEN {"empty", "init"} ELSE {repository}

\* A system call or a Git command fails, or takes more than thirty seconds.
FailStep(p) ==
    /\ pc[p] \notin {"idle", "prepare", "find-git", "release"} /\ failures < MaxFailures
    /\ failures' = failures + 1
    /\ repository' \in HalfInit(p)
    /\ Goto(p, IF pc[p] \in Locked THEN "release" ELSE "idle")
    /\ UNCHANGED <<commits, files, staged, strays, lock, mine, seen, orphan, deaths>>

\* The lock directory cannot be removed: that is the error, and there is no answer.
FailRelease(p) ==
    /\ pc[p] = "release" /\ failures < MaxFailures
    /\ failures' = failures + 1
    /\ mine' = [mine EXCEPT ![p] = NothingMine]
    /\ Goto(p, "idle")
    /\ UNCHANGED <<repositoryVars, seen, orphan, deaths>>

\* A death leaves the lock, perhaps a temporary file, perhaps a running commit; that
\* commit reads the index and HEAD before the operator touches them.
Die(p) ==
    /\ pc[p] # "idle" /\ deaths < MaxDeaths
    /\ deaths' = deaths + 1
    /\ repository' \in HalfInit(p)
    /\ strays' \in IF pc[p] \in DOMAIN NextPoint THEN {strays, TRUE} ELSE {strays}
    /\ orphan' \in {orphan} \cup
            (IF pc[p] = "commit" THEN {[record |-> staged, parent |-> Tip]} ELSE {})
    /\ mine' = [mine EXCEPT ![p] = NothingMine]
    /\ Goto(p, "idle")
    /\ UNCHANGED <<commits, files, staged, lock, seen, failures>>

\* The commit of a dead recorder ends: Git moves HEAD only from where it was.
OrphanEnds ==
    /\ orphan # None
    /\ commits' = IF Tip = orphan.parent THEN Append(commits, orphan.record) ELSE commits
    /\ orphan' = None
    /\ UNCHANGED <<repository, files, staged, strays, lock, pc, mine, seen, deaths,
                   failures>>

RemoveStaleLock ==
    /\ lock # None /\ pc[lock] \notin Locked
    /\ lock' = None
    /\ UNCHANGED <<repository, commits, files, staged, strays, pc, mine, seen, orphan,
                   deaths, failures>>

\* The operator resets and cleans what nobody is working on.
ResetFiles ==
    /\ lock = None /\ ~Clean
    /\ files' = Tracked(Tip) /\ staged' = Tracked(Tip) /\ strays' = FALSE
    /\ UNCHANGED <<repository, commits, lock, pc, mine, seen, orphan, deaths, failures>>

-----------------------------------------------------------------------------
(* Readers *)

\* verify looks at the lock, and then at the worktree; log at neither.
BeginVerify(r) ==
    /\ pc[r] = "idle" /\ repository = "ready" /\ lock = None
    /\ Goto(r, "status")
    /\ UNCHANGED <<repositoryVars, mine, seen, orphan, deaths, failures>>

CheckStatus(r) ==
    /\ pc[r] = "status" /\ ~Clean
    /\ Goto(r, "idle")
    /\ UNCHANGED <<repositoryVars, mine, seen, orphan, deaths, failures>>

\* _history_log resolves HEAD: without one there is nothing to list.
ReadHead(r) ==
    /\ repository = "ready" /\ Tip > 0
    /\ \/ pc[r] = "idle"
       \/ pc[r] = "status" /\ Clean
    /\ seen' = [seen EXCEPT ![r] = Tip]
    /\ Goto(r, "list")
    /\ UNCHANGED <<repositoryVars, mine, orphan, deaths, failures>>

FindEmpty(r) ==
    /\ pc[r] = "status" /\ Clean /\ Tip = 0
    /\ Goto(r, "idle")
    /\ UNCHANGED <<repositoryVars, mine, seen, orphan, deaths, failures>>

\* It lists the commits of HEAD, resolved once more, and prints both.
ListRecords(r) ==
    /\ pc[r] = "list"
    /\ seen' = [seen EXCEPT ![r] = 0]
    /\ Goto(r, "idle")
    /\ UNCHANGED <<repositoryVars, mine, orphan, deaths, failures>>

-----------------------------------------------------------------------------
Step(p) ==
    \/ FindRoot(p) \/ MakeRoot(p) \/ FindGit(p) \/ InspectRoot(p) \/ GitInit(p)
    \/ SymbolicRef(p) \/ CheckBranch(p) \/ Lock(p) \/ EnsureClean(p) \/ ReadLog(p)
    \/ WriteFile(p) \/ Stage(p) \/ Commit(p) \/ ReadBack(p) \/ Settle(p) \/ Release(p)
    \/ FailStep(p) \/ FailRelease(p)

Read(r) == BeginVerify(r) \/ CheckStatus(r) \/ ReadHead(r) \/ FindEmpty(r) \/ ListRecords(r)

Next ==
    \/ \E p \in Process: Measure(p) \/ Step(p) \/ Die(p)
    \/ \E r \in Readers: Read(r)
    \/ OrphanEnds \/ RemoveStaleLock \/ ResetFiles

\* Recorders run, Git ends, the operator repairs what an interruption leaves and
\* records again.
Fairness ==
    /\ \A p \in Process: WF_vars(Step(p)) /\ WF_vars(Measure(p))
    /\ WF_vars(OrphanEnds) /\ WF_vars(RemoveStaleLock)
    /\ SF_vars(ResetFiles) /\ \A p \in Process: SF_vars(Lock(p) /\ lock = None)

Spec == Init /\ [][Next]_vars /\ Fairness

-----------------------------------------------------------------------------
(* However recorders overlap, die between their files and leave commits behind
   them, the branch is a log of whole measurements: no commit ever holds the
   configuration of one and the result of another. *)
ImplementsLog == Log!Spec

(* A recorder that answers names the commit of its own measurement, on top of
   the history it had validated. *)
AnswersAreTheirs ==
    \A p \in Process: mine[p].answer # 0 =>
        /\ commits[mine[p].answer] = mine[p].record
        /\ mine[p].answer = mine[p].parent + 1

\* git init is over and nobody is left to name the branch: a later recorder finds a
\* .git, does not initialise it again, and refuses its branch.
CutShort == repository = "init" /\ \A p \in Process: pc[p] \notin {"init", "symbolic-ref"}

(* Recording goes on over every interruption but one: what a dead recorder
   leaves is repaired by removing a lock and resetting files, unless it died, or
   Git failed, when .git was there and HEAD not yet on the branch. *)
RecordingGoesOn == []~CutShort => <>(Tip = MaxRecords)

(* The head a reader reports is the newest of the records it reports. *)
HeadIsNewest == [][\A r \in Readers: ListRecords(r) => seen[r] = Tip]_vars
=============================================================================
