---------------------- MODULE MeasurementHistory_proofs ----------------------
(***************************************************************************)
(* The measurement history is a log of whole measurements, and an answer   *)
(* names its own, for any number of recorders, readers and deaths.         *)
(*                                                                         *)
(* Whoever is between the lock and its release made the lock directory, so *)
(* the three files hold what it has written so far.  Only a commit that    *)
(* outlived its recorder may move HEAD meanwhile: it commits a whole       *)
(* measurement too, and makes the read back see one commit too many.       *)
(***************************************************************************)
EXTENDS MeasurementHistory, TLAPS

Measurements == {Log!Measurement(request, build) : request \in Requests, build \in Builds}
Contents == Requests \cup {Response(request) : request \in Requests} \cup Builds \cup {None}
Files == [configuration : Contents, result : Contents, provenance : Contents]
Mine == [record : Files, parent : Nat, answer : Nat]
Points == {"idle", "prepare", "mkdir", "find-git", "inspect", "init", "symbolic-ref", "branch", "lock",
           "status", "list"} \cup Locked

\* Where a recorder has measured and has no answer yet.
Unanswered == {"prepare", "mkdir", "find-git", "inspect", "init", "symbolic-ref", "branch", "lock",
               "clean", "log", "configuration", "result", "provenance", "stage", "commit", "readback"}

TypesHold ==
    /\ commits \in Seq(Measurements)
    /\ files \in Files /\ staged \in Files
    /\ lock \in Process \cup {None}
    /\ pc \in [Process \cup Readers -> Points]
    /\ mine \in [Process -> Mine]
    /\ orphan \in {None} \cup [record : Measurements, parent : Nat]

\* What a recorder that holds the lock has put into the worktree and the index.
HolderWrites(p) ==
    /\ pc[p] \in Locked => lock = p
    /\ pc[p] \in {"result", "provenance"} => files.configuration = mine[p].record.configuration
    /\ pc[p] = "provenance" => files.result = mine[p].record.result
    /\ pc[p] = "stage" => files = mine[p].record
    /\ pc[p] = "commit" => staged = mine[p].record

\* What it has measured, and what it will find at HEAD.
HolderFinds(p) ==
    /\ pc[p] \in Unanswered => mine[p].record \in Measurements /\ mine[p].answer = 0
    /\ pc[p] \in {"configuration", "result", "provenance", "stage", "commit"} => mine[p].parent <= Tip
    /\ pc[p] = "readback" => /\ mine[p].parent < Tip
                             /\ Tip = mine[p].parent + 1 => commits[Tip] = mine[p].record
    /\ mine[p].answer # 0 => /\ mine[p].answer <= Tip
                             /\ mine[p].answer = mine[p].parent + 1
                             /\ commits[mine[p].answer] = mine[p].record

IInv == TypesHold /\ \A p \in Process : HolderWrites(p) /\ HolderFinds(p)

-----------------------------------------------------------------------------
(* Data.                                                                   *)

(* A measurement is three files, and no files are three files too.         *)
LEMMA MeasurementsAreFiles ==
    Measurements \subseteq Files /\ NoFiles \in Files
  BY DEF Measurements, Log!Measurement, Files, Contents, NoFiles

LEMMA MeasurementIsMember ==
    ASSUME NEW request \in Requests, NEW build \in Builds
    PROVE  Log!Measurement(request, build) \in Measurements
  BY DEF Measurements

(* Commits are only added, and only whole ones.                            *)
LEMMA AppendKeeps ==
    ASSUME commits \in Seq(Measurements), NEW m \in Measurements
    PROVE  /\ Append(commits, m) \in Seq(Measurements)
           /\ Len(Append(commits, m)) = Tip + 1 /\ Tip \in Nat
           /\ Append(commits, m)[Tip + 1] = m
           /\ \A i \in 1..Tip : Append(commits, m)[i] = commits[i]
  BY DEF Tip

LEMMA TrackedIsFiles ==
    ASSUME commits \in Seq(Measurements)
    PROVE  Tracked(Tip) \in Files
  BY MeasurementsAreFiles DEF Tracked, Tip

(* The step of one recorder or reader leaves every other where it was.     *)
LEMMA GotoMoves ==
    ASSUME TypesHold, NEW p \in Process \cup Readers, NEW point \in Points, Goto(p, point)
    PROVE  /\ pc' \in [Process \cup Readers -> Points]
           /\ pc'[p] = point
           /\ \A q \in Process : q # p => pc'[q] = pc[q]
  BY DEF Goto, TypesHold

(* A commit is appended beneath recorders that are not committing it.      *)
LEMMA AppendKeepsFinds ==
    ASSUME TypesHold, NEW q \in Process, HolderFinds(q), NEW m \in Measurements,
           commits' = Append(commits, m), pc'[q] = pc[q], mine'[q] = mine[q]
    PROVE  HolderFinds(q)'
  <1>1. /\ Len(commits') = Tip + 1 /\ Tip \in Nat
        /\ \A i \in 1..Tip : commits'[i] = commits[i]
        /\ mine[q].parent \in Nat /\ mine[q].answer \in Nat
    BY AppendKeeps DEF TypesHold, Mine
  <1> QED BY <1>1 DEF HolderFinds, Tip

(* A recorder that did not move, and whose files nobody touched, is where  *)
(* it was.                                                                 *)
LEMMA OthersStay ==
    ASSUME IInv, NEW q \in Process, pc'[q] = pc[q], mine'[q] = mine[q],
           \/ UNCHANGED <<files, staged, lock>>
           \/ pc[q] \notin Locked,
           \/ UNCHANGED commits
           \/ \E m \in Measurements : commits' = Append(commits, m)
    PROVE  HolderWrites(q)' /\ HolderFinds(q)'
  <1>1. HolderWrites(q)'
    BY DEF IInv, HolderWrites, Locked
  <1>2. CASE UNCHANGED commits
    BY <1>1, <1>2 DEF IInv, HolderFinds, Tip
  <1>3. CASE \E m \in Measurements : commits' = Append(commits, m)
    BY <1>1, <1>3, AppendKeepsFinds DEF IInv
  <1> QED BY <1>2, <1>3

(* Who holds the lock is alone between the lock and its release.           *)
LEMMA HolderIsAlone ==
    ASSUME IInv, NEW p \in Process \cup {None}, lock = p, NEW q \in Process, q # p
    PROVE  pc[q] \notin Locked
  BY DEF IInv, HolderWrites

(* One recorder's step: what is left to show is what it does to itself.    *)
LEMMA OneMoves ==
    ASSUME IInv, NEW p \in Process, NEW point \in Points, Goto(p, point),
           TypesHold', HolderWrites(p)', HolderFinds(p)',
           \A q \in Process : q # p => mine'[q] = mine[q],
           \/ UNCHANGED <<files, staged, lock>>
           \/ lock \in {p, None},
           \/ UNCHANGED commits
           \/ \E m \in Measurements : commits' = Append(commits, m)
    PROVE  IInv'
  <1>1. ASSUME NEW q \in Process, q # p
        PROVE  HolderWrites(q)' /\ HolderFinds(q)'
    <2>1. pc'[q] = pc[q] /\ mine'[q] = mine[q]
      BY <1>1, GotoMoves DEF IInv
    <2>2. lock \in {p, None} => pc[q] \notin Locked
      BY <1>1, HolderIsAlone, HistoryAssumption
    <2> QED BY <2>1, <2>2, OthersStay
  <1> QED BY <1>1 DEF IInv

-----------------------------------------------------------------------------
(* Steps.                                                                  *)

LEMMA InitHolds ==
    ASSUME Init
    PROVE  IInv
  <1>1. NoFiles \in Files /\ \A p \in Process : mine[p] = NothingMine
    BY MeasurementsAreFiles DEF Init
  <1>2. NothingMine \in Mine
    BY <1>1 DEF NothingMine, Mine
  <1>3. TypesHold
    BY <1>1, <1>2 DEF Init, TypesHold, Points
  <1>4. \A p \in Process : pc[p] = "idle" /\ mine[p].answer = 0
    BY <1>1 DEF Init, NothingMine
  <1>5. \A p \in Process : HolderWrites(p) /\ HolderFinds(p)
    BY <1>4 DEF HolderWrites, HolderFinds, Locked, Unanswered
  <1> QED BY <1>3, <1>5 DEF IInv

(* A request is measured.                                                  *)
LEMMA MeasureKeeps ==
    ASSUME IInv, NEW p \in Process, Measure(p)
    PROVE  IInv'
  <1>1. PICK request \in Requests, build \in Builds :
          mine' = [mine EXCEPT ![p] = [NothingMine EXCEPT !.record = Log!Measurement(request, build)]]
    BY DEF Measure
  <1> DEFINE m == Log!Measurement(request, build)
             new == [NothingMine EXCEPT !.record = m]
  <1>2. m \in Measurements /\ m \in Files
    BY MeasurementIsMember, MeasurementsAreFiles
  <1> HIDE DEF m
  <1>3. new \in Mine /\ new.record = m /\ new.parent = 0 /\ new.answer = 0
    BY <1>2 DEF NothingMine, Mine
  <1>4. mine' = [mine EXCEPT ![p] = new]
    BY <1>1 DEF m
  <1> HIDE DEF new
  <1>5. /\ UNCHANGED <<commits, files, staged, lock, orphan>> /\ Goto(p, "prepare") /\ "prepare" \in Points
    BY DEF Measure, repositoryVars, Points
  <1>6. pc' \in [Process \cup Readers -> Points] /\ pc'[p] = "prepare"
    BY <1>5, GotoMoves DEF IInv
  <1>7. TypesHold' /\ mine'[p] = new /\ \A q \in Process : q # p => mine'[q] = mine[q]
    BY <1>3, <1>4, <1>5, <1>6 DEF IInv, TypesHold
  <1>8. HolderWrites(p)' /\ HolderFinds(p)'
    BY <1>2, <1>3, <1>6, <1>7 DEF HolderWrites, HolderFinds, Locked
  <1> QED BY <1>5, <1>7, <1>8, OneMoves

(* A step that only moves a recorder to a point where less is promised.    *)
LEMMA MoveKeeps ==
    ASSUME IInv, NEW p \in Process, NEW point \in Points, Goto(p, point),
           UNCHANGED <<commits, files, staged, lock, orphan, mine>>,
           point \in Locked => pc[p] \in Locked,
           point \in Unanswered => /\ pc[p] \in Unanswered
                                   /\ point \notin {"configuration", "result", "provenance",
                                                    "stage", "commit", "readback"}
    PROVE  IInv'
  <1>1. pc' \in [Process \cup Readers -> Points] /\ pc'[p] = point
    BY GotoMoves DEF IInv
  <1>2. TypesHold'
    BY <1>1 DEF IInv, TypesHold
  <1>3. HolderWrites(p)' /\ HolderFinds(p)'
    BY <1>1 DEF IInv, HolderWrites, HolderFinds, Tip, Unanswered, Locked
  <1> QED BY <1>2, <1>3, OneMoves

(* The preparation of the repository, and the failure of a step.           *)
LEMMA PreparingKeeps ==
    ASSUME IInv, NEW p \in Process,
           \/ FindRoot(p) \/ MakeRoot(p) \/ FindGit(p) \/ InspectRoot(p) \/ GitInit(p)
           \/ SymbolicRef(p) \/ CheckBranch(p) \/ EnsureClean(p) \/ FailStep(p)
    PROVE  IInv'
  <1>1. UNCHANGED <<commits, files, staged, lock, orphan, mine>>
    BY DEF FindRoot, MakeRoot, FindGit, InspectRoot, GitInit, SymbolicRef, CheckBranch, EnsureClean, FailStep, repositoryVars
  <1>2. PICK point \in {"mkdir", "find-git", "inspect", "branch", "init", "idle", "symbolic-ref", "lock", "log", "release"} :
          /\ Goto(p, point)
          /\ point \in {"log", "release"} => pc[p] \in Locked
          /\ point \notin {"idle", "release"} => pc[p] \in Unanswered
    BY DEF FindRoot, MakeRoot, FindGit, InspectRoot, GitInit, SymbolicRef, CheckBranch, EnsureClean, FailStep, Locked, Unanswered
  <1>3. point \in Points
    BY <1>2 DEF Points, Locked
  <1> QED BY <1>1, <1>2, <1>3, MoveKeeps DEF Locked, Unanswered

LEMMA LockKeeps ==
    ASSUME IInv, NEW p \in Process, Lock(p)
    PROVE  IInv'
  <1>1. UNCHANGED <<commits, files, staged, orphan, mine>> /\ pc[p] = "lock"
    BY DEF Lock
  <1>2. CASE lock # None
    <2>1. Goto(p, "idle") /\ lock' = lock /\ "idle" \in Points
      BY <1>2 DEF Lock, Points
    <2> QED BY <1>1, <2>1, MoveKeeps DEF Locked, Unanswered
  <1>3. CASE lock = None
    <2>1. lock' = p /\ Goto(p, "clean") /\ "clean" \in Points
      BY <1>3 DEF Lock, Points, Locked
    <2>2. pc' \in [Process \cup Readers -> Points] /\ pc'[p] = "clean"
      BY <2>1, GotoMoves DEF IInv
    <2>3. TypesHold'
      BY <1>1, <2>1, <2>2 DEF IInv, TypesHold
    <2>4. HolderWrites(p)' /\ HolderFinds(p)'
      BY <1>1, <2>1, <2>2 DEF IInv, HolderWrites, HolderFinds, Tip, Unanswered
    <2> QED BY <1>1, <1>3, <2>1, <2>3, <2>4, OneMoves
  <1> QED BY <1>2, <1>3

LEMMA ReadLogKeeps ==
    ASSUME IInv, NEW p \in Process, ReadLog(p)
    PROVE  IInv'
  <1>1. /\ UNCHANGED <<commits, files, staged, lock, orphan>> /\ pc[p] = "log"
        /\ mine' = [mine EXCEPT ![p].parent = Tip] /\ Goto(p, "configuration") /\ "configuration" \in Points
    BY DEF ReadLog, repositoryVars, Points, Locked
  <1>2. pc' \in [Process \cup Readers -> Points] /\ pc'[p] = "configuration"
    BY <1>1, GotoMoves DEF IInv
  <1>3. Tip \in Nat /\ Tip' = Tip
    BY <1>1 DEF IInv, TypesHold, Tip
  <1>4. /\ mine' \in [Process -> Mine] /\ mine'[p].parent = Tip
        /\ mine'[p].record = mine[p].record /\ mine'[p].answer = mine[p].answer
        /\ \A q \in Process : q # p => mine'[q] = mine[q]
    BY <1>1, <1>3 DEF IInv, TypesHold, Mine
  <1>5. TypesHold'
    BY <1>1, <1>2, <1>4 DEF IInv, TypesHold
  <1>6. HolderWrites(p)' /\ HolderFinds(p)'
    BY <1>1, <1>2, <1>3, <1>4 DEF IInv, HolderWrites, HolderFinds, Unanswered, Locked
  <1> QED BY <1>1, <1>4, <1>5, <1>6, OneMoves

(* The files, one by one.                                                  *)
LEMMA FieldWritten ==
    ASSUME NEW f \in Files, NEW m \in Files
    PROVE  /\ [f EXCEPT !.configuration = m.configuration] \in Files
           /\ [f EXCEPT !.result = m.result] \in Files
           /\ [f EXCEPT !.provenance = m.provenance] \in Files
           /\ [f EXCEPT !.configuration = m.configuration].configuration = m.configuration
           /\ [f EXCEPT !.result = m.result].configuration = f.configuration
           /\ [f EXCEPT !.result = m.result].result = m.result
           /\ f.configuration = m.configuration /\ f.result = m.result
                => [f EXCEPT !.provenance = m.provenance] = m
  BY DEF Files

(* The files follow one another in this order.                            *)
LEMMA NextPoints ==
    /\ DOMAIN NextPoint = {"configuration", "result", "provenance"}
    /\ NextPoint["configuration"] = "result"
    /\ NextPoint["result"] = "provenance"
    /\ NextPoint["provenance"] = "stage"
  BY DEF NextPoint

LEMMA WriteFileKeeps ==
    ASSUME IInv, NEW p \in Process, WriteFile(p)
    PROVE  IInv'
  <1>1. /\ UNCHANGED <<commits, staged, lock, orphan, mine>>
        /\ lock = p /\ mine[p].record \in Files /\ files \in Files
        /\ pc[p] \in {"configuration", "result", "provenance"}
    BY NextPoints DEF WriteFile, IInv, HolderWrites, Locked, TypesHold, Mine
  <1>2. ASSUME NEW next \in {"result", "provenance", "stage"}, Goto(p, next), files' \in Files,
               next \in {"result", "provenance"} => files'.configuration = mine[p].record.configuration,
               next = "provenance" => files'.result = mine[p].record.result,
               next = "stage" => files' = mine[p].record
        PROVE  IInv'
    <2>1. next \in Points
      BY DEF Points, Locked
    <2>2. pc' \in [Process \cup Readers -> Points] /\ pc'[p] = next
      BY <1>2, <2>1, GotoMoves DEF IInv
    <2>3. TypesHold'
      BY <1>1, <1>2, <2>2 DEF IInv, TypesHold
    <2>4. HolderWrites(p)' /\ HolderFinds(p)'
      BY <1>1, <1>2, <2>2 DEF IInv, HolderWrites, HolderFinds, Tip, Unanswered, Locked
    <2> QED BY <1>1, <1>2, <2>1, <2>3, <2>4, OneMoves
  <1>3. CASE pc[p] = "configuration"
    <2>1. files' = [files EXCEPT !["configuration"] = mine[p].record["configuration"]] /\ Goto(p, "result")
      BY <1>3, NextPoints DEF WriteFile
    <2>2. files' \in Files /\ files'.configuration = mine[p].record.configuration
      BY <1>1, <2>1, FieldWritten
    <2> QED BY <1>2, <2>1, <2>2
  <1>4. CASE pc[p] = "result"
    <2>1. files' = [files EXCEPT !["result"] = mine[p].record["result"]] /\ Goto(p, "provenance")
      BY <1>4, NextPoints DEF WriteFile
    <2>2. files.configuration = mine[p].record.configuration
      BY <1>4 DEF IInv, HolderWrites
    <2>3. /\ files' \in Files /\ files'.result = mine[p].record.result
          /\ files'.configuration = mine[p].record.configuration
      BY <1>1, <2>1, <2>2, FieldWritten
    <2> QED BY <1>2, <2>1, <2>3
  <1>5. CASE pc[p] = "provenance"
    <2>1. files' = [files EXCEPT !["provenance"] = mine[p].record["provenance"]] /\ Goto(p, "stage")
      BY <1>5, NextPoints DEF WriteFile
    <2>2. files.configuration = mine[p].record.configuration /\ files.result = mine[p].record.result
      BY <1>5 DEF IInv, HolderWrites
    <2>3. files' \in Files /\ files' = mine[p].record
      BY <1>1, <2>1, <2>2, FieldWritten
    <2> QED BY <1>2, <2>1, <2>3
  <1> QED BY <1>1, <1>3, <1>4, <1>5

LEMMA StageKeeps ==
    ASSUME IInv, NEW p \in Process, Stage(p)
    PROVE  IInv'
  <1>1. /\ UNCHANGED <<commits, files, lock, orphan, mine>> /\ pc[p] = "stage" /\ staged' = files
        /\ lock = p /\ files = mine[p].record /\ Goto(p, "commit") /\ "commit" \in Points
    BY DEF Stage, IInv, HolderWrites, Points, Locked
  <1>2. pc' \in [Process \cup Readers -> Points] /\ pc'[p] = "commit"
    BY <1>1, GotoMoves DEF IInv
  <1>3. TypesHold'
    BY <1>1, <1>2 DEF IInv, TypesHold
  <1>4. HolderWrites(p)' /\ HolderFinds(p)'
    BY <1>1, <1>2 DEF IInv, HolderWrites, HolderFinds, Tip, Unanswered, Locked
  <1> QED BY <1>1, <1>3, <1>4, OneMoves

(* What is committed is the whole measurement that was staged.             *)
LEMMA CommitAppends ==
    ASSUME IInv, NEW p \in Process, Commit(p)
    PROVE  staged \in Measurements /\ staged = mine[p].record /\ commits' = Append(commits, staged)
  BY DEF Commit, IInv, HolderWrites, HolderFinds, Unanswered

LEMMA CommitKeeps ==
    ASSUME IInv, NEW p \in Process, Commit(p)
    PROVE  IInv'
  <1>1. /\ UNCHANGED <<files, staged, lock, orphan, mine>> /\ pc[p] = "commit"
        /\ lock = p /\ Goto(p, "readback") /\ "readback" \in Points
    BY DEF Commit, IInv, HolderWrites, Points, Locked
  <1>2. staged \in Measurements /\ staged = mine[p].record /\ commits' = Append(commits, staged)
    BY CommitAppends
  <1>3. /\ commits' \in Seq(Measurements) /\ Tip \in Nat /\ Len(commits') = Tip + 1
        /\ commits'[Tip + 1] = staged
    BY <1>2, AppendKeeps DEF IInv, TypesHold
  <1>4. pc' \in [Process \cup Readers -> Points] /\ pc'[p] = "readback"
    BY <1>1, GotoMoves DEF IInv
  <1>5. TypesHold'
    BY <1>1, <1>3, <1>4 DEF IInv, TypesHold
  <1>6. mine[p].parent \in Nat /\ mine[p].parent <= Tip /\ mine[p].answer = 0 /\ mine[p].record \in Measurements
    BY <1>1 DEF IInv, TypesHold, Mine, HolderFinds, Unanswered
  <1>7. HolderWrites(p)' /\ HolderFinds(p)'
    BY <1>1, <1>2, <1>3, <1>4, <1>6 DEF HolderWrites, HolderFinds, Tip, Locked
  <1> QED BY <1>1, <1>2, <1>5, <1>7, OneMoves

(* The answer, found and settled.                                          *)
LEMMA AnswerKeeps ==
    ASSUME IInv, NEW p \in Process, ReadBack(p) \/ Settle(p)
    PROVE  IInv'
  <1>1. /\ UNCHANGED <<commits, files, staged, lock, orphan>> /\ Tip' = Tip /\ Tip \in Nat
        /\ pc[p] \in {"readback", "settle"} /\ lock = p
    BY DEF ReadBack, Settle, repositoryVars, IInv, TypesHold, Tip, HolderWrites, Locked
  <1>2. PICK point \in {"settle", "release"} : Goto(p, point)
    BY DEF ReadBack, Settle
  <1>3. point \in Points
    BY <1>2 DEF Points, Locked
  <1>4. pc' \in [Process \cup Readers -> Points] /\ pc'[p] = point
    BY <1>2, <1>3, GotoMoves DEF IInv
  <1>5. CASE mine' = mine
    BY <1>1, <1>2, <1>3, <1>5, MoveKeeps DEF Locked, Unanswered
  <1>6. ASSUME NEW n \in Nat, mine' = [mine EXCEPT ![p].answer = n],
               n # 0 => n <= Tip /\ n = mine[p].parent + 1 /\ commits[n] = mine[p].record
        PROVE  IInv'
    <2>1. /\ mine' \in [Process -> Mine] /\ mine'[p].answer = n
          /\ mine'[p].record = mine[p].record /\ mine'[p].parent = mine[p].parent
          /\ \A q \in Process : q # p => mine'[q] = mine[q]
      BY <1>6 DEF IInv, TypesHold, Mine
    <2>2. TypesHold'
      BY <1>1, <1>4, <2>1 DEF IInv, TypesHold
    <2>3. HolderWrites(p)' /\ HolderFinds(p)'
      BY <1>1, <1>2, <1>4, <1>6, <2>1 DEF HolderWrites, HolderFinds, Unanswered
    <2> QED BY <1>1, <1>2, <1>3, <2>1, <2>2, <2>3, OneMoves
  <1>7. CASE ReadBack(p) /\ Tip = mine[p].parent + 1
    <2>1. mine' = [mine EXCEPT ![p].answer = Tip] /\ commits[Tip] = mine[p].record
      BY <1>7 DEF ReadBack, IInv, HolderFinds
    <2>2. Tip \in Nat /\ Tip <= Tip
      BY <1>1
    <2>3. \E n \in Nat : /\ mine' = [mine EXCEPT ![p].answer = n]
                         /\ n # 0 => n <= Tip /\ n = mine[p].parent + 1 /\ commits[n] = mine[p].record
      <3> USE <2>2
      <3> WITNESS Tip \in Nat
      <3> QED BY <1>7, <2>1
    <2> QED BY <1>6, <2>3
  <1>8. CASE Settle(p) /\ ~Clean
    BY <1>6, <1>8 DEF Settle
  <1> QED BY <1>5, <1>7, <1>8 DEF ReadBack, Settle

(* A recorder that is done, or that died, has nothing left.                *)
LEMMA EmptyHanded ==
    ASSUME IInv, NEW p \in Process, mine' = [mine EXCEPT ![p] = NothingMine], Goto(p, "idle"),
           UNCHANGED <<commits, files, staged>>, lock' \in {lock, None}, lock' # lock => lock = p,
           orphan' \in {None} \cup [record : Measurements, parent : Nat]
    PROVE  IInv'
  <1>1. NothingMine \in Mine /\ NothingMine.answer = 0
    BY MeasurementsAreFiles DEF NothingMine, Mine
  <1>2. pc' \in [Process \cup Readers -> Points] /\ pc'[p] = "idle" /\ "idle" \in Points
    BY GotoMoves DEF IInv, Points
  <1>3. mine' \in [Process -> Mine] /\ mine'[p].answer = 0 /\ \A q \in Process : q # p => mine'[q] = mine[q]
    BY <1>1 DEF IInv, TypesHold
  <1>4. TypesHold'
    BY <1>2, <1>3 DEF IInv, TypesHold
  <1>5. HolderWrites(p)' /\ HolderFinds(p)'
    BY <1>2, <1>3 DEF HolderWrites, HolderFinds, Locked, Unanswered
  <1> QED BY <1>2, <1>3, <1>4, <1>5, OneMoves

LEMMA EndKeeps ==
    ASSUME IInv, NEW p \in Process, Release(p) \/ FailRelease(p) \/ Die(p)
    PROVE  IInv'
  <1>1. CASE Release(p)
    <2>1. pc[p] = "release" /\ lock = p
      BY <1>1 DEF Release, IInv, HolderWrites, Locked
    <2> QED BY <1>1, <2>1, EmptyHanded DEF Release, IInv, TypesHold
  <1>2. CASE Die(p)
    <2>1. orphan' = orphan \/ (pc[p] = "commit" /\ orphan' = [record |-> staged, parent |-> Tip])
      BY <1>2 DEF Die
    <2>2. pc[p] = "commit" => staged \in Measurements
      BY DEF IInv, HolderWrites, HolderFinds, Unanswered
    <2>3. Tip \in Nat
      BY DEF IInv, TypesHold, Tip
    <2>4. orphan' \in {None} \cup [record : Measurements, parent : Nat]
      BY <2>1, <2>2, <2>3 DEF IInv, TypesHold
    <2> QED BY <1>2, <2>4, EmptyHanded DEF Die
  <1>3. CASE FailRelease(p)
    BY <1>3, EmptyHanded DEF FailRelease, repositoryVars, IInv, TypesHold
  <1> QED BY <1>1, <1>2, <1>3

(* What happens beside the recorders.                                      *)
LEMMA ReaderKeeps ==
    ASSUME IInv, NEW r \in Readers, Read(r)
    PROVE  IInv'
  <1>1. UNCHANGED <<commits, files, staged, lock, orphan, mine>> /\ pc[r] \in {"idle", "status", "list"}
    BY DEF Read, BeginVerify, CheckStatus, ReadHead, FindEmpty, ListRecords, repositoryVars
  <1>2. PICK point \in {"idle", "status", "list"} : Goto(r, point)
    BY DEF Read, BeginVerify, CheckStatus, ReadHead, FindEmpty, ListRecords
  <1>3. /\ pc' \in [Process \cup Readers -> Points] /\ pc'[r] = point
        /\ \A q \in Process : q # r => pc'[q] = pc[q]
    BY <1>2, GotoMoves DEF IInv, Points
  <1>4. TypesHold'
    BY <1>1, <1>3 DEF IInv, TypesHold
  <1>5. ASSUME NEW q \in Process
        PROVE  HolderWrites(q)' /\ HolderFinds(q)'
    <2>1. CASE q # r
      BY <1>1, <1>3, <2>1, OthersStay
    <2>2. CASE q = r
      BY <1>1, <1>2, <1>3, <2>2 DEF IInv, HolderWrites, HolderFinds, Tip, Locked, Unanswered
    <2> QED BY <2>1, <2>2
  <1> QED BY <1>4, <1>5 DEF IInv

LEMMA OrphanAppends ==
    ASSUME IInv, OrphanEnds
    PROVE  UNCHANGED commits \/ \E m \in Measurements : commits' = Append(commits, m)
  BY DEF OrphanEnds, IInv, TypesHold

LEMMA OperatorKeeps ==
    ASSUME IInv, OrphanEnds \/ RemoveStaleLock \/ ResetFiles
    PROVE  IInv'
  <1>1. UNCHANGED <<pc, mine>>
    BY DEF OrphanEnds, RemoveStaleLock, ResetFiles
  <1>2. UNCHANGED commits \/ \E m \in Measurements : commits' = Append(commits, m)
    BY OrphanAppends DEF RemoveStaleLock, ResetFiles
  <1>3. UNCHANGED <<files, staged, lock>> \/ \A q \in Process : pc[q] \notin Locked
    BY HistoryAssumption DEF OrphanEnds, RemoveStaleLock, ResetFiles, IInv, HolderWrites, TypesHold
  <1>4. commits' \in Seq(Measurements)
    BY <1>2, AppendKeeps DEF IInv, TypesHold
  <1>5. /\ lock' \in Process \cup {None} /\ files' \in Files /\ staged' \in Files
        /\ orphan' \in {None} \cup [record : Measurements, parent : Nat]
    BY TrackedIsFiles DEF OrphanEnds, RemoveStaleLock, ResetFiles, IInv, TypesHold
  <1>6. TypesHold'
    BY <1>1, <1>4, <1>5 DEF IInv, TypesHold
  <1>7. \A q \in Process : HolderWrites(q)' /\ HolderFinds(q)'
    BY <1>1, <1>2, <1>3, OthersStay
  <1> QED BY <1>6, <1>7 DEF IInv

LEMMA StepKeepsInvariant == IInv /\ [Next]_vars => IInv'
  <1> SUFFICES ASSUME IInv, [Next]_vars PROVE IInv'
    OBVIOUS
  <1>1. CASE UNCHANGED vars
    BY <1>1 DEF vars, repositoryVars, IInv, TypesHold, HolderWrites, HolderFinds, Tip
  <1>2. ASSUME NEW p \in Process, Measure(p) \/ Step(p) \/ Die(p)
        PROVE  IInv'
    BY <1>2, MeasureKeeps, PreparingKeeps, LockKeeps, ReadLogKeeps, WriteFileKeeps, StageKeeps,
       CommitKeeps, AnswerKeeps, EndKeeps DEF Step
  <1> QED BY <1>1, <1>2, ReaderKeeps, OperatorKeeps DEF Next

-----------------------------------------------------------------------------
(* Every step adds a whole measurement to the branch or leaves it alone.   *)
LEMMA StepsRefine ==
    ASSUME IInv, [Next]_vars
    PROVE  Log!Record \/ UNCHANGED commits
  <1>1. (\E m \in Measurements : commits' = Append(commits, m)) => Log!Record
    BY DEF Measurements, Log!Record
  <1>2. ASSUME NEW p \in Process, Measure(p) \/ Step(p) \/ Die(p)
        PROVE  UNCHANGED commits \/ \E m \in Measurements : commits' = Append(commits, m)
    BY <1>2, CommitAppends DEF Measure, Step, Die, FindRoot, MakeRoot, FindGit, InspectRoot, GitInit, SymbolicRef,
       CheckBranch, Lock, EnsureClean, ReadLog, WriteFile, Stage, ReadBack, Settle, Release, FailStep, FailRelease,
       repositoryVars
  <1>3. ASSUME NEW r \in Readers, Read(r)
        PROVE  UNCHANGED commits
    BY <1>3 DEF Read, BeginVerify, CheckStatus, ReadHead, FindEmpty, ListRecords, repositoryVars
  <1> QED BY <1>1, <1>2, <1>3, OrphanAppends DEF Next, vars, repositoryVars, RemoveStaleLock, ResetFiles

THEOREM InvariantHolds == Spec => []IInv
  BY InitHolds, StepKeepsInvariant, PTL DEF Spec

(* The branch record_measurement writes is a log of whole measurements, at *)
(* whatever point recorders fail or die and whatever commits outlive them. *)
THEOREM HistoryImplementsLog == Spec => ImplementsLog
  <1>1. Init => Log!Init
    BY DEF Init, Log!Init
  <1>2. IInv /\ [Next]_vars => [Log!Record]_commits
    BY StepsRefine
  <1> QED BY <1>1, <1>2, InvariantHolds, PTL DEF Spec, ImplementsLog, Log!Spec

(* A recorder that answers names the commit of its own measurement.        *)
THEOREM AnswersAreAlwaysTheirs == Spec => []AnswersAreTheirs
  <1>1. IInv => AnswersAreTheirs
    BY DEF IInv, HolderFinds, AnswersAreTheirs
  <1> QED BY <1>1, InvariantHolds, PTL
=============================================================================
