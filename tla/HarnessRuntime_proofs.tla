------------------------ MODULE HarnessRuntime_proofs ------------------------
(***************************************************************************)
(* Proofs about HarnessRuntime, for any number of levels and any limits:   *)
(* no kernel outlives the level that started it, and a cell counts wholly  *)
(* or not at all, as it was reported.                                      *)
(***************************************************************************)
EXTENDS HarnessRuntime, TLAPS

IsSession(s) ==
    /\ DOMAIN s = {"pc", "said", "wire", "restarting", "cell", "snap", "files", "observed"}
    /\ s.wire \in BOOLEAN
IsKernel(k) ==
    /\ DOMAIN k = {"alive", "names", "files", "in", "out", "signal"}
    /\ k.alive \in BOOLEAN
IsLevel(f) ==
    DOMAIN f = {"pc", "turn", "executions", "invalid", "end", "kept", "cut", "snapped"}

Shape ==
    /\ depth \in Levels
    /\ DOMAIN sessions = Levels /\ \A d \in Levels : IsSession(sessions[d])
    /\ DOMAIN kernels = Levels /\ \A d \in Levels : IsKernel(kernels[d])
    /\ DOMAIN levels = Levels /\ \A d \in Levels : IsLevel(levels[d])

\* A kernel lives behind a wire only, and a session that waits has one.
WiredAt(s, k) ==
    /\ k.alive => s.wire
    /\ s.pc \in {"off", "closed"} => ~ s.wire
    /\ s.pc \in Ops \cup {"grace"} => s.wire
Wired == \A d \in Levels : WiredAt(sessions[d], kernels[d])

\* A level that has no session yet, or none any more.
StackedAt(f, s) == f.pc \in {"off", "open", "ended"} => s.pc \in {"off", "closed"}
Stacked ==
    /\ \A d \in Levels : StackedAt(levels[d], sessions[d])
    /\ \A d \in Levels : d > depth => levels[d].pc = "off"

IInv == Shape /\ Wired /\ Stacked

\* The records a run starts from.
LEMMA StartRecords ==
    /\ IsSession(NoSession) /\ ~ NoSession.wire /\ NoSession.pc = "off"
    /\ IsKernel(NoKernel) /\ ~ NoKernel.alive
    /\ IsKernel(Booting)
    /\ IsLevel(NoLevel) /\ NoLevel.pc = "off"
    /\ IsLevel([NoLevel EXCEPT !.pc = "open"]) /\ [NoLevel EXCEPT !.pc = "open"].pc = "open"
BY DEF IsSession, IsKernel, IsLevel, NoSession, NoKernel, Booting, NoLevel

LEMMA InitInvariant == Init => IInv
<1> SUFFICES ASSUME Init PROVE IInv
  OBVIOUS
<1>1. Shape
  BY LevelsAssumption, StartRecords DEF Init, InitSessions, Shape
<1>2. Wired
  BY StartRecords DEF Init, InitSessions, Wired, WiredAt, Ops
<1>3. Stacked
  BY LevelsAssumption, StartRecords DEF Init, InitSessions, Stacked, StackedAt
<1> QED
  BY <1>1, <1>2, <1>3 DEF IInv

-----------------------------------------------------------------------------
(* What a step does to one level, and why the others do not notice.        *)

GoodAt(d) ==
    /\ IsSession(sessions[d]) /\ IsKernel(kernels[d]) /\ IsLevel(levels[d])
    /\ WiredAt(sessions[d], kernels[d])
    /\ StackedAt(levels[d], sessions[d])

\* Nothing but level d changes.
Only(d) ==
    /\ DOMAIN sessions' = Levels /\ DOMAIN kernels' = Levels /\ DOMAIN levels' = Levels
    /\ \A e \in Levels \ {d} : /\ sessions'[e] = sessions[e] /\ kernels'[e] = kernels[e]
                               /\ levels'[e] = levels[e]

LEMMA GoodLevels ==
    ASSUME IInv, NEW d \in Levels
    PROVE  GoodAt(d)
BY DEF IInv, Shape, Wired, Stacked, GoodAt

LEMMA OneLevelStep ==
    ASSUME IInv, NEW d \in Levels, Only(d), GoodAt(d)', depth' = depth,
           d > depth => levels'[d].pc = "off"
    PROVE  IInv'
<1>1. Shape'
  BY DEF IInv, Shape, Only, GoodAt
<1>2. Wired'
  BY DEF IInv, Shape, Wired, Only, GoodAt
<1>3. Stacked'
  BY DEF IInv, Shape, Stacked, Only, GoodAt
<1> QED
  BY <1>1, <1>2, <1>3 DEF IInv

-----------------------------------------------------------------------------
(* The steps of a session and of a kernel.                                 *)

\* A session that waits is left waiting, idle, or closed.
LEMMA SessionStepInvariant ==
    ASSUME IInv, NEW d \in Levels, d = depth, SessionStep(d), UNCHANGED runVars
    PROVE  IInv'
<1>0. GoodAt(d) /\ DOMAIN sessions = Levels /\ DOMAIN kernels = Levels /\ DOMAIN levels = Levels
      /\ depth' = depth /\ levels' = levels /\ d = depth /\ depth \in Nat
  BY GoodLevels, LevelsAssumption DEF IInv, Shape, runVars
<1> SUFFICES Only(d) /\ GoodAt(d)'
  BY <1>0, OneLevelStep
<1> USE <1>0, StartRecords DEF GoodAt, Only, IsSession, IsKernel, WiredAt, StackedAt, Ops, At
<1>1. CASE StartStep(d)
  BY <1>1 DEF StartStep, StartGoesOn, Starting, TakeLine
<1>2. CASE StartFails(d)
  BY <1>2 DEF StartFails, Starting, Killed
<1>3. CASE InitAnswered(d)
  BY <1>3 DEF InitAnswered, TakeLine
<1>4. CASE ExecuteAnswered(d)
  BY <1>4 DEF ExecuteAnswered, Returns, TakeLine
<1>5. CASE ExecuteDeadline(d)
  BY <1>5 DEF ExecuteDeadline, Returns
<1>6. CASE ExecuteRefused(d)
  BY <1>6 DEF ExecuteRefused, Returns
<1>7. CASE Grace(d)
  <2>1. sessions[d].wire /\ levels[d].pc \notin {"off", "open", "ended"}
    BY <1>7 DEF Grace
  <2>2. CASE /\ sessions' = [sessions EXCEPT ![d].pc = "boot", ![d].restarting = TRUE,
                                            ![d].observed = @ + 1]
             /\ kernels' = [kernels EXCEPT ![d] = Booting]
    BY <2>1, <2>2
  <2>3. CASE /\ sessions' = [sessions EXCEPT ![d].pc = "idle", ![d].said = "refused",
                                            ![d].observed = @ + 1, ![d].wire = FALSE]
             /\ kernels' = [kernels EXCEPT ![d] = NoKernel]
    BY <2>1, <2>3
  <2>4. CASE Returns(d, "refused") /\ TakeLine(d)
    BY <2>1, <2>4 DEF Returns, TakeLine
  <2> QED
    BY <1>7, <2>2, <2>3, <2>4 DEF Grace, Restarted, Killed
<1>8. CASE ExportAnswered(d)
  BY <1>8 DEF ExportAnswered, TakeLine
<1>9. CASE SnapshotAnswered(d)
  BY <1>9 DEF SnapshotAnswered, TakeLine
<1>10. CASE RequestFails(d)
  BY <1>10 DEF RequestFails, Returns
<1>11. CASE CloseStep(d)
  BY <1>11 DEF CloseStep, Closes, Killed
<1> QED
  BY <1>1, <1>2, <1>3, <1>4, <1>5, <1>6, <1>7, <1>8, <1>9, <1>10, <1>11 DEF SessionStep

\* A kernel may only die.
LEMMA KernelStepInvariant ==
    ASSUME IInv, NEW d \in Levels, KernelStep(d), UNCHANGED runVars
    PROVE  IInv'
<1>0. GoodAt(d) /\ DOMAIN sessions = Levels /\ DOMAIN kernels = Levels /\ DOMAIN levels = Levels
      /\ depth' = depth /\ levels' = levels /\ sessions' = sessions
      /\ (d > depth => levels[d].pc = "off")
  BY GoodLevels DEF IInv, Shape, Stacked, runVars, KernelStep, Serve, Interrupted, Shutdown, KernelDies
<1> SUFFICES Only(d) /\ IsKernel(kernels[d])' /\ (kernels'[d].alive => kernels[d].alive)
  BY <1>0, OneLevelStep DEF GoodAt, WiredAt
<1> USE <1>0 DEF GoodAt, Only, IsKernel
<1>a. ASSUME NEW N, NEW F, NEW a
      PROVE  /\ DOMAIN Served(d, N, F, a) = Levels
             /\ \A e \in Levels \ {d} : Served(d, N, F, a)[e] = kernels[e]
             /\ IsKernel(Served(d, N, F, a)[d])
             /\ Served(d, N, F, a)[d].alive = kernels[d].alive
  BY DEF Served
<1>1. CASE Serve(d)
  <2>1. PICK N, F, a : kernels' = Served(d, N, F, a)
    BY <1>1 DEF Serve
  <2> QED
    BY <1>a, <2>1
<1>2. CASE Interrupted(d)
  <2>1. CASE kernels' = [kernels EXCEPT ![d].alive = FALSE]
    BY <2>1
  <2>2. ASSUME NEW N, NEW F, NEW a,
               kernels' = [Served(d, N, F, a) EXCEPT ![d].signal = FALSE]
        PROVE  Only(d) /\ IsKernel(kernels[d])' /\ (kernels'[d].alive => kernels[d].alive)
    BY <2>2, <1>a
  <2>3. CASE kernels[d].in # <<>>
    <3>1. PICK N, F : kernels' = [Served(d, kernels[d].names \cup N, kernels[d].files \cup F,
                                        Answer("execute", FALSE, Nothing)) EXCEPT ![d].signal = FALSE]
      BY <1>2, <2>3 DEF Interrupted
    <3> QED
      BY <2>2, <3>1
  <2> QED
    BY <1>2, <2>1, <2>3 DEF Interrupted
<1>3. CASE Shutdown(d)
  BY <1>3 DEF Shutdown
<1>4. CASE KernelDies(d)
  BY <1>4 DEF KernelDies
<1> QED
  BY <1>1, <1>2, <1>3, <1>4 DEF KernelStep

-----------------------------------------------------------------------------
(* The steps of the runtime.                                               *)

\* A step that only turns the pages of a frame which has a session.
LEMMA FrameStepInvariant ==
    ASSUME IInv, UNCHANGED <<sessions, kernels, depth>>, DOMAIN levels' = Levels,
           \A e \in Levels \ {depth} : levels'[e] = levels[e],
           IsLevel(levels'[depth]), levels'[depth].pc \notin {"off", "open"},
           levels'[depth].pc = "ended" => sessions[depth].pc \in {"off", "closed"}
    PROVE  IInv'
<1>1. depth \in Levels /\ depth \in Nat
  BY LevelsAssumption DEF IInv, Shape
<1> QED
  BY <1>1, GoodLevels, OneLevelStep DEF IInv, Shape, GoodAt, Only, StackedAt

\* Sending a request leaves a session waiting or idle, and its kernel as it was.
LEMMA SendsWired ==
    ASSUME NEW d \in Levels, GoodAt(d), DOMAIN sessions = Levels, DOMAIN kernels = Levels,
           NEW op \in Ops, Sends(d, op)
    PROVE  /\ DOMAIN sessions' = Levels /\ DOMAIN kernels' = Levels
           /\ \A e \in Levels \ {d} : sessions'[e] = sessions[e] /\ kernels'[e] = kernels[e]
           /\ IsSession(sessions'[d]) /\ IsKernel(kernels'[d]) /\ WiredAt(sessions'[d], kernels'[d])
BY DEF Sends, Alive, Returns, GoodAt, IsSession, IsKernel, WiredAt, Ops

LEMMA ExecuteWired ==
    ASSUME NEW d \in Levels, GoodAt(d), DOMAIN sessions = Levels, DOMAIN kernels = Levels,
           NEW c, Execute(d, c)
    PROVE  /\ DOMAIN sessions' = Levels /\ DOMAIN kernels' = Levels
           /\ \A e \in Levels \ {d} : sessions'[e] = sessions[e] /\ kernels'[e] = kernels[e]
           /\ IsSession(sessions'[d]) /\ IsKernel(kernels'[d]) /\ WiredAt(sessions'[d], kernels'[d])
BY DEF Execute, Alive, Returns, GoodAt, IsSession, IsKernel, WiredAt, Ops

LEMMA CloseWired ==
    ASSUME NEW d \in Levels, GoodAt(d), DOMAIN sessions = Levels, DOMAIN kernels = Levels,
           Close(d)
    PROVE  /\ DOMAIN sessions' = Levels /\ DOMAIN kernels' = Levels
           /\ \A e \in Levels \ {d} : sessions'[e] = sessions[e] /\ kernels'[e] = kernels[e]
           /\ IsSession(sessions'[d]) /\ IsKernel(kernels'[d]) /\ WiredAt(sessions'[d], kernels'[d])
BY StartRecords DEF Close, Closes, Killed, Alive, GoodAt, IsSession, IsKernel, WiredAt, Ops

\* A step of the runtime with a call of the session of the level that runs.
LEMMA CallStepInvariant ==
    ASSUME IInv, depth' = depth, DOMAIN levels' = Levels,
           \A e \in Levels \ {depth} : levels'[e] = levels[e],
           IsLevel(levels'[depth]), levels'[depth].pc \notin {"off", "open", "ended"},
           \/ \E op \in Ops : Sends(depth, op)
           \/ \E c : Execute(depth, c)
           \/ Close(depth)
    PROVE  IInv'
<1>1. depth \in Levels /\ GoodAt(depth) /\ DOMAIN sessions = Levels /\ DOMAIN kernels = Levels
  BY GoodLevels DEF IInv, Shape
<1>2. /\ DOMAIN sessions' = Levels /\ DOMAIN kernels' = Levels
      /\ \A e \in Levels \ {depth} : sessions'[e] = sessions[e] /\ kernels'[e] = kernels[e]
      /\ IsSession(sessions'[depth]) /\ IsKernel(kernels'[depth])
      /\ WiredAt(sessions'[depth], kernels'[depth])
  <2>1. CASE \E op \in Ops : Sends(depth, op)
    BY <1>1, <2>1, SendsWired
  <2>2. CASE \E c : Execute(depth, c)
    BY <1>1, <2>2, ExecuteWired
  <2>3. CASE Close(depth)
    BY <1>1, <2>3, CloseWired
  <2> QED
    BY <2>1, <2>2, <2>3
<1>3. ~(depth > depth)
  BY <1>1, LevelsAssumption
<1>4. Only(depth) /\ GoodAt(depth)'
  BY <1>1, <1>2 DEF Only, GoodAt, StackedAt
<1> QED
  BY <1>1, <1>3, <1>4, OneLevelStep

\* The two ways an action may end: as invalid, or with the level.
LEMMA InvalidInvariant ==
    ASSUME IInv, Invalid, depth' = depth
    PROVE  IInv'
<1>1. depth \in Levels /\ DOMAIN levels = Levels /\ IsLevel(levels[depth])
  BY DEF IInv, Shape
<1>2. CASE Level.invalid < MaxInvalid
  BY <1>1, <1>2, FrameStepInvariant DEF Invalid, Level, IsLevel
<1>3. CASE ~(Level.invalid < MaxInvalid)
  BY <1>1, <1>3, CallStepInvariant DEF Invalid, LevelEnds, IsLevel
<1> QED
  BY <1>2, <1>3

LEMMA EndInvariant ==
    ASSUME IInv, NEW how, LevelEnds(how), depth' = depth
    PROVE  IInv'
<1>1. depth \in Levels /\ DOMAIN levels = Levels /\ IsLevel(levels[depth])
  BY DEF IInv, Shape
<1> QED
  BY <1>1, CallStepInvariant DEF LevelEnds, IsLevel

\* The level below has no kernel, so that it may forget its old session.
LEMMA DelegateInvariant == IInv /\ ActDelegate => IInv'
<1> SUFFICES ASSUME IInv, ActDelegate PROVE IInv'
  OBVIOUS
<1> DEFINE child == depth + 1
<1>1. /\ depth \in Levels /\ depth \in Nat /\ child \in Levels /\ depth' = child
      /\ child # depth /\ \A d \in Levels : d > child => d > depth /\ d # depth
      /\ \A d \in Levels : d \in Nat
  BY LevelsAssumption DEF IInv, Shape, ActDelegate, MayDelegate
<1>2. /\ levels' = [levels EXCEPT ![depth].pc = "child", ![child] = [NoLevel EXCEPT !.pc = "open"]]
      /\ sessions' = [sessions EXCEPT ![child] = NoSession]
      /\ kernels' = kernels
  BY <1>1 DEF ActDelegate
<1>3. ~ kernels[child].alive
  BY <1>1 DEF IInv, Shape, Wired, Stacked, WiredAt, StackedAt, IsKernel
<1>4. Shape'
  BY <1>1, <1>2, StartRecords DEF IInv, Shape, IsLevel
<1>5. Wired'
  BY <1>2, <1>3, StartRecords DEF IInv, Shape, Wired, WiredAt, Ops
<1>6. Stacked'
  <2>1. \A d \in Levels : StackedAt(levels[d], sessions[d])'
    BY <1>1, <1>2, StartRecords DEF IInv, Shape, Stacked, StackedAt, IsLevel
  <2>2. \A d \in Levels : d > child => levels'[d].pc = "off"
    BY <1>1, <1>2 DEF IInv, Shape, Stacked
  <2> QED
    BY <1>1, <2>1, <2>2 DEF Stacked
<1> QED
  BY <1>4, <1>5, <1>6 DEF IInv

\* The frame of an ended level goes; its parent goes on, or closes in its turn.
LEMMA ChildEndedInvariant == IInv /\ ChildEnded => IInv'
<1> SUFFICES ASSUME IInv, ChildEnded PROVE IInv'
  OBVIOUS
<1> DEFINE parent == depth - 1
<1>1. /\ depth \in Levels /\ parent \in Levels /\ depth' = parent /\ parent # depth
      /\ \A d \in Levels : d > parent => d = depth \/ d > depth
      /\ \A d \in Levels : d > depth => d # parent
  BY LevelsAssumption DEF IInv, Shape, ChildEnded
<1> DEFINE Resumes(pc, n, how) ==
        levels' = [levels EXCEPT ![depth] = NoLevel, ![parent].pc = pc,
                                 ![parent].invalid = @ + n, ![parent].end = how]
           Framed ==
        /\ DOMAIN levels' = Levels /\ \A d \in Levels : IsLevel(levels'[d])
        /\ levels'[depth].pc = "off" /\ levels'[parent].pc \in {"turn", "closing"}
        /\ \A d \in Levels \ {depth, parent} : levels'[d] = levels[d]
           p == levels[parent]
<1>2. ASSUME NEW pc \in {"turn", "closing"}, NEW n, NEW how, Resumes(pc, n, how)
      PROVE  Framed
  BY <1>1, <1>2, StartRecords DEF IInv, Shape, IsLevel
<1> HIDE DEF Resumes, Framed
<1>3. Framed /\ (UNCHANGED <<sessions, kernels>> \/ Close(parent))
  <2>1. CASE Level.end = "return"
    <3>1. Resumes("turn", 0, p.end) /\ UNCHANGED <<sessions, kernels>>
      BY <2>1 DEF ChildEnded, Resumes
    <3> QED
      BY <3>1, <1>2
  <2>2. CASE Level.end = "failed" /\ p.invalid < MaxInvalid
    <3>1. Resumes("turn", 1, p.end) /\ UNCHANGED <<sessions, kernels>>
      BY <2>2 DEF ChildEnded, Resumes
    <3> QED
      BY <3>1, <1>2
  <2>3. CASE Level.end = "failed" /\ ~ (p.invalid < MaxInvalid)
    <3>1. Resumes("closing", 1, "failed") /\ Close(parent)
      BY <2>3 DEF ChildEnded, Resumes
    <3> QED
      BY <3>1, <1>2
  <2>4. CASE Level.end # "return" /\ Level.end # "failed"
    <3>1. Resumes("closing", 0, "broken") /\ Close(parent)
      BY <2>4 DEF ChildEnded, Resumes
    <3> QED
      BY <3>1, <1>2
  <2> QED
    BY <2>1, <2>2, <2>3, <2>4
<1>4. /\ DOMAIN sessions' = Levels /\ DOMAIN kernels' = Levels
      /\ \A d \in Levels \ {parent} : sessions'[d] = sessions[d] /\ kernels'[d] = kernels[d]
      /\ IsSession(sessions'[parent]) /\ IsKernel(kernels'[parent])
      /\ WiredAt(sessions'[parent], kernels'[parent])
  <2>1. GoodAt(parent) /\ DOMAIN sessions = Levels /\ DOMAIN kernels = Levels
    BY <1>1, GoodLevels DEF IInv, Shape
  <2>2. CASE UNCHANGED <<sessions, kernels>>
    BY <2>1, <2>2 DEF GoodAt
  <2>3. CASE Close(parent)
    BY <1>1, <2>1, <2>3, CloseWired
  <2> QED
    BY <1>3, <2>2, <2>3
<1>5. Shape'
  BY <1>1, <1>3, <1>4 DEF IInv, Shape, Framed
<1>6. Wired'
  BY <1>4 DEF IInv, Wired
<1>7. Stacked'
  <2>1. sessions[depth].pc \in {"off", "closed"}
    BY <1>1 DEF IInv, Stacked, StackedAt, ChildEnded, Runs, Level
  <2>2. \A d \in Levels : StackedAt(levels[d], sessions[d])'
    BY <1>1, <1>3, <1>4, <2>1 DEF IInv, Stacked, StackedAt, Framed
  <2>3. \A d \in Levels : d > parent => levels'[d].pc = "off"
    BY <1>1, <1>3 DEF IInv, Stacked, Framed
  <2> QED
    BY <1>1, <2>2, <2>3 DEF Stacked
<1> QED
  BY <1>5, <1>6, <1>7 DEF IInv

LEMMA RunStepInvariant == IInv /\ RunStep => IInv'
<1> SUFFICES ASSUME IInv, RunStep PROVE IInv'
  OBVIOUS
<1>0. /\ depth \in Levels /\ DOMAIN levels = Levels /\ IsLevel(levels[depth]) /\ GoodAt(depth)
      /\ DOMAIN sessions = Levels /\ DOMAIN kernels = Levels
  BY GoodLevels DEF IInv, Shape
<1>1. CASE OpenLevel
  <2>1. /\ levels' = [levels EXCEPT ![depth].pc = "opening"] /\ depth' = depth
        /\ sessions[depth].pc = "off"
    BY <1>1 DEF OpenLevel, Goto, Open, At
  <2>2. /\ IsSession(sessions'[depth]) /\ IsKernel(kernels'[depth])
        /\ WiredAt(sessions'[depth], kernels'[depth])
        /\ DOMAIN sessions' = Levels /\ DOMAIN kernels' = Levels
        /\ \A e \in Levels \ {depth} : sessions'[e] = sessions[e] /\ kernels'[e] = kernels[e]
    <3>1. CASE /\ sessions' = [sessions EXCEPT ![depth] = [NoSession EXCEPT !.pc = "boot", !.wire = TRUE]]
               /\ kernels' = [kernels EXCEPT ![depth] = Booting]
      BY <1>0, <3>1, StartRecords DEF IsSession, WiredAt, Ops
    <3>2. CASE /\ sessions' = [sessions EXCEPT ![depth].said = "refused"] /\ kernels' = kernels
      BY <1>0, <2>1, <3>2 DEF IsSession, WiredAt, Ops, GoodAt
    <3> QED
      BY <1>1, <3>1, <3>2 DEF OpenLevel, Open
  <2>3. Only(depth) /\ GoodAt(depth)' /\ ~(depth > depth)
    BY <1>0, <2>1, <2>2, LevelsAssumption DEF Only, GoodAt, IsLevel, StackedAt
  <2> QED
    BY <1>0, <2>1, <2>3, OneLevelStep
<1>2. CASE Opened
  <2>1. CASE depth = 0
    BY <1>0, <1>2, <2>1, CallStepInvariant DEF Opened, Goto, IsLevel, InitializeWorkspace, Ops
  <2>2. CASE depth # 0
    BY <1>0, <1>2, <2>2, FrameStepInvariant DEF Opened, Goto, IsLevel
  <2> QED
    BY <2>1, <2>2
<1>3. CASE OpenRefused
  BY <1>0, <1>3, FrameStepInvariant DEF OpenRefused, IsLevel, At, sessionVars
<1>4. CASE WorkspaceInitialized \/ CellFailed \/ CellCut \/ Snapped
  BY <1>0, <1>4, FrameStepInvariant
     DEF WorkspaceInitialized, CellFailed, CellCut, Snapped, Goto, IsLevel, sessionVars
<1>5. CASE SessionRaises \/ OutOfTurns \/ ModelFails
  BY <1>5, EndInvariant DEF SessionRaises, OutOfTurns, ModelFails
<1>6. CASE ModelReplies
  BY <1>0, <1>6, FrameStepInvariant DEF ModelReplies, IsLevel, sessionVars
<1>7. CASE ActExecute
  <2>1. CASE Level.executions < MaxExecutions
    BY <1>0, <1>7, <2>1, CallStepInvariant DEF ActExecute, IsLevel
  <2>2. CASE ~(Level.executions < MaxExecutions)
    BY <1>7, <2>2, InvalidInvariant DEF ActExecute
  <2> QED
    BY <2>1, <2>2
<1>8. CASE ActDelegate
  BY <1>8, DelegateInvariant
<1>9. CASE ActInvalid
  BY <1>9, InvalidInvariant DEF ActInvalid
<1>10. CASE ActFinish
  <2>1. CASE depth = 0
    BY <1>0, <1>10, <2>1, CallStepInvariant DEF ActFinish, Goto, IsLevel, ExportWorkspace, Ops
  <2>2. CASE depth # 0
    BY <1>10, <2>2, EndInvariant DEF ActFinish
  <2> QED
    BY <2>1, <2>2
<1>11. CASE Finished
  BY <1>11, EndInvariant, InvalidInvariant DEF Finished
<1>12. CASE CellSucceeded
  BY <1>0, <1>12, CallStepInvariant DEF CellSucceeded, IsLevel, ExportWorkspace, Snapshot, Ops
<1>13. CASE Exported
  BY <1>0, <1>13, CallStepInvariant DEF Exported, Goto, IsLevel, Snapshot, Ops
<1>14. CASE Closed
  BY <1>0, <1>14, FrameStepInvariant DEF Closed, IsLevel, At, sessionVars
<1>15. CASE ChildEnded
  BY <1>15, ChildEndedInvariant
<1> QED
  BY <1>1, <1>2, <1>3, <1>4, <1>5, <1>6, <1>7, <1>8, <1>9, <1>10, <1>11, <1>12, <1>13, <1>14,
     <1>15 DEF RunStep

LEMMA StepInvariant == IInv /\ [Next]_vars => IInv'
<1> SUFFICES ASSUME IInv, [Next]_vars PROVE IInv'
  OBVIOUS
<1>1. CASE RunStep
  BY <1>1, RunStepInvariant
<1>2. CASE SessionStep(depth) /\ UNCHANGED runVars
  BY <1>2, SessionStepInvariant DEF IInv, Shape
<1>3. ASSUME NEW d \in Levels, KernelStep(d), UNCHANGED runVars
      PROVE  IInv'
  BY <1>3, KernelStepInvariant
<1>4. CASE UNCHANGED vars
  BY <1>4 DEF vars, sessionVars, runVars, IInv, Shape, Wired, Stacked
<1> QED
  BY <1>1, <1>2, <1>3, <1>4 DEF Next

-----------------------------------------------------------------------------
(* Cells.  What is known of a level from its frame f, its session s and its *)
(* kernel k, while it may still take a turn.                               *)

Active == {"opening", "init", "turn", "act", "child", "cell", "export", "snapshot", "finish"}
Restarts == {"boot", "restore", "init"}

Saved(x) == IF x = Nothing THEN {} ELSE x
Stored(s) == Saved(s.snap) \cup Saved(s.files)
Inside(k) == k.names \cup k.files

\* What the session may wait for while its level is at a point.
Waits(pc) ==
    CASE pc = "opening" -> {"off", "boot", "idle"}
      [] pc = "init" -> {"init", "idle"}
      [] pc = "cell" -> {"execute", "grace", "boot", "restore", "init", "idle"}
      [] pc \in {"export", "finish"} -> {"export", "idle"}
      [] pc = "snapshot" -> {"snapshot", "idle"}
      [] OTHER -> {"idle"}
Restarting(f, s) == f.pc = "cell" /\ s.pc \in Restarts
Waiting(f, s) ==
    /\ s.pc \in Waits(f.pc)
    /\ s.restarting = Restarting(f, s)

\* The call has come back, and the level goes on.
GoesOn(f, s) ==
    /\ s.pc = "idle"
    /\ \/ f.pc \in {"turn", "act", "child", "opening"}
       \/ s.said \in {"ok", "error", "cut"}
       \/ f.pc = "snapshot" /\ s.said = "refused"

\* The cells behind the level: the one that runs now is not among them.
Behind(f) == IF f.pc \in {"act", "cell"} THEN 1 .. f.turn - 1 ELSE 1 .. f.turn

\* What is kept outside the kernel, from which another one starts.
StoreAt(d, f, s) ==
    /\ f.turn \in 0 .. MaxTurns[d]
    /\ f.pc \in {"act", "cell"} => f.turn > 0
    /\ f.pc \in {"open", "opening", "init"} => f.turn = 0
    /\ f.pc \in {"open", "opening"} => s.snap = Nothing /\ s.files = Nothing
    /\ f.pc = "finish" => d = 0
    /\ f.cut \cup f.kept \cup f.snapped \cup Stored(s) \subseteq Behind(f)
    /\ f.cut \cap Stored(s) = {}
    /\ RestoreAfterRestart => f.snapped \subseteq Saved(s.snap)
    /\ d = 0 /\ (f.pc = "export" => s.pc = "idle" /\ s.said = "ok") => f.kept \subseteq Saved(s.files)

\* What a kernel has when it is nobody's first or next one.
IntactAt(d, f, k) ==
    /\ Inside(k) \subseteq 1 .. f.turn
    /\ f.cut \cap Inside(k) = {}
    /\ RestoreAfterRestart => f.snapped \subseteq k.names
    /\ d = 0 => f.kept \subseteq k.files

\* What a good answer says of the kernel that gave it.
Tells(s, k, a) ==
    CASE s.pc = "restore" -> Saved(s.snap) \subseteq k.names
      [] s.pc = "init" -> Saved(s.files) \subseteq k.files
      [] s.pc = "execute" -> s.cell \in k.names /\ s.cell \in k.files
      [] s.pc = "export" -> a.value = k.files
      [] s.pc = "snapshot" -> a.value = k.names
      [] OTHER -> TRUE

\* One request at most is in the pipes, and a session that waits for nothing has
\* left no answer there.
Asked(s, k) ==
    \/ k.in = <<s.pc>> /\ k.out = <<>>
    \/ k.in = <<>> /\ k.out = <<>>
    \/ /\ k.in = <<>> /\ k.out # <<>> /\ Tail(k.out) = <<>>
       /\ Head(k.out).op = s.pc /\ (Head(k.out).good => Tells(s, k, Head(k.out)))
PipesAt(f, s, k) ==
    /\ k.signal => s.pc = "grace" \/ (s.pc = "idle" /\ ~ GoesOn(f, s))
    /\ k.in # <<>> /\ ~ s.restarting => k.alive
    /\ s.pc \in Ops => Asked(s, k)
    /\ GoesOn(f, s) => k.in = <<>> /\ k.out = <<>>

\* A kernel that replaces another starts from the store alone.
FreshAt(s, k) ==
    /\ s.pc = "boot" => k.names = {} /\ k.files = {}
    /\ s.pc = "restore" => s.snap # Nothing
    /\ k.names \subseteq Saved(s.snap) /\ k.files \subseteq Saved(s.files)
    /\ s.pc = "init" => (RestoreAfterRestart => Saved(s.snap) \subseteq k.names)

KernelAt(d, f, s, k) ==
    /\ GoesOn(f, s) => IntactAt(d, f, k)
    /\ s.pc \in {"execute", "export", "snapshot", "init"} /\ ~ s.restarting => IntactAt(d, f, k)
    /\ s.restarting \/ s.pc = "boot" => FreshAt(s, k)

\* Where the cell that was executed last is, until the turn is over.
CellAt(f, s, k) ==
    /\ f.pc = "cell" /\ s.pc # "idle" => s.cell = f.turn
    /\ f.pc = "cell" /\ GoesOn(f, s) =>
        /\ s.cell = f.turn
        /\ s.said = "ok" => s.cell \in k.names /\ s.cell \in k.files
        /\ s.said = "cut" => s.cell \notin Inside(k)
    /\ f.pc \in {"export", "snapshot"} /\ (s.pc # "idle" \/ GoesOn(f, s)) => s.cell \in k.names
    /\ f.pc = "snapshot" /\ s.pc = "idle" /\ s.said = "ok" => s.cell \in Saved(s.snap)

CellsAt(d, f, s, k) ==
    /\ f.pc = "open" => s.pc = "off" /\ ~ s.restarting
    /\ f.pc \in Active \cup {"open"} => StoreAt(d, f, s)
    /\ f.pc \in Active => Waiting(f, s)
    /\ f.pc \in Active /\ s.pc # "off" => PipesAt(f, s, k) /\ KernelAt(d, f, s, k) /\ CellAt(f, s, k)

\* The levels below the one that runs wait for it.
Nested == \A d \in Levels : d < depth => levels[d].pc = "child"

\* A run that has its result takes no further turn.
Delivered ==
    workspace # Nothing =>
        /\ levels[0].pc \in {"closing", "ended"}
        /\ levels[0].cut \cap workspace = {} /\ levels[0].kept \subseteq workspace

CellsInv ==
    /\ \A d \in Levels : CellsAt(d, levels[d], sessions[d], kernels[d])
    /\ Nested /\ Delivered

\* A pipe with one line.
LEMMA OneLine ==
    ASSUME NEW a
    PROVE  /\ Append(<<>>, a) # <<>> /\ Append(<<>>, a) = <<a>>
           /\ Head(<<a>>) = a /\ Tail(<<a>>) = <<>> /\ <<a>> # <<>>
OBVIOUS

\* Cells behind a level are cells, so that a set of them is not Nothing.
LEMMA BehindAreCells ==
    ASSUME NEW d \in Levels, NEW S, NEW n \in 0 .. MaxTurns[d], S \subseteq 1 .. n
    PROVE  S # Nothing /\ Saved(S) = S
<1>1. MaxTurns[d] \in Nat /\ MaxTurns[0] \in Nat /\ MaxTurns[d] <= MaxTurns[0]
  BY LevelsAssumption, LimitsAssumption
<1>2. S \in SUBSET Cells
  BY <1>1, LimitsAssumption
<1> QED
  BY <1>2, NothingAssumption DEF Saved

\* A step at one level, seen from all of them.
LEMMA CellsStep ==
    ASSUME IInv, CellsInv, NEW d \in Levels, Only(d), depth' = depth,
           CellsAt(d, levels'[d], sessions'[d], kernels'[d]),
           d < depth => levels'[d].pc = levels[d].pc,
           Delivered'
    PROVE  CellsInv'
BY DEF IInv, Shape, CellsInv, Nested, Only

\* A session that waits gets its answer, gives up, or replaces its kernel.
LEMMA SessionCells ==
    ASSUME IInv, CellsInv, NEW d \in Levels, d = depth, SessionStep(d), UNCHANGED runVars
    PROVE  CellsInv'
<1> DEFINE f == levels[d]
           s == sessions[d]
           k == kernels[d]
<1>1. /\ DOMAIN sessions = Levels /\ DOMAIN kernels = Levels /\ DOMAIN levels = Levels
      /\ IsSession(s) /\ IsKernel(k) /\ IsLevel(f)
      /\ levels' = levels /\ depth' = depth /\ workspace' = workspace
      /\ CellsAt(d, f, s, k)
  BY DEF IInv, Shape, CellsInv, runVars
<1>2. s.pc \in Ops \cup {"grace"}
  BY DEF SessionStep, StartStep, StartFails, InitAnswered, ExecuteAnswered, ExecuteDeadline,
         ExecuteRefused, Grace, ExportAnswered, SnapshotAnswered, RequestFails, CloseStep,
         Starting, At, Ops
<1>3. Only(d)
  BY <1>1 DEF Only, SessionStep, StartStep, StartFails, InitAnswered, ExecuteAnswered,
         ExecuteDeadline, ExecuteRefused, Grace, Restarted, ExportAnswered, SnapshotAnswered,
         RequestFails, CloseStep, Closes, StartGoesOn, Returns, TakeLine
<1> SUFFICES CellsAt(d, f, sessions'[d], kernels'[d])
  BY <1>1, <1>3, CellsStep DEF CellsInv, Delivered
<1>4. CASE f.pc \notin Active
  BY <1>1, <1>2, <1>4 DEF CellsAt, Ops
<1> SUFFICES ASSUME f.pc \in Active PROVE CellsAt(d, f, sessions'[d], kernels'[d])
  BY <1>4
<1>5. /\ StoreAt(d, f, s) /\ Waiting(f, s) /\ PipesAt(f, s, k) /\ KernelAt(d, f, s, k)
      /\ CellAt(f, s, k) /\ f.pc # "open"
  BY <1>1, <1>2 DEF CellsAt, Ops, Active
<1> DEFINE Good(s2, k2) ==
        /\ StoreAt(d, f, s2) /\ Waiting(f, s2) /\ PipesAt(f, s2, k2)
        /\ KernelAt(d, f, s2, k2) /\ CellAt(f, s2, k2)
<1>6. ASSUME Good(sessions'[d], kernels'[d]) PROVE CellsAt(d, f, sessions'[d], kernels'[d])
  BY <1>5, <1>6 DEF CellsAt
<1>7. /\ f.turn \in Nat /\ 1 .. f.turn - 1 \subseteq 1 .. f.turn /\ Behind(f) \subseteq 1 .. f.turn
      /\ f.pc = "cell" => f.turn \notin Behind(f) /\ f.turn \in 1 .. f.turn
  BY <1>5, LimitsAssumption DEF StoreAt, Behind
<1> HIDE DEF f, s, k
<1>s. CASE StartStep(d)
  <2>1. /\ s.pc = "boot" \/ s.pc = "restore" \/ (s.pc = "init" /\ s.restarting)
        /\ k.out # <<>> /\ Head(k.out).good
        /\ StartGoesOn(d, s.pc)
    BY <1>s DEF StartStep, Starting, Answered, HasLine, Line, At, s, k
  <2>2. /\ k.in = <<>> /\ Tail(k.out) = <<>> /\ Tells(s, k, Head(k.out))
        /\ ~ k.signal
    BY <1>5, <2>1 DEF PipesAt, Asked, Ops
  <2>3. s.pc = "boot" \/ s.restarting
    BY <2>1, <1>5 DEF Waiting, Restarting, Restarts, Waits
  <2>4. FreshAt(s, k)
    BY <1>5, <2>3 DEF KernelAt
  <2> DEFINE next == IF s.pc = "boot" /\ s.snap # Nothing /\ RestoreAfterRestart THEN "restore"
                     ELSE IF s.files # Nothing THEN "init" ELSE "idle"
  <2>5. CASE next = "idle" \/ s.pc = "init"
    <3>1. /\ sessions'[d] = [s EXCEPT !.pc = "idle", !.restarting = FALSE,
                                      !.said = IF s.restarting THEN "cut" ELSE "ok"]
          /\ kernels'[d] = [k EXCEPT !.out = Tail(@)]
      BY <1>1, <2>1, <2>5 DEF StartGoesOn, TakeLine, s, k
    <3> DEFINE s2 == sessions'[d]
               k2 == kernels'[d]
    <3>2. /\ s2.pc = "idle" /\ s2.restarting = FALSE /\ s2.snap = s.snap /\ s2.files = s.files
          /\ s2.cell = s.cell /\ s2.said = IF s.restarting THEN "cut" ELSE "ok"
          /\ k2.in = <<>> /\ k2.out = <<>> /\ k2.names = k.names /\ k2.files = k.files
          /\ k2.signal = k.signal
      BY <1>1, <2>2, <3>1 DEF IsSession, IsKernel
    <3> HIDE DEF s2, k2
    <3>3. /\ f.pc \in {"opening", "cell"} /\ (f.pc = "cell" <=> s.restarting)
          /\ RestoreAfterRestart => Saved(s.snap) \subseteq k.names
          /\ Saved(s.files) \subseteq k.files
      BY <1>5, <2>1, <2>2, <2>4, <2>5 DEF FreshAt, Tells, Waiting, Restarting, Restarts, Waits, Saved, Active
    <3>4. StoreAt(d, f, s2) /\ Waiting(f, s2) /\ PipesAt(f, s2, k2)
      BY <1>5, <2>2, <3>2, <3>3 DEF StoreAt, Stored, Waiting, Restarting, Restarts, Waits, PipesAt, Ops
    <3>5. f.cut \cap Inside(k) = {} /\ Inside(k) \subseteq Behind(f)
      BY <1>5, <2>4 DEF FreshAt, StoreAt, Stored, Inside
    <3>6. IntactAt(d, f, k2)
      BY <1>5, <1>7, <3>2, <3>3, <3>5 DEF StoreAt, IntactAt, Inside
    <3>7. CellAt(f, s2, k2)
      BY <1>5, <1>7, <2>1, <3>2, <3>3, <3>5 DEF CellAt, GoesOn, Inside
    <3> QED
      BY <1>6, <3>2, <3>4, <3>6, <3>7 DEF KernelAt, s2, k2
  <2>6. CASE ~ (next = "idle" \/ s.pc = "init")
    <3>1. /\ sessions'[d] = [s EXCEPT !.pc = next]
          /\ kernels'[d] = [k EXCEPT !.out = Tail(@), !.in = Append(@, next)]
      BY <1>1, <2>1, <2>6 DEF StartGoesOn, s, k
    <3> DEFINE s2 == sessions'[d]
               k2 == kernels'[d]
    <3>2. /\ s2.pc = next /\ s2.restarting = s.restarting /\ s2.snap = s.snap
          /\ s2.files = s.files /\ s2.cell = s.cell
          /\ k2.in = <<next>> /\ k2.out = <<>> /\ k2.names = k.names /\ k2.files = k.files
          /\ k2.signal = k.signal
      BY <1>1, <2>2, <3>1, OneLine DEF IsSession, IsKernel
    <3> HIDE DEF s2, k2
    <3>3. /\ f.pc = "cell" /\ s.restarting /\ next \in {"restore", "init"}
          /\ next = "restore" => s.snap # Nothing
          /\ next = "init" => (RestoreAfterRestart => Saved(s.snap) \subseteq k.names)
      BY <1>5, <2>1, <2>2, <2>6 DEF Tells, StoreAt, Waiting, Restarting, Restarts, Waits, Saved, Active
    <3>4. StoreAt(d, f, s2) /\ Waiting(f, s2) /\ PipesAt(f, s2, k2)
      BY <1>5, <2>2, <3>2, <3>3
         DEF StoreAt, Stored, Waiting, Restarting, Restarts, Waits, PipesAt, Asked, GoesOn
    <3>5. KernelAt(d, f, s2, k2) /\ CellAt(f, s2, k2)
      BY <1>5, <2>1, <2>4, <3>2, <3>3 DEF KernelAt, FreshAt, CellAt, GoesOn
    <3> QED
      BY <1>6, <3>4, <3>5 DEF s2, k2
  <2> QED
    BY <2>5, <2>6
<1>f. CASE StartFails(d)
  <2>1. /\ s.pc = "boot" \/ s.pc = "restore" \/ (s.pc = "init" /\ s.restarting)
        /\ sessions'[d] = [s EXCEPT !.wire = FALSE, !.observed = @ + 1, !.restarting = FALSE,
                             !.said = Failure(d), !.pc = IF s.restarting THEN "idle" ELSE "off"]
        /\ kernels'[d] = NoKernel
    BY <1>1, <1>f DEF StartFails, Starting, At, Killed, s, k
  <2> DEFINE s2 == sessions'[d]
             k2 == kernels'[d]
  <2>2. /\ s2.pc = (IF s.restarting THEN "idle" ELSE "off") /\ s2.restarting = FALSE
        /\ s2.snap = s.snap /\ s2.files = s.files /\ s2.said \in {"late", "refused"}
    BY <1>1, <2>1 DEF IsSession, Failure
  <2>3. k2.in = <<>> /\ k2.signal = FALSE
    BY <2>1 DEF NoKernel
  <2> HIDE DEF s2, k2
  <2>4. f.pc \in {"opening", "cell"} /\ (f.pc = "cell" <=> s.restarting)
    BY <1>5, <2>1 DEF Waiting, Restarting, Restarts, Waits, Active
  <2>5. StoreAt(d, f, s2) /\ Waiting(f, s2)
    BY <1>5, <2>2, <2>4 DEF StoreAt, Stored, Waiting, Restarting, Restarts, Waits
  <2>6. s2.pc # "off" => PipesAt(f, s2, k2) /\ KernelAt(d, f, s2, k2) /\ CellAt(f, s2, k2)
    BY <2>2, <2>3, <2>4 DEF PipesAt, KernelAt, CellAt, GoesOn, Ops
  <2> QED
    BY <1>5, <2>5, <2>6 DEF CellsAt, s2, k2
<1> DEFINE s2 == sessions'[d]
           k2 == kernels'[d]
           Same == /\ s2.snap = s.snap /\ s2.files = s.files /\ s2.restarting = s.restarting
                   /\ s2.cell = s.cell
           Taken == /\ k2.in = k.in /\ k2.out = Tail(k.out) /\ k2.names = k.names
                    /\ k2.files = k.files /\ k2.signal = k.signal /\ k2.alive = k.alive
\* A request has been answered: the line is taken, and nothing is in the pipes.
<1>a. ASSUME k.out # <<>>, s.pc \in Ops, k2.in = k.in, k2.out = Tail(k.out), k2.signal = k.signal
      PROVE  /\ k2.in = <<>> /\ k2.out = <<>> /\ ~ k2.signal
             /\ Head(k.out).op = s.pc /\ (Head(k.out).good => Tells(s, k, Head(k.out)))
  BY <1>5, <1>a DEF PipesAt, Asked, Ops
<1>b. ASSUME k2 = [k EXCEPT !.out = Tail(@)] PROVE Taken
  BY <1>1, <1>b DEF IsKernel
<1> HIDE DEF s2, k2
<1>c. CASE InitAnswered(d)
  <2>1. /\ s.pc = "init" /\ ~ s.restarting /\ k.out # <<>>
        /\ s2 = [s EXCEPT !.pc = "idle", !.said = "ok", !.files = {}]
        /\ k2 = [k EXCEPT !.out = Tail(@)]
    BY <1>1, <1>c DEF InitAnswered, Answered, HasLine, At, TakeLine, s, k, s2, k2
  <2>2. /\ s2.pc = "idle" /\ s2.said = "ok" /\ s2.files = {} /\ s2.snap = s.snap
        /\ s2.restarting = FALSE /\ s2.cell = s.cell
    BY <1>1, <2>1 DEF IsSession
  <2>3. Taken /\ k2.in = <<>> /\ k2.out = <<>> /\ ~ k2.signal
    BY <1>a, <1>b, <2>1 DEF Ops
  <2>4. f.pc = "init" /\ f.turn = 0
    BY <1>5, <2>1 DEF Waiting, Restarting, Restarts, Waits, StoreAt, Active
  <2>5. IntactAt(d, f, k)
    BY <1>5, <2>1 DEF KernelAt
  <2>6. f.cut \cup f.kept \cup f.snapped = {}
    BY <1>5, <2>4 DEF StoreAt, Behind
  <2>7. StoreAt(d, f, s2) /\ Waiting(f, s2)
    BY <1>5, <2>2, <2>4, <2>6 DEF StoreAt, Stored, Saved, Waiting, Restarting, Waits
  <2>8. PipesAt(f, s2, k2) /\ KernelAt(d, f, s2, k2) /\ CellAt(f, s2, k2)
    BY <2>2, <2>3, <2>4, <2>5 DEF PipesAt, KernelAt, CellAt, IntactAt, Inside, Ops
  <2> QED
    BY <1>6, <2>7, <2>8 DEF s2, k2
\* The call raises, and the level ends: nothing is claimed of the kernel then.
<1>e. ASSUME f.pc \in {"cell", "init", "export", "finish"}, s.restarting = FALSE,
             s2.pc = "idle", s2.said \in {"late", "refused"}, Same, k2.in # <<>> => k2.alive
      PROVE  CellsAt(d, f, s2, k2)
  <2>1. StoreAt(d, f, s2) /\ Waiting(f, s2)
    BY <1>5, <1>e DEF StoreAt, Stored, Waiting, Restarting, Restarts, Waits
  <2>2. PipesAt(f, s2, k2) /\ KernelAt(d, f, s2, k2) /\ CellAt(f, s2, k2)
    BY <1>e DEF PipesAt, KernelAt, CellAt, GoesOn, Ops
  <2> QED
    BY <1>5, <2>1, <2>2 DEF CellsAt
<1>d. CASE ExecuteAnswered(d)
  <2>1. /\ s.pc = "execute" /\ k.out # <<>>
        /\ \E said \in {IF Head(k.out).good THEN "ok" ELSE "error", "refused"} :
                s2 = [s EXCEPT !.pc = "idle", !.said = said]
        /\ k2 = [k EXCEPT !.out = Tail(@)]
    BY <1>1, <1>d DEF ExecuteAnswered, HasLine, Line, At, Returns, TakeLine, s, k, s2, k2
  <2>2. /\ s2.pc = "idle" /\ Same
        /\ s2.said = (IF Head(k.out).good THEN "ok" ELSE "error") \/ s2.said = "refused"
    BY <1>1, <2>1 DEF IsSession
  <2>3. Taken /\ k2.in = <<>> /\ k2.out = <<>> /\ ~ k2.signal
        /\ (Head(k.out).good => s.cell \in k.names /\ s.cell \in k.files)
    BY <1>a, <1>b, <2>1 DEF Ops, Tells
  <2>4. f.pc = "cell" /\ ~ s.restarting
    BY <1>5, <2>1 DEF Waiting, Restarting, Restarts, Waits, Active
  <2>5. CASE s2.said = "refused"
    <3>1. s.restarting = FALSE
      BY <1>1, <2>4 DEF IsSession
    <3> QED
      BY <1>e, <2>2, <2>3, <2>4, <2>5, <3>1 DEF s2, k2
  <2>6. CASE s2.said = (IF Head(k.out).good THEN "ok" ELSE "error")
    <3>1. IntactAt(d, f, k) /\ s.cell = f.turn
      BY <1>5, <2>1, <2>4 DEF KernelAt, CellAt
    <3>2. StoreAt(d, f, s2) /\ Waiting(f, s2)
      BY <1>5, <2>2, <2>4, <2>6 DEF StoreAt, Stored, Waiting, Restarting, Restarts, Waits
    <3>3. PipesAt(f, s2, k2) /\ KernelAt(d, f, s2, k2)
      BY <2>2, <2>3, <2>4, <2>6, <3>1 DEF PipesAt, KernelAt, IntactAt, Inside, Ops
    <3>4. CellAt(f, s2, k2)
      BY <2>2, <2>3, <2>4, <2>6, <3>1 DEF CellAt, Inside
    <3> QED
      BY <1>6, <3>2, <3>3, <3>4 DEF s2, k2
  <2> QED
    BY <2>2, <2>5, <2>6
<1>g. CASE ExecuteDeadline(d) \/ ExecuteRefused(d)
  <2>1. /\ s.pc = "execute"
        /\ \/ /\ s2 = [s EXCEPT !.pc = "grace"]
              /\ k2 = [k EXCEPT !.signal = TRUE]
           \/ /\ s2 = [s EXCEPT !.pc = "idle", !.said = "refused"]
              /\ k2 = k
    BY <1>1, <1>g DEF ExecuteDeadline, ExecuteRefused, At, Returns, s, k, s2, k2
  <2>2. f.pc = "cell" /\ s.restarting = FALSE /\ s.cell = f.turn /\ ~ k.signal
        /\ (k.in # <<>> => k.alive)
    BY <1>1, <1>5, <2>1
       DEF Waiting, Restarting, Restarts, Waits, Active, CellAt, PipesAt, IsSession
  <2>3. CASE s2 = [s EXCEPT !.pc = "grace"] /\ k2 = [k EXCEPT !.signal = TRUE]
    <3>1. s2.pc = "grace" /\ Same /\ k2.in = k.in /\ k2.alive = k.alive
      BY <1>1, <2>3 DEF IsSession, IsKernel
    <3>2. StoreAt(d, f, s2) /\ Waiting(f, s2)
      BY <1>5, <2>2, <3>1 DEF StoreAt, Stored, Waiting, Restarting, Restarts, Waits
    <3>3. PipesAt(f, s2, k2) /\ KernelAt(d, f, s2, k2) /\ CellAt(f, s2, k2)
      BY <2>2, <3>1 DEF PipesAt, KernelAt, CellAt, GoesOn, Ops
    <3> QED
      BY <1>6, <3>2, <3>3 DEF s2, k2
  <2>4. CASE s2 = [s EXCEPT !.pc = "idle", !.said = "refused"] /\ k2 = k
    <3>1. s2.pc = "idle" /\ s2.said = "refused" /\ Same
      BY <1>1, <2>4 DEF IsSession
    <3> QED
      BY <1>e, <2>2, <2>4, <3>1 DEF s2, k2
  <2> QED
    BY <2>1, <2>3, <2>4
<1>h. CASE Grace(d)
  <2>1. /\ s.pc = "grace"
        /\ \/ /\ s2 = [s EXCEPT !.pc = "boot", !.restarting = TRUE, !.observed = @ + 1]
              /\ k2 = Booting
           \/ /\ s2 = [s EXCEPT !.pc = "idle", !.said = "refused", !.observed = @ + 1,
                                !.wire = FALSE]
              /\ k2 = NoKernel
           \/ /\ s2 = [s EXCEPT !.pc = "idle", !.said = "refused"]
              /\ k2 = [k EXCEPT !.out = Tail(@)]
    BY <1>1, <1>h DEF Grace, Restarted, Killed, Returns, TakeLine, At, s, k, s2, k2
  <2>2. f.pc = "cell" /\ s.restarting = FALSE /\ s.cell = f.turn
    BY <1>5, <2>1 DEF Waiting, Restarting, Restarts, Waits, Active, CellAt
  <2>3. CASE s2 = [s EXCEPT !.pc = "boot", !.restarting = TRUE, !.observed = @ + 1]
             /\ k2 = Booting
    <3>1. /\ s2.pc = "boot" /\ s2.restarting = TRUE /\ s2.snap = s.snap /\ s2.files = s.files
          /\ s2.cell = s.cell
          /\ k2.in = <<"boot">> /\ k2.out = <<>> /\ k2.names = {} /\ k2.files = {}
          /\ k2.signal = FALSE
      BY <1>1, <2>3 DEF IsSession, Booting, NoKernel
    <3>2. StoreAt(d, f, s2) /\ Waiting(f, s2)
      BY <1>5, <2>2, <3>1 DEF StoreAt, Stored, Waiting, Restarting, Restarts, Waits
    <3>3. PipesAt(f, s2, k2) /\ KernelAt(d, f, s2, k2) /\ CellAt(f, s2, k2)
      BY <2>2, <3>1 DEF PipesAt, Asked, KernelAt, FreshAt, CellAt, GoesOn, Restarts
    <3> QED
      BY <1>6, <3>2, <3>3 DEF s2, k2
  <2>4. CASE /\ s2 = [s EXCEPT !.pc = "idle", !.said = "refused", !.observed = @ + 1,
                               !.wire = FALSE]
             /\ k2 = NoKernel
    <3>1. s2.pc = "idle" /\ s2.said = "refused" /\ Same
      BY <1>1, <2>4 DEF IsSession
    <3>2. k2.in = <<>>
      BY <2>4 DEF NoKernel
    <3> QED
      BY <1>e, <2>2, <3>1, <3>2 DEF s2, k2
  <2>5. CASE s2 = [s EXCEPT !.pc = "idle", !.said = "refused"] /\ k2 = [k EXCEPT !.out = Tail(@)]
    <3>1. s2.pc = "idle" /\ s2.said = "refused" /\ Same /\ k2.in = k.in /\ k2.alive = k.alive
      BY <1>1, <2>5 DEF IsSession, IsKernel
    <3>2. k.in # <<>> => k.alive
      BY <1>5, <2>2 DEF PipesAt
    <3> QED
      BY <1>e, <2>2, <3>1, <3>2 DEF s2, k2
  <2> QED
    BY <2>1, <2>3, <2>4, <2>5
<1>i. CASE ExportAnswered(d)
  <2>1. /\ s.pc = "export" /\ k.out # <<>> /\ Head(k.out).good
        /\ s2 = [s EXCEPT !.pc = "idle", !.said = "ok", !.files = Head(k.out).value]
        /\ k2 = [k EXCEPT !.out = Tail(@)]
    BY <1>1, <1>i DEF ExportAnswered, Answered, HasLine, Line, At, TakeLine, s, k, s2, k2
  <2>2. Taken /\ k2.in = <<>> /\ k2.out = <<>> /\ ~ k2.signal /\ Head(k.out).value = k.files
    BY <1>a, <1>b, <2>1 DEF Ops, Tells
  <2>3. /\ s2.pc = "idle" /\ s2.said = "ok" /\ s2.files = k.files /\ s2.snap = s.snap
        /\ s2.restarting = s.restarting /\ s2.cell = s.cell
    BY <1>1, <2>1, <2>2 DEF IsSession
  <2>4. f.pc \in {"export", "finish"} /\ s.restarting = FALSE
    BY <1>5, <2>1 DEF Waiting, Restarting, Waits, Active
  <2>5. IntactAt(d, f, k)
    BY <1>5, <2>1, <2>4 DEF KernelAt
  <2>6. Saved(k.files) = k.files
    BY <1>5, <2>5, BehindAreCells DEF StoreAt, IntactAt, Inside
  <2>7. StoreAt(d, f, s2)
    BY <1>5, <2>3, <2>4, <2>5, <2>6 DEF StoreAt, Stored, IntactAt, Inside, Behind
  <2>8. Waiting(f, s2) /\ PipesAt(f, s2, k2) /\ KernelAt(d, f, s2, k2) /\ CellAt(f, s2, k2)
    BY <1>5, <2>1, <2>2, <2>3, <2>4, <2>5
       DEF Waiting, Restarting, Waits, PipesAt, KernelAt, IntactAt, Inside, CellAt, Ops
  <2> QED
    BY <1>6, <2>7, <2>8 DEF s2, k2
<1>j. CASE SnapshotAnswered(d)
  <2>1. /\ s.pc = "snapshot" /\ k.out # <<>> /\ Head(k.out).good
        /\ s2 = [s EXCEPT !.pc = "idle", !.said = "ok", !.snap = Head(k.out).value]
        /\ k2 = [k EXCEPT !.out = Tail(@)]
    BY <1>1, <1>j DEF SnapshotAnswered, Answered, HasLine, Line, At, TakeLine, s, k, s2, k2
  <2>2. Taken /\ k2.in = <<>> /\ k2.out = <<>> /\ ~ k2.signal /\ Head(k.out).value = k.names
    BY <1>a, <1>b, <2>1 DEF Ops, Tells
  <2>3. /\ s2.pc = "idle" /\ s2.said = "ok" /\ s2.files = s.files /\ s2.snap = k.names
        /\ s2.restarting = s.restarting /\ s2.cell = s.cell
    BY <1>1, <2>1, <2>2 DEF IsSession
  <2>4. f.pc = "snapshot" /\ s.restarting = FALSE
    BY <1>5, <2>1 DEF Waiting, Restarting, Waits, Active
  <2>5. IntactAt(d, f, k) /\ s.cell \in k.names
    BY <1>5, <2>1, <2>4 DEF KernelAt, CellAt
  <2>6. Saved(k.names) = k.names
    BY <1>5, <2>5, BehindAreCells DEF StoreAt, IntactAt, Inside
  <2>7. StoreAt(d, f, s2)
    BY <1>5, <2>3, <2>4, <2>5, <2>6 DEF StoreAt, Stored, IntactAt, Inside, Behind
  <2>8. Waiting(f, s2) /\ PipesAt(f, s2, k2) /\ KernelAt(d, f, s2, k2) /\ CellAt(f, s2, k2)
    BY <1>5, <2>1, <2>2, <2>3, <2>4, <2>5, <2>6
       DEF Waiting, Restarting, Waits, PipesAt, KernelAt, IntactAt, Inside, CellAt, Ops
  <2> QED
    BY <1>6, <2>7, <2>8 DEF s2, k2
<1>k. CASE RequestFails(d)
  <2>1. /\ s.pc = "export" \/ s.pc = "snapshot" \/ (s.pc = "init" /\ ~ s.restarting)
        /\ k.out # <<>> => ~ (Head(k.out).op = s.pc /\ Head(k.out).good)
        /\ s2 = [s EXCEPT !.pc = "idle", !.said = IF k.out = <<>> /\ k.alive THEN "late"
                                                  ELSE "refused"]
        /\ k2 = [k EXCEPT !.out = IF k.out # <<>> THEN Tail(@) ELSE @]
    BY <1>1, <1>k DEF RequestFails, Failed, Refused, Silent, Ended, Failure, Answered, HasLine,
                      Line, Alive, At, Returns, s, k, s2, k2
  <2>2. /\ s2.pc = "idle" /\ Same
        /\ s2.said = IF k.out = <<>> /\ k.alive THEN "late" ELSE "refused"
        /\ k2.in = k.in /\ k2.alive = k.alive /\ k2.signal = k.signal /\ k2.names = k.names
        /\ k2.files = k.files /\ k2.out = IF k.out # <<>> THEN Tail(k.out) ELSE k.out
    BY <1>1, <2>1 DEF IsSession, IsKernel
  <2>3. /\ s.restarting = FALSE
        /\ f.pc \in {"init", "export", "finish", "snapshot"}
        /\ f.pc = "snapshot" <=> s.pc = "snapshot"
    BY <1>1, <1>5, <2>1 DEF Waiting, Restarting, Restarts, Waits, Active
  <2>4. k.signal = FALSE
    BY <1>5, <2>1 DEF PipesAt
  <2>5. CASE f.pc = "snapshot"
    <3>1. IntactAt(d, f, k) /\ s.cell \in k.names
      BY <1>5, <2>1, <2>3, <2>5 DEF KernelAt, CellAt
    <3>2. StoreAt(d, f, s2) /\ Waiting(f, s2)
      BY <1>5, <2>2, <2>3, <2>5 DEF StoreAt, Stored, Waiting, Restarting, Restarts, Waits
    <3>3. s2.said = "refused" => k2.in = <<>> /\ k2.out = <<>>
      BY <1>5, <2>1, <2>2, <2>3, <2>5 DEF PipesAt, Asked, Ops, Restarts
    <3>4. PipesAt(f, s2, k2)
      <4>1. k2.in # <<>> => k2.alive
        BY <1>5, <2>2, <2>3, <2>5 DEF PipesAt, Restarts
      <4> QED
        BY <2>2, <2>4, <2>5, <3>3, <4>1 DEF PipesAt, GoesOn, Ops
    <3>5. KernelAt(d, f, s2, k2) /\ CellAt(f, s2, k2)
      BY <2>2, <2>3, <2>5, <3>1 DEF KernelAt, IntactAt, Inside, CellAt
    <3> QED
      BY <1>6, <3>2, <3>4, <3>5 DEF s2, k2
  <2>6. CASE f.pc # "snapshot"
    <3>1. s2.said \in {"late", "refused"} /\ k2.signal = FALSE
      BY <2>2, <2>4
    <3>2. StoreAt(d, f, s2) /\ Waiting(f, s2)
      BY <1>5, <2>2, <2>3, <2>6, <3>1 DEF StoreAt, Stored, Waiting, Restarting, Restarts, Waits
    <3>3. KernelAt(d, f, s2, k2) /\ CellAt(f, s2, k2)
      BY <2>2, <2>3, <2>6, <3>1 DEF KernelAt, CellAt, GoesOn
    <3>4. PipesAt(f, s2, k2)
      BY <1>5, <2>2, <2>3, <2>6, <3>1 DEF PipesAt, GoesOn, Ops
    <3> QED
      BY <1>6, <3>2, <3>3, <3>4 DEF s2, k2
  <2> QED
    BY <2>5, <2>6
<1>l. CASE CloseStep(d)
  BY <1>5, <1>l DEF CloseStep, At, Waiting, Waits, Active, s
<1> QED
  BY <1>s, <1>f, <1>c, <1>d, <1>g, <1>h, <1>i, <1>j, <1>k, <1>l DEF SessionStep, s2, k2

\* A kernel serves the request it was sent, or ends; a session that waits for
\* nothing, or for the end of the grace period, does not rely on what it does.
LEMMA KernelCells ==
    ASSUME IInv, CellsInv, NEW d \in Levels, KernelStep(d), UNCHANGED runVars
    PROVE  CellsInv'
<1> DEFINE f == levels[d]
           s == sessions[d]
           k == kernels[d]
           k2 == kernels'[d]
<1>1. /\ DOMAIN sessions = Levels /\ DOMAIN kernels = Levels /\ DOMAIN levels = Levels
      /\ IsSession(s) /\ IsKernel(k)
      /\ levels' = levels /\ depth' = depth /\ workspace' = workspace
      /\ CellsAt(d, f, s, k)
      /\ sessions' = sessions
  BY DEF IInv, Shape, CellsInv, runVars, KernelStep, Serve, Interrupted, Shutdown, KernelDies
<1>a. ASSUME NEW N, NEW F, NEW a
      PROVE  /\ DOMAIN Served(d, N, F, a) = Levels
             /\ \A e \in Levels \ {d} : Served(d, N, F, a)[e] = kernels[e]
             /\ DOMAIN Served(d, N, F, a)[d] = DOMAIN k
             /\ Served(d, N, F, a)[d].names = N
             /\ Served(d, N, F, a)[d].files = F
             /\ Served(d, N, F, a)[d].in = Tail(k.in)
             /\ Served(d, N, F, a)[d].out = Append(k.out, a)
             /\ Served(d, N, F, a)[d].alive = k.alive
             /\ Served(d, N, F, a)[d].signal = k.signal
  BY <1>1 DEF Served, IsKernel
<1>2. Only(d)
  <2>1. CASE Serve(d)
    <3>1. PICK N, F, a : kernels' = Served(d, N, F, a)
      BY <2>1 DEF Serve
    <3> QED
      BY <1>1, <1>a, <3>1 DEF Only
  <2>2. CASE Interrupted(d)
    <3>1. PICK N, F, a : \/ kernels' = [Served(d, N, F, a) EXCEPT ![d].signal = FALSE]
                         \/ kernels' = [kernels EXCEPT ![d].alive = FALSE]
      BY <2>2 DEF Interrupted
    <3> QED
      BY <1>1, <1>a, <3>1 DEF Only
  <2> QED
    BY <1>1, <2>1, <2>2 DEF KernelStep, Shutdown, KernelDies, Only
<1> SUFFICES CellsAt(d, f, s, k2)
  BY <1>1, <1>2, CellsStep DEF CellsInv, Delivered
<1> SUFFICES ASSUME f.pc \in Active, s.pc # "off"
             PROVE  PipesAt(f, s, k2) /\ KernelAt(d, f, s, k2) /\ CellAt(f, s, k2)
  BY <1>1 DEF CellsAt
<1>3. /\ StoreAt(d, f, s) /\ Waiting(f, s) /\ PipesAt(f, s, k) /\ KernelAt(d, f, s, k)
      /\ CellAt(f, s, k) /\ s.pc \in (Ops \ {"shutdown"}) \cup {"grace", "idle"}
  BY <1>1 DEF CellsAt, Active, Waiting, Waits, Ops
<1>4. /\ f.turn \in Nat /\ Behind(f) \subseteq 1 .. f.turn
      /\ f.pc = "cell" => f.turn \notin Behind(f) /\ f.turn \in 1 .. f.turn
  BY <1>3, LimitsAssumption DEF StoreAt, Behind
<1>s. CASE Serve(d)
  <2> DEFINE c == s.cell
             op == Head(k.in)
  <2> DEFINE Does(N, F, a) ==
           /\ k.alive /\ k.in # <<>> /\ kernels' = Served(d, N, F, a) /\ a.op = op
           /\ \/ op = "boot" /\ N = {} /\ F = {}
              \/ op = "restore" /\ N = k.names \cup s.snap /\ F = k.files
              \/ op = "init" /\ N = k.names /\ F = Saved(s.files)
              \/ op = "execute" /\ N = k.names \cup {c} /\ F = k.files \cup {c}
              \/ /\ op = "execute" /\ ~ a.good
                 /\ N \subseteq k.names \cup {c} /\ F \subseteq k.files \cup {c}
                 /\ k.names \subseteq N /\ k.files \subseteq F
              \/ op = "export" /\ N = k.names /\ F = k.files /\ a.value = F
              \/ op = "snapshot" /\ N = k.names /\ F = k.files /\ a.value = N
              \/ op \in {"boot", "init", "export", "snapshot"} /\ ~ a.good /\ N = k.names /\ F = k.files
  <2>0. \E N, F, a : Does(N, F, a)
    <3>a. ASSUME NEW g, NEW v
          PROVE  Answer(op, g, v).op = op /\ Answer(op, g, v).good = g /\ Answer(op, g, v).value = v
      BY DEF Answer
    <3>0. k.alive /\ k.in # <<>>
      BY <1>s DEF Serve
    <3>1. CASE op = "boot" /\ kernels' = Served(d, {}, {}, Answer(op, TRUE, Nothing))
      <4>1. Does({}, {}, Answer(op, TRUE, Nothing))
        BY <3>a, <3>0, <3>1
      <4> QED
        BY <4>1
    <3>2. CASE op = "restore" /\ kernels' = Served(d, k.names \cup s.snap, k.files, Answer(op, TRUE, Nothing))
      <4>1. Does(k.names \cup s.snap, k.files, Answer(op, TRUE, Nothing))
        BY <3>a, <3>0, <3>2
      <4> QED
        BY <4>1
    <3>3. CASE op = "init" /\ kernels' = Served(d, k.names, Saved(s.files), Answer(op, TRUE, Nothing))
      <4>1. Does(k.names, Saved(s.files), Answer(op, TRUE, Nothing))
        BY <3>a, <3>0, <3>3
      <4> QED
        BY <4>1
    <3>4. CASE op = "execute" /\ kernels' = Served(d, k.names \cup {c}, k.files \cup {c}, Answer(op, TRUE, Nothing))
      <4>1. Does(k.names \cup {c}, k.files \cup {c}, Answer(op, TRUE, Nothing))
        BY <3>a, <3>0, <3>4
      <4> QED
        BY <4>1
    <3>5. ASSUME op = "execute", NEW N \in SUBSET {c}, NEW F \in SUBSET {c},
                 kernels' = Served(d, k.names \cup N, k.files \cup F, Answer(op, FALSE, Nothing))
          PROVE  \E X, Y, a : Does(X, Y, a)
      <4>1. Does(k.names \cup N, k.files \cup F, Answer(op, FALSE, Nothing))
        <5> HIDE DEF op, c, k
        <5> QED
          BY <3>a, <3>0, <3>5
      <4> QED
        BY <4>1
    <3>6. CASE op = "export" /\ kernels' = Served(d, k.names, k.files, Answer(op, TRUE, k.files))
      <4>1. Does(k.names, k.files, Answer(op, TRUE, k.files))
        BY <3>0, <3>6 DEF Answer
      <4> QED
        BY <4>1
    <3>7. CASE op = "snapshot" /\ kernels' = Served(d, k.names, k.files, Answer(op, TRUE, k.names))
      <4>1. Does(k.names, k.files, Answer(op, TRUE, k.names))
        BY <3>0, <3>7 DEF Answer
      <4> QED
        BY <4>1
    <3>8. CASE op \in {"boot", "init", "export", "snapshot"}
               /\ kernels' = Served(d, k.names, k.files, Answer(op, FALSE, Nothing))
      <4>1. Does(k.names, k.files, Answer(op, FALSE, Nothing))
        BY <3>a, <3>0, <3>8
      <4> QED
        BY <4>1
    <3> HIDE DEF Does
    <3> QED
      BY <1>s, <3>1, <3>2, <3>3, <3>4, <3>5, <3>6, <3>7, <3>8, Zenon DEF Serve, Saved
  <2>1. PICK N, F, a : Does(N, F, a)
    BY <2>0
  <2>2. kernels' = Served(d, N, F, a)
    BY <2>1
  <2>3. /\ k2.names = N /\ k2.files = F /\ k2.in = Tail(k.in) /\ k2.out = Append(k.out, a)
        /\ k2.alive = k.alive /\ k2.signal = k.signal
    BY <1>a, <2>2
  <2> HIDE DEF f, s, k, k2
  <2>4. CASE s.pc \in Ops
    <3>1. op = s.pc /\ k2.in = <<>> /\ k2.out = <<a>>
      BY <1>3, <2>1, <2>3, <2>4, OneLine DEF PipesAt, Asked
    <3>0. s.pc = "execute" => f.pc = "cell" /\ c = f.turn /\ s.restarting = FALSE
      BY <1>3 DEF Waiting, Restarting, Restarts, Waits, Active, CellAt
    <3>a. s.restarting \/ s.pc = "boot" => FreshAt(s, k) /\ s.pc \in Restarts
      BY <1>3 DEF KernelAt, Waiting, Restarting, Restarts
    <3>b. s.pc = "restore" => s.restarting = TRUE
      BY <1>3 DEF Waiting, Restarting, Restarts, Waits, Active
    <3>2. Tells(s, k2, a) \/ ~ a.good
      BY <1>3, <2>1, <2>3, <3>1, <3>a, <3>b DEF Tells, FreshAt, Saved
    <3>3. PipesAt(f, s, k2)
      BY <1>3, <2>1, <2>3, <2>4, <3>1, <3>2, OneLine DEF PipesAt, Asked, GoesOn, Ops, Tells
    <3>4. KernelAt(d, f, s, k2)
      <4>1. ~ GoesOn(f, s)
        BY <2>4 DEF GoesOn, Ops
      <4>2. ASSUME s.pc \in {"execute", "export", "snapshot", "init"}, ~ s.restarting
            PROVE  IntactAt(d, f, k2)
        <5>1. IntactAt(d, f, k)
          BY <1>3, <4>2 DEF KernelAt
        <5>2. CASE s.pc \in {"export", "snapshot"}
          BY <2>1, <2>3, <3>1, <5>1, <5>2 DEF IntactAt, Inside
        <5>3. CASE s.pc = "execute"
          <6>1. c \in 1 .. f.turn /\ c \notin f.cut
            BY <1>3, <1>4, <3>0, <5>3 DEF StoreAt
          <6>2. N \subseteq k.names \cup {c} /\ F \subseteq k.files \cup {c}
                /\ k.names \subseteq N /\ k.files \subseteq F
            BY <2>1, <3>1, <5>3
          <6> QED
            BY <2>3, <5>1, <6>1, <6>2 DEF IntactAt, Inside
        <5>4. CASE s.pc = "init"
          <6>1. f.pc = "init"
            BY <1>3, <4>2, <5>4 DEF Waiting, Restarting, Restarts, Waits, Active
          <6>2. /\ Saved(s.files) \subseteq 1 .. f.turn /\ f.cut \cap Saved(s.files) = {}
                /\ d = 0 => f.kept \subseteq Saved(s.files)
            BY <1>3, <1>4, <6>1 DEF StoreAt, Stored
          <6>3. N = k.names /\ (F = k.files \/ F = Saved(s.files))
            BY <2>1, <3>1, <5>4
          <6> QED
            BY <2>3, <5>1, <6>2, <6>3 DEF IntactAt, Inside
        <5> QED
          BY <4>2, <5>2, <5>3, <5>4
      <4>3. ASSUME s.restarting \/ s.pc = "boot" PROVE FreshAt(s, k2)
        BY <2>1, <2>3, <3>1, <3>a, <4>3 DEF FreshAt, Restarts, Saved
      <4> QED
        BY <4>1, <4>2, <4>3 DEF KernelAt
    <3>5. CellAt(f, s, k2)
      <4>1. f.pc \in {"export", "snapshot"} => s.pc \in {"export", "snapshot"}
        BY <1>3, <2>4 DEF Waiting, Waits, Ops
      <4>2. s.pc \in {"export", "snapshot"} => N = k.names
        BY <2>1, <3>1
      <4> QED
        BY <1>3, <2>3, <2>4, <4>1, <4>2 DEF CellAt, GoesOn, Ops
    <3> QED
      BY <3>3, <3>4, <3>5
  <2>5. CASE s.pc \in {"grace", "idle"}
    <3>1. ~ GoesOn(f, s) /\ ~ s.restarting
      BY <1>3, <2>1, <2>5 DEF PipesAt, Waiting, Restarting, Restarts
    <3> QED
      BY <1>3, <2>1, <2>3, <2>5, <3>1 DEF PipesAt, KernelAt, CellAt, Ops, Waiting, Waits
  <2> QED
    BY <1>3, <2>4, <2>5
<1>i. CASE Interrupted(d)
  <2>1. /\ k.signal /\ k.alive
        /\ \/ \E N, F, a : kernels' = [Served(d, N, F, a) EXCEPT ![d].signal = FALSE]
           \/ kernels' = [kernels EXCEPT ![d].alive = FALSE] /\ k.in = <<>>
    BY <1>i DEF Interrupted
  <2>2. s.pc \in {"grace", "idle"} /\ ~ s.restarting /\ ~ GoesOn(f, s)
    BY <1>3, <2>1 DEF PipesAt, Waiting, Restarting, Restarts, GoesOn
  <2>3. k2.in # <<>> => k2.alive
    <3>1. ASSUME NEW N, NEW F, NEW a, kernels' = [Served(d, N, F, a) EXCEPT ![d].signal = FALSE]
          PROVE  k2.alive
      <4> DEFINE K == Served(d, N, F, a)
      <4>1. DOMAIN K = Levels /\ DOMAIN K[d] = DOMAIN k /\ K[d].alive = k.alive
        BY <1>a
      <4> HIDE DEF K
      <4> QED
        BY <1>1, <2>1, <3>1, <4>1 DEF IsKernel, K
    <3>2. ASSUME kernels' = [kernels EXCEPT ![d].alive = FALSE], k.in = <<>>
          PROVE  k2.in = <<>>
      BY <1>1, <3>2 DEF IsKernel
    <3> QED
      BY <2>1, <3>1, <3>2
  <2>4. s.pc = "grace" => f.pc = "cell"
    BY <1>3 DEF Waiting, Waits, Active
  <2> HIDE DEF f, s, k, k2
  <2> QED
    BY <1>3, <2>2, <2>3, <2>4 DEF PipesAt, KernelAt, CellAt, Ops
<1>d. CASE Shutdown(d) \/ KernelDies(d)
  <2>1. /\ k2.in = <<>> /\ k2.names = k.names /\ k2.files = k.files /\ k2.signal = k.signal
        /\ k2.out = k.out \/ (k.in # <<>> /\ Head(k.in) = "shutdown")
    <3>1. CASE Shutdown(d)
      <4>1. /\ k2 = [k EXCEPT !.alive = FALSE, !.in = <<>>,
                              !.out = Append(@, Answer("shutdown", TRUE, Nothing))]
            /\ k.in # <<>> /\ Head(k.in) = "shutdown"
        BY <1>1, <3>1 DEF Shutdown
      <4> QED
        BY <1>1, <4>1 DEF IsKernel
    <3>2. CASE KernelDies(d)
      BY <1>1, <3>2 DEF KernelDies, IsKernel
    <3> QED
      BY <1>d, <3>1, <3>2
  <2>2. CASE k2.out = k.out
    BY <1>3, <2>1, <2>2
       DEF PipesAt, Asked, Tells, KernelAt, IntactAt, Inside, FreshAt, CellAt
  <2>3. CASE k.in # <<>> /\ Head(k.in) = "shutdown"
    <3>1. s.pc \notin Ops /\ ~ GoesOn(f, s)
      BY <1>3, <2>3, OneLine DEF PipesAt, Asked, Ops
    <3>2. ~ s.restarting
      BY <1>3, <3>1 DEF Waiting, Restarting, Restarts, Ops
    <3> HIDE DEF f, s, k, k2
    <3> QED
      BY <1>3, <2>1, <3>1, <3>2 DEF PipesAt, KernelAt, CellAt, Ops, Waiting, Waits
  <2> QED
    BY <2>1, <2>2, <2>3
<1> QED
  BY <1>s, <1>i, <1>d DEF KernelStep

\* Before the run has its result, or another level runs, nothing is delivered.
LEMMA NotDelivered ==
    ASSUME IInv, CellsInv, levels[depth].pc \notin {"closing", "ended"}
    PROVE  workspace = Nothing
<1>1. depth \in Nat /\ 0 \in Levels
  BY LevelsAssumption DEF IInv, Shape
<1>2. CASE depth = 0
  BY <1>2 DEF CellsInv, Delivered
<1>3. CASE depth # 0
  <2>1. 0 < depth
    BY <1>1, <1>3
  <2>2. levels[0].pc = "child"
    BY <1>1, <2>1 DEF CellsInv, Nested
  <2> QED
    BY <2>2 DEF CellsInv, Delivered
<1> QED
  BY <1>2, <1>3

\* A step of the level that runs which delivers nothing.
LEMMA TurnCells ==
    ASSUME IInv, CellsInv, Only(depth), depth' = depth, workspace' = workspace,
           levels[depth].pc \notin {"closing", "ended"},
           CellsAt(depth, levels'[depth], sessions'[depth], kernels'[depth])
    PROVE  CellsInv'
<1>1. depth \in Levels /\ depth \in Nat /\ ~(depth < depth)
  BY LevelsAssumption DEF IInv, Shape
<1>2. workspace = Nothing
  BY NotDelivered
<1> QED
  BY <1>1, <1>2, CellsStep DEF Delivered

\* The end of a level, however it ends.
LEMMA EndCells ==
    ASSUME IInv, CellsInv, NEW how, LevelEnds(how), depth' = depth, workspace' = workspace,
           levels[depth].pc \notin {"closing", "ended"}
    PROVE  CellsInv'
<1>1. depth \in Levels /\ DOMAIN levels = Levels /\ IsLevel(levels[depth]) /\ GoodAt(depth)
      /\ DOMAIN sessions = Levels /\ DOMAIN kernels = Levels
  BY GoodLevels DEF IInv, Shape
<1>2. Only(depth) /\ levels'[depth].pc = "closing"
  BY <1>1, CloseWired DEF LevelEnds, Only, IsLevel
<1>3. CellsAt(depth, levels'[depth], sessions'[depth], kernels'[depth])
  BY <1>2 DEF CellsAt, Active
<1> QED
  BY <1>2, <1>3, TurnCells

\* An action that is refused: the level takes its next turn, or ends.
LEMMA InvalidCells ==
    ASSUME IInv, CellsInv, Invalid, depth' = depth, workspace' = workspace,
           levels[depth].pc = "act" \/ (levels[depth].pc = "finish" /\ Session.pc = "idle" /\ Said("ok"))
    PROVE  CellsInv'
<1> DEFINE f == levels[depth]
           s == sessions[depth]
           k == kernels[depth]
<1>1. depth \in Levels /\ DOMAIN levels = Levels /\ IsLevel(f)
      /\ DOMAIN sessions = Levels /\ DOMAIN kernels = Levels
      /\ CellsAt(depth, f, s, k) /\ s.pc = "idle"
  BY DEF IInv, Shape, CellsInv, CellsAt, Active, Waiting, Waits, Session
<1>2. CASE Level.invalid < MaxInvalid
  <2>1. /\ levels' = [levels EXCEPT ![depth].pc = "turn", ![depth].invalid = @ + 1]
        /\ UNCHANGED <<sessions, kernels>>
    BY <1>2 DEF Invalid
  <2> DEFINE f2 == levels'[depth]
  <2>2. /\ f2.pc = "turn" /\ f2.turn = f.turn /\ f2.cut = f.cut /\ f2.kept = f.kept
        /\ f2.snapped = f.snapped
    BY <1>1, <2>1 DEF IsLevel
  <2>3. Only(depth)
    BY <1>1, <2>1 DEF Only
  <2>4. GoesOn(f, s) /\ f.pc \in {"act", "finish"} /\ f.pc \in Active
    BY <1>1 DEF GoesOn, Session, Said, Active
  <2>5. s' = s /\ k' = k
    BY <2>1
  <2> HIDE DEF f, s, k, f2
  <2>6. StoreAt(depth, f, s) /\ Waiting(f, s) /\ PipesAt(f, s, k) /\ KernelAt(depth, f, s, k)
    BY <1>1, <2>4 DEF CellsAt
  <2>7. StoreAt(depth, f2, s)
    BY <2>2, <2>4, <2>6, LimitsAssumption DEF StoreAt, Behind
  <2>8. Waiting(f2, s) /\ PipesAt(f2, s, k) /\ KernelAt(depth, f2, s, k) /\ CellAt(f2, s, k)
    BY <1>1, <2>2, <2>4, <2>6
       DEF Waiting, Restarting, Waits, PipesAt, KernelAt, IntactAt, GoesOn, CellAt, Ops
  <2>9. CellsAt(depth, f2, s, k)
    BY <2>2, <2>7, <2>8 DEF CellsAt
  <2> QED
    BY <2>3, <2>4, <2>5, <2>9, TurnCells DEF f2, f, s, k
<1>3. CASE ~ (Level.invalid < MaxInvalid)
  BY <1>3, EndCells DEF Invalid
<1> QED
  BY <1>2, <1>3

\* A request to a kernel that has nothing to do is in its pipe, or is refused.
LEMMA SendsCells ==
    ASSUME NEW d \in Levels, GoodAt(d), DOMAIN sessions = Levels, DOMAIN kernels = Levels,
           NEW op \in Ops, Sends(d, op), sessions[d].pc = "idle", kernels[d].in = <<>>
    PROVE  LET s == sessions[d]
               k == kernels[d]
               s2 == sessions'[d]
               k2 == kernels'[d]
           IN  /\ s2.snap = s.snap /\ s2.files = s.files /\ s2.cell = s.cell
               /\ s2.restarting = s.restarting
               /\ k2.names = k.names /\ k2.files = k.files /\ k2.signal = k.signal
               /\ k2.out = k.out
               /\ \/ s2.pc = op /\ k2.in = <<op>> /\ k2.alive
                  \/ s2.pc = "idle" /\ s2.said = "refused" /\ k2.in = <<>>
BY OneLine DEF Sends, Alive, Returns, GoodAt, IsSession, IsKernel

LEMMA ExecuteCells ==
    ASSUME NEW d \in Levels, GoodAt(d), DOMAIN sessions = Levels, DOMAIN kernels = Levels,
           NEW c, Execute(d, c), sessions[d].pc = "idle", kernels[d].in = <<>>
    PROVE  LET s == sessions[d]
               k == kernels[d]
               s2 == sessions'[d]
               k2 == kernels'[d]
           IN  /\ s2.snap = s.snap /\ s2.files = s.files /\ s2.restarting = s.restarting
               /\ k2.names = k.names /\ k2.files = k.files /\ k2.signal = k.signal
               /\ k2.out = k.out
               /\ \/ s2.pc = "execute" /\ s2.cell = c /\ k2.in = <<"execute">> /\ k2.alive
                  \/ s2.pc = "idle" /\ s2.said = "refused" /\ k2.in = <<>>
BY OneLine DEF Execute, Alive, Returns, GoodAt, IsSession, IsKernel

\* Steps of the runtime that only turn to the next point of the level.
LEMMA PointCells ==
    ASSUME IInv, CellsInv,
           \/ Opened /\ depth # 0
           \/ WorkspaceInitialized \/ ModelReplies \/ CellFailed \/ CellCut \/ Snapped
    PROVE  CellsInv'
<1> DEFINE f == levels[depth]
           s == sessions[depth]
           k == kernels[depth]
           f2 == levels'[depth]
<1>1. depth \in Levels /\ DOMAIN levels = Levels /\ IsLevel(f)
      /\ DOMAIN sessions = Levels /\ DOMAIN kernels = Levels
      /\ CellsAt(depth, f, s, k)
  BY DEF IInv, Shape, CellsInv
<1>2. /\ UNCHANGED <<sessions, kernels, depth, workspace>> /\ Only(depth)
      /\ f.pc \in Active /\ f.pc \notin {"closing", "ended"} /\ s.pc # "off"
  BY <1>1
     DEF Opened, WorkspaceInitialized, ModelReplies, CellFailed, CellCut, Snapped, Goto, Only,
         Turn, Runs, Back, Session, Level, Active, sessionVars, CellsAt, Waiting, Waits, Counts
<1>3. /\ StoreAt(depth, f, s) /\ Waiting(f, s) /\ PipesAt(f, s, k) /\ KernelAt(depth, f, s, k)
      /\ CellAt(f, s, k) /\ f.turn \in Nat /\ s.pc = "idle"
  BY <1>1, <1>2, LimitsAssumption
     DEF CellsAt, StoreAt, Opened, WorkspaceInitialized, ModelReplies, CellFailed, CellCut, Snapped,
         Turn, Runs, Back, Session, Level, Waiting, Waits
<1> SUFFICES CellsAt(depth, f2, s, k)
  BY <1>2, TurnCells
<1> SUFFICES /\ StoreAt(depth, f2, s) /\ GoesOn(f, s) /\ GoesOn(f2, s) /\ IntactAt(depth, f2, k)
             /\ f2.pc \in {"turn", "act"}
  <2> HIDE DEF f, s, k, f2
  <2>1. Waiting(f2, s) /\ PipesAt(f2, s, k) /\ KernelAt(depth, f2, s, k) /\ CellAt(f2, s, k)
    BY <1>3 DEF Waiting, Restarting, Waits, PipesAt, KernelAt, CellAt, GoesOn, Ops, Restarts
  <2> QED
    BY <2>1 DEF CellsAt
<1>a. ASSUME GoesOn(f, s), f.pc # "act", f2.pc = "turn", f2.turn = f.turn,
             f2.cut = f.cut, f2.kept = f.kept, f2.snapped = f.snapped,
             f.pc # "export"
      PROVE  /\ StoreAt(depth, f2, s) /\ GoesOn(f2, s) /\ IntactAt(depth, f2, k)
  BY <1>3, <1>a DEF StoreAt, Behind, KernelAt, IntactAt, GoesOn
<1>4. CASE (Opened /\ depth # 0) \/ WorkspaceInitialized \/ CellFailed
  <2>1. /\ f2.pc = "turn" /\ f2.turn = f.turn /\ f2.cut = f.cut /\ f2.kept = f.kept
        /\ f2.snapped = f.snapped
    BY <1>1, <1>4 DEF Opened, WorkspaceInitialized, CellFailed, Goto, IsLevel
  <2>2. GoesOn(f, s) /\ f.pc \in {"opening", "init", "cell"}
    BY <1>4 DEF Opened, WorkspaceInitialized, CellFailed, Back, Runs, Said, Level, Session, GoesOn
  <2> QED
    BY <1>a, <2>1, <2>2
<1>5. CASE ModelReplies
  <2>1. /\ f2.pc = "act" /\ f2.turn = f.turn + 1 /\ f2.cut = f.cut /\ f2.kept = f.kept
        /\ f2.snapped = f.snapped /\ f.pc = "turn" /\ f.turn < MaxTurns[depth]
    BY <1>1, <1>5 DEF ModelReplies, IsLevel, Turn, TurnsLeft, Runs, Level
  <2>2. GoesOn(f, s) /\ GoesOn(f2, s)
    BY <1>3, <2>1 DEF GoesOn
  <2>3. StoreAt(depth, f2, s)
    <3>1. MaxTurns[depth] \in Nat
      BY <1>1, LimitsAssumption
    <3>2. Behind(f2) = Behind(f)
      BY <1>3, <2>1 DEF Behind
    <3> QED
      BY <1>3, <2>1, <3>1, <3>2 DEF StoreAt
  <2>4. IntactAt(depth, f2, k)
    <3>1. 1 .. f.turn \subseteq 1 .. f2.turn
      BY <1>3, <2>1
    <3> QED
      BY <1>3, <2>1, <2>2, <3>1 DEF KernelAt, IntactAt
  <2> QED
    BY <2>1, <2>2, <2>3, <2>4
<1>6. CASE CellCut
  <2>1. /\ f2.pc = "turn" /\ f2.turn = f.turn /\ f2.cut = f.cut \cup {s.cell} /\ f2.kept = f.kept
        /\ f2.snapped = f.snapped /\ f.pc = "cell" /\ s.said = "cut"
    BY <1>1, <1>6 DEF CellCut, IsLevel, Back, Runs, Said, Level, Session
  <2>2. GoesOn(f, s) /\ GoesOn(f2, s)
    BY <1>3, <2>1 DEF GoesOn
  <2>3. s.cell = f.turn /\ s.cell \notin Inside(k) /\ f.turn > 0
    BY <1>3, <2>1, <2>2 DEF CellAt, StoreAt
  <2>4. s.cell \notin Stored(s) /\ s.cell \in 1 .. f.turn /\ Behind(f) \subseteq 1 .. f.turn
    BY <1>3, <2>1, <2>3 DEF StoreAt, Behind
  <2>5. StoreAt(depth, f2, s)
    BY <1>3, <2>1, <2>4 DEF StoreAt, Behind
  <2>6. IntactAt(depth, f2, k)
    BY <1>3, <2>1, <2>2, <2>3 DEF KernelAt, IntactAt
  <2> QED
    BY <2>1, <2>2, <2>5, <2>6
<1>7. CASE Snapped
  <2>1. /\ f2.pc = "turn" /\ f2.turn = f.turn /\ f2.cut = f.cut /\ f2.kept = f.kept
        /\ f2.snapped = (IF s.said = "ok" THEN f.snapped \cup {s.cell} ELSE f.snapped)
        /\ f.pc = "snapshot" /\ s.said \in {"ok", "refused"}
    BY <1>1, <1>7 DEF Snapped, IsLevel, Back, Runs, Said, Level, Session
  <2>2. GoesOn(f, s) /\ GoesOn(f2, s)
    BY <1>3, <2>1 DEF GoesOn
  <2>3. s.cell \in k.names /\ (s.said = "ok" => s.cell \in Saved(s.snap))
    BY <1>3, <2>1, <2>2 DEF CellAt
  <2>4. IntactAt(depth, f, k)
    BY <1>3, <2>2 DEF KernelAt
  <2>5. StoreAt(depth, f2, s)
    BY <1>3, <2>1, <2>3, <2>4 DEF StoreAt, Behind, Stored
  <2>6. IntactAt(depth, f2, k)
    BY <2>1, <2>3, <2>4 DEF IntactAt
  <2> QED
    BY <2>1, <2>2, <2>5, <2>6
<1> QED
  BY <1>4, <1>5, <1>6, <1>7

\* Steps of the runtime that make the session's next request.
LEMMA RequestCells ==
    ASSUME IInv, CellsInv,
           \/ Opened /\ depth = 0
           \/ ActExecute /\ Level.executions < MaxExecutions
           \/ ActFinish /\ depth = 0
           \/ CellSucceeded \/ Exported
    PROVE  CellsInv'
<1> DEFINE f == levels[depth]
           s == sessions[depth]
           k == kernels[depth]
           f2 == levels'[depth]
           s2 == sessions'[depth]
           k2 == kernels'[depth]
<1>1. depth \in Levels /\ DOMAIN levels = Levels /\ IsLevel(f)
      /\ DOMAIN sessions = Levels /\ DOMAIN kernels = Levels
      /\ CellsAt(depth, f, s, k) /\ GoodAt(depth)
  BY GoodLevels DEF IInv, Shape, CellsInv
<1>2. /\ UNCHANGED <<depth, workspace>>
      /\ DOMAIN levels' = Levels /\ \A e \in Levels \ {depth} : levels'[e] = levels[e]
      /\ f.pc \in {"opening", "act", "cell", "export"}
      /\ f.pc # "act" => s.pc = "idle"
      /\ (\E op \in Ops : Sends(depth, op)) \/ (\E c : Execute(depth, c))
  BY <1>1
     DEF Opened, ActExecute, ActFinish, CellSucceeded, Exported, Goto, Counts,
         Runs, Back, Session, Level, InitializeWorkspace, ExportWorkspace, Snapshot, Ops
<1>3. Only(depth)
  BY <1>1, <1>2, SendsWired, ExecuteWired DEF Only
<1>4. f.pc \in Active /\ f.pc \notin {"closing", "ended"}
  BY <1>2 DEF Active
<1>5. s.pc = "idle" /\ StoreAt(depth, f, s) /\ Waiting(f, s) /\ f.turn \in Nat
      /\ PipesAt(f, s, k) /\ KernelAt(depth, f, s, k) /\ CellAt(f, s, k)
  <2>1. Waiting(f, s)
    BY <1>1, <1>4 DEF CellsAt
  <2>2. s.pc = "idle"
    BY <1>2, <2>1 DEF Waiting, Waits
  <2> QED
    BY <1>1, <1>4, <2>1, <2>2, LimitsAssumption DEF CellsAt, StoreAt
<1>6. GoesOn(f, s)
  BY <1>5 DEF Opened, ActExecute, ActFinish, CellSucceeded, Exported, Back, Runs, Said, Level,
              Session, GoesOn
<1>7. k.in = <<>> /\ k.out = <<>> /\ ~ k.signal /\ IntactAt(depth, f, k) /\ s.restarting = FALSE
  BY <1>5, <1>6 DEF PipesAt, KernelAt, Waiting, Restarting, Restarts
<1> DEFINE Asks(op) ==
        /\ s2.snap = s.snap /\ s2.files = s.files /\ s2.restarting = s.restarting
        /\ k2.names = k.names /\ k2.files = k.files /\ k2.signal = k.signal
        /\ k2.out = k.out
        /\ \/ s2.pc = op /\ k2.in = <<op>> /\ k2.alive
           \/ s2.pc = "idle" /\ s2.said = "refused" /\ k2.in = <<>>
<1> SUFFICES CellsAt(depth, f2, s2, k2)
  BY <1>2, <1>3, <1>4, TurnCells
<1>a. ASSUME NEW op \in Ops, Asks(op), StoreAt(depth, f2, s2), f2.pc \in Active,
             op \in Waits(f2.pc), "idle" \in Waits(f2.pc), op \in {"init", "execute", "export", "snapshot"},
             f2.pc = "cell" => op = "execute" , f2.pc \notin {"turn", "act", "child", "opening"},
             IntactAt(depth, f2, k)
      PROVE  Waiting(f2, s2) /\ PipesAt(f2, s2, k2) /\ KernelAt(depth, f2, s2, k2)
  <2> HIDE DEF f, s, k, f2, s2, k2
  <2>1. Waiting(f2, s2)
    BY <1>7, <1>a DEF Waiting, Restarting, Restarts
  <2>2. PipesAt(f2, s2, k2)
    BY <1>7, <1>a DEF PipesAt, Asked, GoesOn, Ops
  <2>3. KernelAt(depth, f2, s2, k2)
    BY <1>7, <1>a DEF KernelAt, IntactAt, Inside, GoesOn
  <2> QED
    BY <2>1, <2>2, <2>3
<1>b. CASE Opened /\ depth = 0
  <2>1. /\ f2.pc = "init" /\ f2.turn = f.turn /\ f2.cut = f.cut /\ f2.kept = f.kept
        /\ f2.snapped = f.snapped /\ f.pc = "opening" /\ Sends(depth, "init")
    BY <1>1, <1>b DEF Opened, Goto, IsLevel, InitializeWorkspace, Back, Runs, Level
  <2>2. Asks("init")
    BY <1>1, <1>5, <1>7, <2>1, SendsCells DEF Ops
  <2> HIDE DEF Asks
  <2>3. StoreAt(depth, f2, s2)
    BY <1>5, <2>1, <2>2 DEF StoreAt, Stored, Behind, Asks
  <2>4. IntactAt(depth, f2, k)
    BY <1>7, <2>1 DEF IntactAt
  <2>5. Waiting(f2, s2) /\ PipesAt(f2, s2, k2) /\ KernelAt(depth, f2, s2, k2)
    BY <1>a, <2>1, <2>2, <2>3, <2>4 DEF Active, Waits, Ops
  <2> QED
    BY <2>1, <2>3, <2>5 DEF CellsAt, CellAt
<1>c. CASE ActExecute /\ Level.executions < MaxExecutions
  <2>1. /\ f2.pc = "cell" /\ f2.turn = f.turn /\ f2.cut = f.cut /\ f2.kept = f.kept
        /\ f2.snapped = f.snapped /\ f.pc = "act" /\ Execute(depth, f.turn)
    BY <1>1, <1>c DEF ActExecute, IsLevel, Runs, Level
  <2>2. Asks("execute") /\ (s2.pc = "execute" => s2.cell = f.turn)
    BY <1>1, <1>5, <1>7, <2>1, ExecuteCells
  <2> HIDE DEF Asks
  <2>3. StoreAt(depth, f2, s2)
    BY <1>5, <2>1, <2>2 DEF StoreAt, Stored, Behind, Asks
  <2>4. IntactAt(depth, f2, k)
    BY <1>7, <2>1 DEF IntactAt
  <2>5. Waiting(f2, s2) /\ PipesAt(f2, s2, k2) /\ KernelAt(depth, f2, s2, k2)
    BY <1>a, <2>1, <2>2, <2>3, <2>4 DEF Active, Waits, Ops
  <2>6. CellAt(f2, s2, k2)
    BY <2>1, <2>2 DEF CellAt, GoesOn, Asks
  <2> QED
    BY <2>1, <2>3, <2>5, <2>6 DEF CellsAt
<1>d. CASE ActFinish /\ depth = 0
  <2>1. /\ f2.pc = "finish" /\ f2.turn = f.turn /\ f2.cut = f.cut /\ f2.kept = f.kept
        /\ f2.snapped = f.snapped /\ f.pc = "act" /\ Sends(depth, "export")
    BY <1>1, <1>d DEF ActFinish, Goto, IsLevel, ExportWorkspace, Runs, Level
  <2>2. Asks("export")
    BY <1>1, <1>5, <1>7, <2>1, SendsCells DEF Ops
  <2> HIDE DEF Asks
  <2>3. StoreAt(depth, f2, s2)
    BY <1>5, <1>d, <2>1, <2>2 DEF StoreAt, Stored, Behind, Asks
  <2>4. IntactAt(depth, f2, k)
    BY <1>7, <2>1 DEF IntactAt
  <2>5. Waiting(f2, s2) /\ PipesAt(f2, s2, k2) /\ KernelAt(depth, f2, s2, k2)
    BY <1>a, <2>1, <2>2, <2>3, <2>4 DEF Active, Waits, Ops
  <2> QED
    BY <2>1, <2>3, <2>5 DEF CellsAt, CellAt
<1>e. CASE CellSucceeded
  <2>1. /\ f2.pc = (IF depth = 0 THEN "export" ELSE "snapshot")
        /\ f2.turn = f.turn /\ f2.cut = f.cut /\ f2.kept = f.kept \cup {s.cell}
        /\ f2.snapped = f.snapped /\ f.pc = "cell" /\ s.said = "ok"
        /\ Sends(depth, f2.pc)
    BY <1>1, <1>e DEF CellSucceeded, IsLevel, ExportWorkspace, Snapshot, Back, Runs, Said, Level,
                      Session
  <2>2. Asks(f2.pc) /\ s2.cell = s.cell
    BY <1>1, <1>5, <1>7, <2>1, SendsCells DEF Ops
  <2>3. s.cell = f.turn /\ s.cell \in k.names /\ s.cell \in k.files
    BY <1>5, <1>6, <2>1 DEF CellAt
  <2> HIDE DEF Asks
  <2>4. StoreAt(depth, f2, s2)
    <3>1. s.cell \in 1 .. f.turn /\ Behind(f) \subseteq 1 .. f.turn /\ Behind(f2) = 1 .. f.turn
      BY <1>5, <2>1, <2>3 DEF StoreAt, Behind
    <3> QED
      BY <1>5, <2>1, <2>2, <3>1 DEF StoreAt, Stored, Asks
  <2>5. IntactAt(depth, f2, k)
    BY <1>7, <2>1, <2>3 DEF IntactAt
  <2>6. Waiting(f2, s2) /\ PipesAt(f2, s2, k2) /\ KernelAt(depth, f2, s2, k2)
    BY <1>a, <2>1, <2>2, <2>4, <2>5 DEF Active, Waits, Ops
  <2>7. CellAt(f2, s2, k2)
    BY <2>1, <2>2, <2>3 DEF CellAt, Asks
  <2> QED
    BY <2>1, <2>4, <2>6, <2>7 DEF CellsAt
<1>f. CASE Exported
  <2>1. /\ f2.pc = "snapshot" /\ f2.turn = f.turn /\ f2.cut = f.cut /\ f2.kept = f.kept
        /\ f2.snapped = f.snapped /\ f.pc = "export" /\ s.said = "ok" /\ Sends(depth, "snapshot")
    BY <1>1, <1>f DEF Exported, Goto, IsLevel, Snapshot, Back, Runs, Said, Level, Session
  <2>2. Asks("snapshot") /\ s2.cell = s.cell
    BY <1>1, <1>5, <1>7, <2>1, SendsCells DEF Ops
  <2>3. s.cell \in k.names
    BY <1>5, <1>6, <2>1 DEF CellAt
  <2> HIDE DEF Asks
  <2>4. StoreAt(depth, f2, s2)
    BY <1>5, <2>1, <2>2 DEF StoreAt, Stored, Behind, Asks
  <2>5. IntactAt(depth, f2, k)
    BY <1>7, <2>1 DEF IntactAt
  <2>6. Waiting(f2, s2) /\ PipesAt(f2, s2, k2) /\ KernelAt(depth, f2, s2, k2)
    BY <1>a, <2>1, <2>2, <2>4, <2>5 DEF Active, Waits, Ops
  <2>7. CellAt(f2, s2, k2)
    BY <2>1, <2>2, <2>3 DEF CellAt, Asks
  <2> QED
    BY <2>1, <2>4, <2>6, <2>7 DEF CellsAt
<1> QED
  BY <1>b, <1>c, <1>d, <1>e, <1>f

\* A level opens its session, or has none.
LEMMA OpenCells == IInv /\ CellsInv /\ OpenLevel => CellsInv'
<1> SUFFICES ASSUME IInv, CellsInv, OpenLevel PROVE CellsInv'
  OBVIOUS
<1> DEFINE f == levels[depth]
           s == sessions[depth]
           f2 == levels'[depth]
           s2 == sessions'[depth]
           k2 == kernels'[depth]
<1>1. depth \in Levels /\ DOMAIN levels = Levels /\ IsLevel(f) /\ IsSession(s)
      /\ DOMAIN sessions = Levels /\ DOMAIN kernels = Levels
      /\ CellsAt(depth, f, s, kernels[depth])
  BY DEF IInv, Shape, CellsInv
<1>2. /\ f.pc = "open" /\ levels' = [levels EXCEPT ![depth].pc = "opening"] /\ depth' = depth
      /\ workspace' = workspace
      /\ \/ /\ sessions' = [sessions EXCEPT ![depth] = [NoSession EXCEPT !.pc = "boot", !.wire = TRUE]]
            /\ kernels' = [kernels EXCEPT ![depth] = Booting]
         \/ /\ sessions' = [sessions EXCEPT ![depth].said = "refused"]
            /\ kernels' = kernels
  BY DEF OpenLevel, Open, Goto, Runs, Level, Counts
<1>3. Only(depth) /\ f2.pc = "opening" /\ f2.turn = f.turn /\ f2.cut = f.cut /\ f2.kept = f.kept
      /\ f2.snapped = f.snapped
  BY <1>1, <1>2 DEF Only, IsLevel
<1>4. StoreAt(depth, f, s) /\ s.pc = "off" /\ ~ s.restarting
  BY <1>1, <1>2 DEF CellsAt
<1> SUFFICES CellsAt(depth, f2, s2, k2)
  BY <1>2, <1>3, TurnCells
<1>5. /\ s2.snap = Nothing /\ s2.files = Nothing /\ s2.restarting = FALSE
      /\ \/ s2.pc = "boot" /\ k2 = Booting
         \/ s2.pc = "off"
  <2>1. CASE /\ sessions' = [sessions EXCEPT ![depth] = [NoSession EXCEPT !.pc = "boot", !.wire = TRUE]]
             /\ kernels' = [kernels EXCEPT ![depth] = Booting]
    <3>1. s2 = [NoSession EXCEPT !.pc = "boot", !.wire = TRUE] /\ k2 = Booting
      BY <1>1, <2>1
    <3> QED
      BY <3>1 DEF NoSession
  <2>2. CASE sessions' = [sessions EXCEPT ![depth].said = "refused"]
    <3>1. /\ s2.snap = s.snap /\ s2.files = s.files /\ s2.restarting = s.restarting
          /\ s2.pc = s.pc
      BY <1>1, <2>2 DEF IsSession
    <3>2. s.restarting = FALSE
      BY <1>4
    <3> QED
      BY <1>2, <1>4, <3>1, <3>2 DEF StoreAt
  <2> QED
    BY <1>2, <2>1, <2>2
<1>6. StoreAt(depth, f2, s2) /\ Waiting(f2, s2)
  BY <1>2, <1>3, <1>4, <1>5
     DEF StoreAt, Stored, Behind, Waiting, Restarting, Waits
<1>7. ASSUME s2.pc = "boot"
      PROVE  PipesAt(f2, s2, k2) /\ KernelAt(depth, f2, s2, k2) /\ CellAt(f2, s2, k2)
  <2>1. k2.in = <<"boot">> /\ k2.out = <<>> /\ k2.names = {} /\ k2.files = {} /\ k2.signal = FALSE
        /\ k2.alive = TRUE
    BY <1>5, <1>7 DEF Booting, NoKernel
  <2> HIDE DEF f, s, f2, s2, k2
  <2> QED
    BY <1>3, <1>5, <1>7, <2>1 DEF PipesAt, Asked, Tells, KernelAt, FreshAt, CellAt, GoesOn
<1> QED
  BY <1>3, <1>5, <1>6, <1>7 DEF CellsAt

\* The level that ran waits in its turn, and the one below has taken none.
LEMMA DelegateCells == IInv /\ CellsInv /\ ActDelegate => CellsInv'
<1> SUFFICES ASSUME IInv, CellsInv, ActDelegate PROVE CellsInv'
  OBVIOUS
<1> DEFINE child == depth + 1
           f == levels[depth]
           s == sessions[depth]
           k == kernels[depth]
           f2 == levels'[depth]
<1>1. /\ depth \in Levels /\ depth \in Nat /\ child \in Levels /\ depth' = child /\ child # depth
      /\ f.pc = "act" /\ \A e \in Levels : e \in Nat /\ (e < child => e < depth \/ e = depth)
      /\ DOMAIN levels = Levels /\ DOMAIN sessions = Levels /\ IsLevel(f) /\ CellsAt(depth, f, s, k)
      /\ workspace' = workspace
  BY LevelsAssumption DEF IInv, Shape, CellsInv, ActDelegate, MayDelegate, Runs, Level
<1>2. /\ levels' = [levels EXCEPT ![depth].pc = "child", ![child] = [NoLevel EXCEPT !.pc = "open"]]
      /\ sessions' = [sessions EXCEPT ![child] = NoSession]
      /\ kernels' = kernels
  BY <1>1 DEF ActDelegate
<1>3. /\ f2.pc = "child" /\ f2.turn = f.turn /\ f2.cut = f.cut /\ f2.kept = f.kept
      /\ f2.snapped = f.snapped /\ sessions'[depth] = s /\ kernels'[depth] = k
      /\ levels'[child] = [NoLevel EXCEPT !.pc = "open"] /\ sessions'[child] = NoSession
      /\ \A e \in Levels \ {depth, child} : levels'[e] = levels[e] /\ sessions'[e] = sessions[e]
  BY <1>1, <1>2 DEF IsLevel
<1>4. CellsAt(depth, f2, s, k)
  <2>1. StoreAt(depth, f, s) /\ Waiting(f, s) /\ s.pc = "idle" /\ f.turn \in Nat /\ GoesOn(f, s)
    BY <1>1, LimitsAssumption DEF CellsAt, Active, Waiting, Waits, StoreAt, GoesOn
  <2>2. PipesAt(f, s, k) /\ KernelAt(depth, f, s, k)
    BY <1>1, <2>1 DEF CellsAt, Active
  <2> HIDE DEF f, s, k, f2
  <2>3. StoreAt(depth, f2, s)
    BY <1>1, <1>3, <2>1 DEF StoreAt, Behind
  <2>4. Waiting(f2, s) /\ PipesAt(f2, s, k) /\ KernelAt(depth, f2, s, k) /\ CellAt(f2, s, k)
    BY <1>1, <1>3, <2>1, <2>2
       DEF Waiting, Restarting, Waits, PipesAt, KernelAt, IntactAt, GoesOn, CellAt, Ops
  <2> QED
    BY <1>3, <2>3, <2>4 DEF CellsAt
<1>5. ASSUME NEW f3, NEW s3, f3 = [NoLevel EXCEPT !.pc = "open"], s3 = NoSession, NEW k3
      PROVE  CellsAt(child, f3, s3, k3)
  <2>1. /\ f3.pc = "open" /\ f3.turn = 0 /\ f3.cut = {} /\ f3.kept = {} /\ f3.snapped = {}
        /\ s3.pc = "off" /\ s3.snap = Nothing /\ s3.files = Nothing /\ s3.restarting = FALSE
    BY <1>5 DEF NoLevel, NoSession
  <2>2. MaxTurns[child] \in Nat
    BY <1>1, LimitsAssumption
  <2>3. StoreAt(child, f3, s3)
    BY <2>1, <2>2 DEF StoreAt, Stored, Saved
  <2> QED
    BY <2>1, <2>3 DEF CellsAt, Active
<1>6. \A e \in Levels : CellsAt(e, levels'[e], sessions'[e], kernels'[e])
  <2>1. CellsAt(child, levels'[child], sessions'[child], kernels'[child])
    BY <1>3, <1>5
  <2>2. kernels' = kernels
    BY <1>2
  <2> QED
    BY <1>3, <1>4, <2>1, <2>2 DEF CellsInv
<1>7. Nested'
  BY <1>1, <1>3 DEF CellsInv, Nested
<1>8. workspace = Nothing
  BY <1>1, NotDelivered
<1> QED
  BY <1>1, <1>6, <1>7, <1>8 DEF CellsInv, Delivered

\* The level above goes on from where it waited, or ends.
LEMMA ChildEndedCells == IInv /\ CellsInv /\ ChildEnded => CellsInv'
<1> SUFFICES ASSUME IInv, CellsInv, ChildEnded PROVE CellsInv'
  OBVIOUS
<1> DEFINE parent == depth - 1
           f == levels[parent]
           s == sessions[parent]
           k == kernels[parent]
           f2 == levels'[parent]
<1>1. /\ depth \in Levels /\ parent \in Levels /\ depth' = parent /\ parent # depth
      /\ parent < depth /\ \A e \in Levels : e < parent => e < depth
      /\ 0 < depth /\ 0 \in Levels
      /\ DOMAIN levels = Levels /\ DOMAIN sessions = Levels /\ DOMAIN kernels = Levels
      /\ IsLevel(f) /\ CellsAt(parent, f, s, k) /\ workspace' = workspace
      /\ \A e \in Levels : IsLevel(levels[e])
  BY LevelsAssumption DEF IInv, Shape, CellsInv, ChildEnded, Counts
<1>2. f.pc = "child" /\ levels[0].pc = "child"
  BY <1>1 DEF CellsInv, Nested
<1> DEFINE Resumes(pc, n, how) ==
        levels' = [levels EXCEPT ![depth] = NoLevel, ![parent].pc = pc,
                                 ![parent].invalid = @ + n, ![parent].end = how]
           Framed(pc) ==
        /\ f2.pc = pc /\ f2.turn = f.turn /\ f2.cut = f.cut /\ f2.kept = f.kept
        /\ f2.snapped = f.snapped
        /\ levels'[depth].pc = "off"
        /\ \A e \in Levels \ {depth, parent} : levels'[e] = levels[e]
<1>3. ASSUME NEW pc, NEW n, NEW how, Resumes(pc, n, how)
      PROVE  Framed(pc)
  BY <1>1, <1>3 DEF IsLevel, NoLevel
<1> HIDE DEF Resumes, Framed
<1>4. \/ Framed("turn") /\ UNCHANGED <<sessions, kernels>>
      \/ Framed("closing") /\ Close(parent)
  <2>1. CASE Level.end = "return"
    <3>1. Resumes("turn", 0, f.end) /\ UNCHANGED <<sessions, kernels>>
      BY <2>1 DEF ChildEnded, Resumes
    <3> QED
      BY <3>1, <1>3
  <2>2. CASE Level.end = "failed" /\ f.invalid < MaxInvalid
    <3>1. Resumes("turn", 1, f.end) /\ UNCHANGED <<sessions, kernels>>
      BY <2>2 DEF ChildEnded, Resumes
    <3> QED
      BY <3>1, <1>3
  <2>3. CASE Level.end = "failed" /\ ~ (f.invalid < MaxInvalid)
    <3>1. Resumes("closing", 1, "failed") /\ Close(parent)
      BY <2>3 DEF ChildEnded, Resumes
    <3> QED
      BY <3>1, <1>3
  <2>4. CASE Level.end # "return" /\ Level.end # "failed"
    <3>1. Resumes("closing", 0, "broken") /\ Close(parent)
      BY <2>4 DEF ChildEnded, Resumes
    <3> QED
      BY <3>1, <1>3
  <2> QED
    BY <2>1, <2>2, <2>3, <2>4
<1>5. \A e \in Levels \ {parent} : sessions'[e] = sessions[e] /\ kernels'[e] = kernels[e]
  <2>1. GoodAt(parent)
    BY <1>1, GoodLevels
  <2> QED
    BY <1>1, <1>4, <2>1, CloseWired
<1>6. CellsAt(parent, f2, sessions'[parent], kernels'[parent])
  <2>1. CASE Framed("closing")
    BY <2>1 DEF CellsAt, Active, Framed
  <2>2. CASE Framed("turn") /\ UNCHANGED <<sessions, kernels>>
    <3>1. StoreAt(parent, f, s) /\ Waiting(f, s) /\ s.pc = "idle" /\ GoesOn(f, s)
      BY <1>1, <1>2 DEF CellsAt, Active, Waiting, Waits, StoreAt, GoesOn
    <3>2. PipesAt(f, s, k) /\ KernelAt(parent, f, s, k)
      BY <1>1, <1>2, <3>1 DEF CellsAt, Active
    <3>3. /\ f2.pc = "turn" /\ f2.turn = f.turn /\ f2.cut = f.cut /\ f2.kept = f.kept
          /\ f2.snapped = f.snapped /\ sessions'[parent] = s /\ kernels'[parent] = k
      BY <2>2 DEF Framed
    <3> HIDE DEF f, s, k, f2
    <3>4. StoreAt(parent, f2, s)
      BY <1>2, <3>1, <3>3 DEF StoreAt, Behind
    <3>5. Waiting(f2, s) /\ PipesAt(f2, s, k) /\ KernelAt(parent, f2, s, k) /\ CellAt(f2, s, k)
      BY <1>2, <3>1, <3>2, <3>3
         DEF Waiting, Restarting, Waits, PipesAt, KernelAt, IntactAt, GoesOn, CellAt, Ops
    <3> QED
      BY <3>3, <3>4, <3>5 DEF CellsAt
  <2> QED
    BY <1>4, <2>1, <2>2
<1>7. /\ levels'[depth].pc = "off"
      /\ \A e \in Levels \ {depth, parent} : levels'[e] = levels[e]
  BY <1>4 DEF Framed
<1>8. \A e \in Levels : CellsAt(e, levels'[e], sessions'[e], kernels'[e])
  <2>1. CellsAt(depth, levels'[depth], sessions'[depth], kernels'[depth])
    BY <1>7 DEF CellsAt, Active
  <2> QED
    BY <1>5, <1>6, <1>7, <2>1 DEF CellsInv
<1>9. Nested'
  <2>1. ~ (parent < parent) /\ ~ (depth < parent)
    BY <1>1, LevelsAssumption
  <2> QED
    BY <1>1, <1>7, <2>1 DEF CellsInv, Nested
<1>10. workspace = Nothing
  BY <1>2 DEF CellsInv, Delivered
<1> QED
  BY <1>1, <1>8, <1>9, <1>10 DEF CellsInv, Delivered

\* The files of the last export are delivered as they are.
LEMMA FinishedCells == IInv /\ CellsInv /\ Finished => CellsInv'
<1> SUFFICES ASSUME IInv, CellsInv, Finished PROVE CellsInv'
  OBVIOUS
<1> DEFINE f == levels[depth]
           s == sessions[depth]
<1>1. depth \in Levels /\ DOMAIN levels = Levels /\ IsLevel(f) /\ CellsAt(depth, f, s, kernels[depth])
      /\ DOMAIN sessions = Levels /\ DOMAIN kernels = Levels /\ GoodAt(depth)
  BY GoodLevels DEF IInv, Shape, CellsInv
<1>2. f.pc = "finish" /\ s.pc = "idle" /\ s.said = "ok" /\ depth' = depth
  BY DEF Finished, Back, Runs, Said, Level, Session
<1>3. CASE Invalid /\ UNCHANGED workspace
  BY <1>2, <1>3, InvalidCells DEF Session, Said
<1>4. CASE workspace' = s.files /\ LevelEnds("return")
  <2>1. StoreAt(depth, f, s) /\ depth = 0
    BY <1>1, <1>2 DEF CellsAt, Active, StoreAt
  <2>2. f.cut \cap Saved(s.files) = {} /\ f.kept \subseteq Saved(s.files)
    BY <1>2, <2>1 DEF StoreAt, Stored
  <2>3. /\ Only(depth) /\ levels'[depth].pc = "closing" /\ levels'[depth].cut = f.cut
        /\ levels'[depth].kept = f.kept
    BY <1>1, <1>4, CloseWired DEF LevelEnds, Only, IsLevel
  <2>4. Delivered'
    BY <1>4, <2>1, <2>2, <2>3 DEF Delivered, Saved
  <2>5. CellsAt(depth, levels'[depth], sessions'[depth], kernels'[depth])
    BY <2>3 DEF CellsAt, Active
  <2>6. ~ (depth < depth)
    BY <2>1
  <2> QED
    BY <1>1, <1>2, <2>3, <2>4, <2>5, <2>6, CellsStep
<1> QED
  BY <1>3, <1>4 DEF Finished, Session

LEMMA RunCells == IInv /\ CellsInv /\ RunStep => CellsInv'
<1> SUFFICES ASSUME IInv, CellsInv, RunStep PROVE CellsInv'
  OBVIOUS
<1> DEFINE f == levels[depth]
<1>1. depth \in Levels /\ DOMAIN levels = Levels /\ IsLevel(f)
      /\ DOMAIN sessions = Levels /\ DOMAIN kernels = Levels
  BY DEF IInv, Shape
<1>2. CASE OpenRefused
  <2>1. Only(depth) /\ depth' = depth /\ workspace' = workspace
        /\ levels'[depth].pc = "ended" /\ f.pc = "opening"
    BY <1>1, <1>2 DEF OpenRefused, Only, IsLevel, sessionVars, Counts, Runs, Level
  <2> QED
    BY <2>1, TurnCells DEF CellsAt, Active
<1>3. CASE SessionRaises \/ OutOfTurns \/ ModelFails
  <2>1. f.pc \notin {"closing", "ended"} /\ depth' = depth /\ workspace' = workspace
        /\ \E how : LevelEnds(how)
    BY <1>3 DEF SessionRaises, OutOfTurns, ModelFails, Turn, Runs, Back, Level, Counts
  <2> QED
    BY <2>1, EndCells
<1>4. CASE ActExecute
  <2>1. CASE Level.executions < MaxExecutions
    BY <1>4, <2>1, RequestCells
  <2>2. CASE ~ (Level.executions < MaxExecutions)
    BY <1>4, <2>2, InvalidCells DEF ActExecute, Runs, Level, Counts
  <2> QED
    BY <2>1, <2>2
<1>5. CASE ActInvalid
  BY <1>5, InvalidCells DEF ActInvalid, Runs, Level, Counts
<1>6. CASE ActFinish
  <2>1. CASE depth # 0
    BY <1>6, <2>1, EndCells DEF ActFinish, Runs, Level, Counts
  <2> QED
    BY <1>6, <2>1, RequestCells
<1>7. CASE Closed
  <2>1. /\ Only(depth) /\ depth' = depth /\ workspace' = workspace
        /\ levels'[depth].pc = "ended" /\ levels'[depth].cut = f.cut
        /\ levels'[depth].kept = f.kept /\ f.pc = "closing"
    BY <1>1, <1>7 DEF Closed, Only, IsLevel, sessionVars, Counts, Runs, Level
  <2>2. Delivered'
    <3>1. 0 \in Levels
      BY LevelsAssumption
    <3> QED
      BY <2>1, <3>1 DEF CellsInv, Delivered, Only
  <2>3. ~ (depth < depth)
    BY <1>1, LevelsAssumption
  <2> QED
    BY <1>1, <2>1, <2>2, <2>3, CellsStep DEF CellsAt, Active
<1>8. CASE Opened
  BY <1>8, PointCells, RequestCells
<1> QED
  BY <1>2, <1>3, <1>4, <1>5, <1>6, <1>7, <1>8, PointCells, RequestCells, OpenCells, DelegateCells,
     FinishedCells, ChildEndedCells DEF RunStep

LEMMA CellsInvariant == IInv /\ CellsInv /\ [Next]_vars => CellsInv'
<1> SUFFICES ASSUME IInv, CellsInv, [Next]_vars PROVE CellsInv'
  OBVIOUS
<1>1. CASE SessionStep(depth) /\ UNCHANGED runVars
  BY <1>1, SessionCells DEF IInv, Shape
<1>2. ASSUME NEW d \in Levels, KernelStep(d), UNCHANGED runVars PROVE CellsInv'
  BY <1>2, KernelCells
<1>3. CASE UNCHANGED vars
  BY <1>3 DEF vars, sessionVars, runVars, CellsInv, Nested, Delivered
<1> QED
  BY <1>1, <1>2, <1>3, RunCells DEF Next

LEMMA InitCells == Init => CellsInv
<1> SUFFICES ASSUME Init PROVE CellsInv
  OBVIOUS
<1>1. ASSUME NEW d \in Levels PROVE CellsAt(d, levels[d], sessions[d], kernels[d])
  <2> DEFINE f == levels[d]
             s == sessions[d]
  <2>1. /\ f.pc \in {"open", "off"} /\ f.turn = 0 /\ f.cut = {} /\ f.kept = {} /\ f.snapped = {}
        /\ s.pc = "off" /\ s.snap = Nothing /\ s.files = Nothing /\ s.restarting = FALSE
    BY DEF Init, InitSessions, NoLevel, NoSession
  <2>2. MaxTurns[d] \in Nat
    BY LimitsAssumption
  <2> HIDE DEF f, s
  <2>3. StoreAt(d, f, s)
    BY <2>1, <2>2 DEF StoreAt, Stored, Saved
  <2> QED
    BY <2>1, <2>3 DEF CellsAt, Active, f, s
<1>2. Nested
  BY LevelsAssumption DEF Init, Nested
<1> QED
  BY <1>1, <1>2 DEF Init, CellsInv, Delivered

-----------------------------------------------------------------------------
\* Through failed starts, restarts, deaths, hanging kernels and levels that end in
\* errors, a level that has ended, or does not run yet, has no kernel: close and
\* _stop_wire are reached on every way out of _run_level and of _start.
THEOREM NoKernelLeaks == Spec => []NoKernelOutlivesItsLevel
<1>1. Init => IInv
  BY InitInvariant
<1>2. IInv /\ [Next]_vars => IInv'
  BY StepInvariant
<1>3. IInv => NoKernelOutlivesItsLevel
  BY DEF IInv, Shape, Wired, Stacked, WiredAt, StackedAt, NoKernelOutlivesItsLevel, Alive, IsKernel
<1> QED
  BY <1>1, <1>2, <1>3, PTL DEF Spec

\* A cell counts wholly or not at all, as it was reported: what was cut at its
\* deadline is in no later kernel and no delivered file, also when the kernel
\* finished it while being interrupted, and what was reported ok outlives the
\* kernel that ran it.  KernelSession.execute, _restart and _start, and the turns
\* of _run_level between them.
THEOREM CellsCountAsReported == Spec => []CellsAreAllOrNothing
<1>1. ASSUME IInv, CellsInv PROVE CellsAreAllOrNothing
  <2>1. ASSUME NEW d \in Resting
        PROVE  d \in Levels /\ IntactAt(d, levels[d], kernels[d])
    <3>1. d \in Levels /\ levels[d].pc \in {"turn", "act", "child"}
      BY <2>1 DEF Resting
    <3>2. CellsAt(d, levels[d], sessions[d], kernels[d])
      BY <1>1, <3>1 DEF CellsInv
    <3>3. GoesOn(levels[d], sessions[d]) /\ sessions[d].pc # "off"
      BY <3>1, <3>2 DEF CellsAt, Active, Waiting, Waits, GoesOn
    <3> QED
      BY <3>1, <3>2, <3>3 DEF CellsAt, Active, KernelAt
  <2>2. CutCellsLeaveNoTrace
    BY <1>1, <2>1 DEF CellsInv, Delivered, CutCellsLeaveNoTrace, IntactAt, Inside
  <2>3. ReportedCellsSurvive
    BY <1>1, <2>1 DEF CellsInv, Delivered, ReportedCellsSurvive, IntactAt
  <2> QED
    BY <2>2, <2>3 DEF CellsAreAllOrNothing
<1>2. Spec => []IInv
  BY InitInvariant, StepInvariant, PTL DEF Spec
<1> QED
  BY <1>1, <1>2, InitCells, CellsInvariant, PTL DEF Spec
=============================================================================
