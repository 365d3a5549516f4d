--------------------------- MODULE HarnessRuntime ---------------------------
(***************************************************************************)
(* One run of the recursive harness loop (apps/harness/runtime): model     *)
(* turns, cells, delegation to a level below with a kernel of its own, and *)
(* the ways a level ends: it returns a result ("return"), it raises        *)
(* HarnessRuntimeError ("failed"), which is an invalid action of its       *)
(* parent, or anything else ("broken"), which ends the run.                *)
(***************************************************************************)
EXTENDS KernelSession

CONSTANTS
    MaxTurns,         \* per level: entrypoint and subagent max_turns
    MaxExecutions,    \* tool_policy.max_executions, per level
    MaxInvalid,       \* entrypoint.max_invalid_actions, per level
    MaxDelegates,     \* subagent_policy.max_calls, of the whole run
    MaxModelCalls     \* assay.max_model_calls, of the whole run

ASSUME LimitsAssumption ==
    /\ MaxTurns \in [Levels -> Nat \ {0}]
    /\ Cells = 1..MaxTurns[0]
    /\ \A d \in Levels : MaxTurns[d] <= MaxTurns[0]
    /\ MaxExecutions \in Nat /\ MaxInvalid \in Nat /\ MaxDelegates \in Nat
    /\ MaxModelCalls \in Nat \ {0}

VARIABLES
    depth,          \* of the level that runs
    levels,         \* the frame of each level
    modelCalls,     \* self.model_calls
    delegateCalls,  \* self.delegate_calls
    accounted,      \* kernel observations collected in self._observations
    workspace,      \* self._completed_workspace, as the cells in it
    effects         \* history: model processes started

runVars == <<depth, levels, modelCalls, delegateCalls, accounted, workspace, effects>>
vars == <<sessionVars, runVars>>

Ends == {"return", "failed", "broken"}

\* A frame: what the level waits for, its counters, how it ends, and, as history,
\* which of its cells were reported ok, cut, or ok with a snapshot.
NoLevel == [pc |-> "off", turn |-> 0, executions |-> 0, invalid |-> 0, end |-> "return",
            kept |-> {}, cut |-> {}, snapped |-> {}]

Init ==
    /\ InitSessions
    /\ depth = 0
    /\ levels = [d \in Levels |-> IF d = 0 THEN [NoLevel EXCEPT !.pc = "open"] ELSE NoLevel]
    /\ modelCalls = 0 /\ delegateCalls = 0 /\ accounted = 0
    /\ workspace = Nothing
    /\ effects = 0

Level == levels[depth]
Session == sessions[depth]
Runs(pc) == Level.pc = pc
Goto(pc) == levels' = [levels EXCEPT ![depth].pc = pc]
\* The session has come back to its caller.
Back(pc) == Runs(pc) /\ Session.pc = "idle"
Said(s) == Session.said = s
Counts == <<modelCalls, delegateCalls, accounted, workspace, effects>>

\* Leaving the try block: the session is closed whatever happened.
LevelEnds(how) ==
    /\ levels' = [levels EXCEPT ![depth].pc = "closing", ![depth].end = how]
    /\ Close(depth)

\* An action the loop refuses; one too many ends the level.
Invalid ==
    IF Level.invalid < MaxInvalid
    THEN levels' = [levels EXCEPT ![depth].pc = "turn", ![depth].invalid = @ + 1]
         /\ UNCHANGED <<sessions, kernels>>
    ELSE LevelEnds("failed")

-----------------------------------------------------------------------------
(* Opening a level.                                                        *)

OpenLevel ==
    /\ Runs("open")
    /\ Open(depth)
    /\ Goto("opening")
    /\ UNCHANGED <<depth, Counts>>

Opened ==
    /\ Back("opening")
    /\ IF depth = 0 THEN Goto("init") /\ InitializeWorkspace(depth)
                    ELSE Goto("turn") /\ UNCHANGED <<sessions, kernels>>
    /\ UNCHANGED <<started, depth, Counts>>

\* Without a session there is nothing to close.
OpenRefused ==
    /\ Runs("opening") /\ At(depth, "off")
    /\ levels' = [levels EXCEPT ![depth].pc = "ended", ![depth].end = "broken"]
    /\ UNCHANGED <<sessionVars, depth, Counts>>

WorkspaceInitialized ==
    /\ Back("init") /\ Said("ok")
    /\ Goto("turn")
    /\ UNCHANGED <<sessionVars, depth, Counts>>

\* A call of the session that raises ends the level, but for a refused snapshot.
SessionRaises ==
    /\ \E pc \in {"init", "cell", "export", "snapshot", "finish"} : Back(pc)
    /\ Said("late") \/ (Said("refused") /\ ~Runs("snapshot"))
    /\ LevelEnds("broken")
    /\ UNCHANGED <<started, depth, Counts>>

-----------------------------------------------------------------------------
(* A turn.                                                                 *)

\* Mutant: one turn too many.
TurnsLeftLate == Level.turn <= MaxTurns[depth]
TurnsLeft == Level.turn < MaxTurns[depth]
CallsLeft == modelCalls < MaxModelCalls
Turn == Runs("turn") /\ TurnsLeft /\ CallsLeft

OutOfTurns ==
    /\ Runs("turn") /\ ~(TurnsLeft /\ CallsLeft)
    /\ LevelEnds("failed")
    /\ UNCHANGED <<started, depth, Counts>>

\* The transport fails, or its answer is malformed or exceeds the output limit: the
\* call is not counted, and the level ends.
ModelFails ==
    /\ Turn
    /\ effects' = effects + 1
    /\ LevelEnds("failed")
    /\ UNCHANGED <<started, depth, modelCalls, delegateCalls, accounted, workspace>>

ModelReplies ==
    /\ Turn
    /\ effects' = effects + 1
    /\ modelCalls' = modelCalls + 1
    /\ levels' = [levels EXCEPT ![depth].pc = "act", ![depth].turn = @ + 1]
    /\ UNCHANGED <<sessionVars, depth, delegateCalls, accounted, workspace>>

ActExecute ==
    /\ Runs("act")
    /\ IF Level.executions < MaxExecutions
       THEN /\ levels' = [levels EXCEPT ![depth].pc = "cell", ![depth].executions = @ + 1]
            /\ Execute(depth, Level.turn)
       ELSE Invalid
    /\ UNCHANGED <<started, depth, Counts>>

MayDelegate == depth + 1 \in Levels /\ delegateCalls < MaxDelegates

ActDelegate ==
    /\ Runs("act") /\ MayDelegate
    /\ depth' = depth + 1
    /\ levels' = [levels EXCEPT ![depth].pc = "child", ![depth'] = [NoLevel EXCEPT !.pc = "open"]]
    /\ sessions' = [sessions EXCEPT ![depth'] = NoSession]
    /\ delegateCalls' = delegateCalls + 1
    /\ UNCHANGED <<kernels, started, modelCalls, accounted, workspace, effects>>

\* A malformed action, a delegation beyond its bounds, a finish that is not valid.
ActInvalid ==
    /\ Runs("act")
    /\ Invalid
    /\ UNCHANGED <<started, depth, Counts>>

ActFinish ==
    /\ Runs("act")
    /\ IF depth = 0 THEN Goto("finish") /\ ExportWorkspace(depth)
                    ELSE LevelEnds("return")
    /\ UNCHANGED <<started, depth, Counts>>

\* The final export becomes the completed workspace, unless the runtime's own
\* comparison finds a change outside the policy that the kernel let pass.
Finished ==
    /\ Back("finish") /\ Said("ok")
    /\ \/ workspace' = Session.files /\ LevelEnds("return")
       \/ Invalid /\ UNCHANGED workspace
    /\ UNCHANGED <<started, depth, modelCalls, delegateCalls, accounted, effects>>

-----------------------------------------------------------------------------
(* After a cell.                                                           *)

CellSucceeded ==
    /\ Back("cell") /\ Said("ok")
    /\ levels' = [levels EXCEPT ![depth].pc = IF depth = 0 THEN "export" ELSE "snapshot",
                                ![depth].kept = @ \cup {Session.cell}]
    /\ IF depth = 0 THEN ExportWorkspace(depth) ELSE Snapshot(depth)
    /\ UNCHANGED <<started, depth, Counts>>

CellFailed ==
    /\ Back("cell") /\ Said("error")
    /\ Goto("turn")
    /\ UNCHANGED <<sessionVars, depth, Counts>>

CellCut ==
    /\ Back("cell") /\ Said("cut")
    /\ levels' = [levels EXCEPT ![depth].pc = "turn", ![depth].cut = @ \cup {Session.cell}]
    /\ UNCHANGED <<sessionVars, depth, Counts>>

Exported ==
    /\ Back("export") /\ Said("ok")
    /\ Goto("snapshot") /\ Snapshot(depth)
    /\ UNCHANGED <<started, depth, Counts>>

\* A refused snapshot is noted in the event; the loop goes on.
Snapped ==
    /\ Back("snapshot") /\ (Said("ok") \/ Said("refused"))
    /\ levels' = [levels EXCEPT ![depth].pc = "turn",
                    ![depth].snapped = IF Said("ok") THEN @ \cup {Session.cell} ELSE @]
    /\ UNCHANGED <<sessionVars, depth, Counts>>

-----------------------------------------------------------------------------
(* The end of a level.                                                     *)

\* Mutant: only the observations of a level that returned are collected.
ClosedUnaccounted ==
    /\ Runs("closing") /\ At(depth, "closed")
    /\ levels' = [levels EXCEPT ![depth].pc = "ended",
                                ![depth].end = IF Said("ok") THEN @ ELSE "broken"]
    /\ accounted' = IF Said("ok") /\ Level.end = "return" THEN accounted + Session.observed
                                                          ELSE accounted
    /\ UNCHANGED <<sessionVars, depth, modelCalls, delegateCalls, workspace, effects>>

\* close returns the observations, or raises in place of whatever ended the level.
Closed ==
    /\ Runs("closing") /\ At(depth, "closed")
    /\ levels' = [levels EXCEPT ![depth].pc = "ended",
                                ![depth].end = IF Said("ok") THEN @ ELSE "broken"]
    /\ accounted' = IF Said("ok") THEN accounted + Session.observed ELSE accounted
    /\ UNCHANGED <<sessionVars, depth, modelCalls, delegateCalls, workspace, effects>>

\* The parent gets the result, or the exception.
ChildEnded ==
    LET parent == depth - 1
        p == levels[parent]
        Resume(pc, n, how) ==
            levels' = [levels EXCEPT ![depth] = NoLevel, ![parent].pc = pc,
                                     ![parent].invalid = @ + n, ![parent].end = how]
    IN  /\ depth > 0 /\ Runs("ended")
        /\ depth' = parent
        /\ \/ /\ Level.end = "return"
              /\ Resume("turn", 0, p.end) /\ UNCHANGED <<sessions, kernels>>
           \/ /\ Level.end = "failed" /\ p.invalid < MaxInvalid
              /\ Resume("turn", 1, p.end) /\ UNCHANGED <<sessions, kernels>>
           \/ /\ Level.end = "failed" /\ ~ (p.invalid < MaxInvalid)
              /\ Resume("closing", 1, "failed") /\ Close(parent)
           \/ /\ Level.end \notin {"return", "failed"}
              /\ Resume("closing", 0, "broken") /\ Close(parent)
        /\ UNCHANGED <<started, Counts>>

RunStep ==
    \/ OpenLevel \/ Opened \/ OpenRefused \/ WorkspaceInitialized \/ SessionRaises
    \/ OutOfTurns \/ ModelFails \/ ModelReplies
    \/ ActExecute \/ ActDelegate \/ ActInvalid \/ ActFinish \/ Finished
    \/ CellSucceeded \/ CellFailed \/ CellCut \/ Exported \/ Snapped
    \/ Closed \/ ChildEnded

Next ==
    \/ RunStep
    \/ SessionStep(depth) /\ UNCHANGED runVars
    \/ \E d \in Levels : KernelStep(d) /\ UNCHANGED runVars

\* Every wait of the runtime has a deadline; kernels may hang for ever.
Fairness == WF_vars(RunStep) /\ WF_vars(SessionStep(depth) /\ UNCHANGED runVars)
Spec == Init /\ [][Next]_vars
FairSpec == Spec /\ Fairness

-----------------------------------------------------------------------------
(* Properties.                                                             *)

Over == depth = 0 /\ Runs("ended")
Completed == Over /\ Level.end = "return"
\* The levels on the stack that wait for nothing from their kernel.
Resting == {d \in Levels : levels[d].pc \in {"turn", "act", "child"}}

SetOfCells == {Nothing} \cup SUBSET Cells
TypeOK ==
    /\ \A d \in Levels :
        /\ sessions[d].pc \in Ops \cup {"off", "idle", "grace", "closed"}
        /\ sessions[d].snap \in SetOfCells /\ sessions[d].files \in SetOfCells
        /\ kernels[d].names \subseteq Cells /\ kernels[d].files \subseteq Cells
        /\ levels[d].turn \in 0..MaxTurns[d] /\ levels[d].invalid \in 0..(MaxInvalid + 1)
        /\ levels[d].end \in Ends
    /\ depth \in Levels
    /\ modelCalls \in 0..MaxModelCalls /\ delegateCalls \in 0..MaxDelegates
    /\ workspace \in SetOfCells

\* A cell that was reported as stopped at its deadline leaves no trace: neither in
\* the kernel the next turns work with, nor in the files the run delivers, also
\* when the kernel finished the cell while it was being interrupted.
CutCellsLeaveNoTrace ==
    /\ \A d \in Resting :
        levels[d].cut \cap (kernels[d].names \cup kernels[d].files) = {}
    /\ workspace # Nothing => levels[0].cut \cap workspace = {}

\* What a cell that was reported ok wrote is not lost when a later cell costs the
\* kernel its life: its files are there at every later turn and in the files the run
\* delivers, and its names as well if their snapshot was accepted.
ReportedCellsSurvive ==
    /\ \A d \in Resting : Alive(d) =>
        /\ d = 0 => levels[d].kept \subseteq kernels[d].files
        /\ RestoreAfterRestart => levels[d].snapped \subseteq kernels[d].names
    /\ workspace # Nothing => levels[0].kept \subseteq workspace

\* A cell counts wholly or not at all, as it was reported.
CellsAreAllOrNothing == CutCellsLeaveNoTrace /\ ReportedCellsSurvive

\* No kernel is left behind: a level that is not on the stack, or has ended, has
\* none, through failed starts, restarts, deaths and levels that end in errors.
NoKernelOutlivesItsLevel ==
    \A d \in Levels : levels[d].pc \in {"off", "open", "ended"} => ~Alive(d)

\* The cost of a completed run covers every kernel that was started for it, those
\* of failed delegations and those that were replaced included.
KernelsAreAccounted == Completed => accounted = started

\* A run ends, whatever the kernels do.
RunsEnd == <>Over

\* source-architecture.md:199-201: the model-call bound is validated before or
\* enforced during effects.
ModelEffectsBounded == effects <= MaxModelCalls
=============================================================================
