--------------------------- MODULE KernelSession ---------------------------
(***************************************************************************)
(* The supervised kernels of a harness run (apps/harness/kernel_contract   *)
(* and kernel_server): per delegation level one session, which owns one    *)
(* kernel process at a time, and the JSON-lines wire between the two.      *)
(*                                                                         *)
(* A session does one thing at a time for its caller; `pc` is the request  *)
(* it waits for, `said` what the last call returned: "ok", "error" (the    *)
(* cell failed), "cut" (it was stopped at its deadline), "refused" (the    *)
(* kernel contract was broken), "late" (a request missed its deadline).    *)
(*                                                                         *)
(* What cells do is abstracted to the traces they leave: a kernel has the  *)
(* set of cells whose names, and the set of cells whose files, it holds.   *)
(* The identifier of a request is its operation: only a shutdown can be    *)
(* sent while another request is unanswered.                               *)
(***************************************************************************)
EXTENDS Naturals, Sequences

CONSTANTS
    Levels,               \* delegation depths; level 0 has the coding workspace
    Cells,                \* names of cells within a level
    RestoreAfterRestart,  \* snapshot_policy.restore_after_restart
    Nothing               \* None

ASSUME LevelsAssumption ==
    /\ 0 \in Levels /\ Levels \subseteq Nat
    /\ \A d \in Levels \ {0} : d - 1 \in Levels
ASSUME RestoreAssumption == RestoreAfterRestart \in BOOLEAN
ASSUME NothingAssumption == \A S \in SUBSET Cells : Nothing # S

VARIABLES
    sessions,  \* KernelSession of each level
    kernels,   \* the process behind it, and the pipes
    started    \* history: kernels started so far in the run

sessionVars == <<sessions, kernels, started>>

Ops == {"boot", "restore", "init", "execute", "export", "snapshot", "shutdown"}

NoSession == [pc |-> "off", said |-> "ok", wire |-> FALSE, restarting |-> FALSE,
              cell |-> Nothing, snap |-> Nothing, files |-> Nothing, observed |-> 0]
NoKernel == [alive |-> FALSE, names |-> {}, files |-> {}, in |-> <<>>, out |-> <<>>,
             signal |-> FALSE]
Booting == [NoKernel EXCEPT !.alive = TRUE, !.in = <<"boot">>]

InitSessions ==
    /\ sessions = [d \in Levels |-> NoSession]
    /\ kernels = [d \in Levels |-> NoKernel]
    /\ started = 0

At(d, pc) == sessions[d].pc = pc
Alive(d) == kernels[d].alive
Killed == NoKernel

\* What the waiting side of the wire can see: a line, the end of the stream, or
\* neither until its deadline.
HasLine(d) == kernels[d].out # <<>>
Line(d) == Head(kernels[d].out)
Ended(d) == ~HasLine(d) /\ ~Alive(d)
Silent(d) == ~HasLine(d) /\ Alive(d)

\* The line is the answer to what the session waits for, and a good one.
Answered(d) == HasLine(d) /\ Line(d).op = sessions[d].pc /\ Line(d).good
Refused(d) == Ended(d) \/ (HasLine(d) /\ ~Answered(d))
Failure(d) == IF Silent(d) THEN "late" ELSE "refused"
Failed(d) == Refused(d) \/ Silent(d)

Returns(d, said) == sessions' = [sessions EXCEPT ![d].pc = "idle", ![d].said = said]
TakeLine(d) == kernels' = [kernels EXCEPT ![d].out = Tail(@)]

\* _request writes to the wire; a kernel that has exited refuses at once.
Sends(d, op) ==
    IF Alive(d)
    THEN /\ sessions' = [sessions EXCEPT ![d].pc = op]
         /\ kernels' = [kernels EXCEPT ![d].in = Append(@, op)]
    ELSE Returns(d, "refused") /\ UNCHANGED kernels

-----------------------------------------------------------------------------
(* Starting a kernel: the constructor and _restart.                        *)

\* __init__ and _start; Popen may fail, and then there is no session.
Open(d) ==
    /\ At(d, "off")
    /\ \/ /\ sessions' = [sessions EXCEPT ![d] = [NoSession EXCEPT !.pc = "boot", !.wire = TRUE]]
          /\ kernels' = [kernels EXCEPT ![d] = Booting]
          /\ started' = started + 1
       \/ /\ sessions' = [sessions EXCEPT ![d].said = "refused"]
          /\ UNCHANGED <<kernels, started>>

\* _restart: the old kernel is killed and observed before the next one starts.
Restarted(d) ==
    \/ /\ sessions' = [sessions EXCEPT ![d].pc = "boot", ![d].restarting = TRUE,
                                       ![d].observed = @ + 1]
       /\ kernels' = [kernels EXCEPT ![d] = Booting]
       /\ started' = started + 1
    \/ /\ sessions' = [sessions EXCEPT ![d].pc = "idle", ![d].said = "refused",
                                       ![d].observed = @ + 1, ![d].wire = FALSE]
       /\ kernels' = [kernels EXCEPT ![d] = Killed]
       /\ UNCHANGED started

\* What _start asks of the kernel after the step it has done.
StartGoesOn(d, done) ==
    LET s == sessions[d]
        restores == done = "boot" /\ s.snap # Nothing /\ RestoreAfterRestart
        next == IF restores THEN "restore" ELSE IF s.files # Nothing THEN "init" ELSE "idle"
    IN  IF next = "idle" \/ done = "init"
        THEN /\ sessions' = [sessions EXCEPT ![d].pc = "idle", ![d].restarting = FALSE,
                               ![d].said = IF s.restarting THEN "cut" ELSE "ok"]
             /\ TakeLine(d)
        ELSE /\ sessions' = [sessions EXCEPT ![d].pc = next]
             /\ kernels' = [kernels EXCEPT ![d].out = Tail(@), ![d].in = Append(@, next)]

Starting(d) == At(d, "boot") \/ At(d, "restore") \/ (At(d, "init") /\ sessions[d].restarting)

StartStep(d) ==
    /\ Starting(d) /\ Answered(d)
    /\ StartGoesOn(d, sessions[d].pc)
    /\ UNCHANGED started

\* Mutant: a kernel that does not boot is left to itself.
StartFailsLeaking(d) ==
    /\ Starting(d) /\ Failed(d)
    /\ sessions' = [sessions EXCEPT ![d].wire = FALSE, ![d].observed = @ + 1,
                      ![d].restarting = FALSE, ![d].said = Failure(d),
                      ![d].pc = IF sessions[d].restarting THEN "idle" ELSE "off"]
    /\ UNCHANGED <<kernels, started>>

\* Whatever goes wrong in _start stops the wire; in the constructor there is no
\* session to close then.
StartFails(d) ==
    /\ Starting(d) /\ Failed(d)
    /\ sessions' = [sessions EXCEPT ![d].wire = FALSE, ![d].observed = @ + 1,
                      ![d].restarting = FALSE, ![d].said = Failure(d),
                      ![d].pc = IF sessions[d].restarting THEN "idle" ELSE "off"]
    /\ kernels' = [kernels EXCEPT ![d] = Killed]
    /\ UNCHANGED started

-----------------------------------------------------------------------------
(* initialize_workspace, execute, export_workspace, snapshot.              *)

InitializeWorkspace(d) == Sends(d, "init")

InitAnswered(d) ==
    /\ At(d, "init") /\ ~sessions[d].restarting /\ Answered(d)
    /\ sessions' = [sessions EXCEPT ![d].pc = "idle", ![d].said = "ok", ![d].files = {}]
    /\ TakeLine(d)
    /\ UNCHANGED started

Execute(d, c) ==
    IF Alive(d)
    THEN /\ sessions' = [sessions EXCEPT ![d].pc = "execute", ![d].cell = c]
         /\ kernels' = [kernels EXCEPT ![d].in = Append(@, "execute")]
    ELSE Returns(d, "refused") /\ UNCHANGED kernels

\* An error answer is a result too: the cell raised, or interrupted itself.  A line
\* that is malformed is refused, and the kernel stays.
ExecuteAnswered(d) ==
    /\ At(d, "execute") /\ HasLine(d)
    /\ \E said \in {IF Line(d).good THEN "ok" ELSE "error", "refused"} : Returns(d, said)
    /\ TakeLine(d)
    /\ UNCHANGED started

\* The interrupt may fail as well: docker refuses the signal.
ExecuteDeadline(d) ==
    /\ At(d, "execute") /\ Silent(d)
    /\ \/ /\ sessions' = [sessions EXCEPT ![d].pc = "grace"]
          /\ kernels' = [kernels EXCEPT ![d].signal = TRUE]
       \/ Returns(d, "refused") /\ UNCHANGED kernels
    /\ UNCHANGED started

ExecuteRefused(d) ==
    /\ At(d, "execute") /\ Ended(d)
    /\ Returns(d, "refused")
    /\ UNCHANGED <<kernels, started>>

\* Mutant: a kernel that answers the interrupt is kept.
GraceAnsweredInPlace(d) ==
    /\ At(d, "grace")
    /\ IF HasLine(d) THEN Returns(d, "cut") /\ TakeLine(d) /\ UNCHANGED started
                     ELSE Restarted(d)

\* Mutant: the grace period has no end.
GraceUnbounded(d) ==
    /\ At(d, "grace") /\ ~Silent(d)
    /\ Restarted(d)

\* With or without an answer to the interrupt, the kernel is replaced; a malformed
\* answer is refused before that.
Grace(d) ==
    /\ At(d, "grace")
    /\ \/ Restarted(d)
       \/ HasLine(d) /\ Returns(d, "refused") /\ TakeLine(d) /\ UNCHANGED started

ExportWorkspace(d) == Sends(d, "export")

\* Mutant: the supervisor does not keep the exported files.
ExportAnsweredForgotten(d) ==
    /\ At(d, "export") /\ Answered(d)
    /\ Returns(d, "ok")
    /\ TakeLine(d)
    /\ UNCHANGED started

ExportAnswered(d) ==
    /\ At(d, "export") /\ Answered(d)
    /\ sessions' = [sessions EXCEPT ![d].pc = "idle", ![d].said = "ok",
                                    ![d].files = Line(d).value]
    /\ TakeLine(d)
    /\ UNCHANGED started

Snapshot(d) == Sends(d, "snapshot")

SnapshotAnswered(d) ==
    /\ At(d, "snapshot") /\ Answered(d)
    /\ sessions' = [sessions EXCEPT ![d].pc = "idle", ![d].said = "ok",
                                    ![d].snap = Line(d).value]
    /\ TakeLine(d)
    /\ UNCHANGED started

\* A request that is refused or misses its deadline raises; the kernel stays, and
\* may still answer a request nobody waits for.
RequestFails(d) ==
    /\ At(d, "export") \/ At(d, "snapshot") \/ (At(d, "init") /\ ~sessions[d].restarting)
    /\ Failed(d)
    /\ Returns(d, Failure(d))
    /\ kernels' = [kernels EXCEPT ![d].out = IF HasLine(d) THEN Tail(@) ELSE @]
    /\ UNCHANGED started

-----------------------------------------------------------------------------
(* close.                                                                  *)

Closes(d, said, n) ==
    sessions' = [sessions EXCEPT ![d].pc = "closed", ![d].said = said, ![d].wire = FALSE,
                                 ![d].observed = @ + n]

Close(d) ==
    IF ~sessions[d].wire THEN Closes(d, "ok", 0) /\ UNCHANGED kernels
    ELSE IF Alive(d)
    THEN /\ sessions' = [sessions EXCEPT ![d].pc = "shutdown"]
         /\ kernels' = [kernels EXCEPT ![d].in = Append(@, "shutdown")]
    ELSE Closes(d, "refused", 1) /\ kernels' = [kernels EXCEPT ![d] = Killed]

\* An answer to the shutdown itself, an answer to an abandoned request, silence or
\* the end of the stream: the kernel is gone afterwards and observed once.  A required
\* observation may be missing.
CloseStep(d) ==
    /\ At(d, "shutdown") /\ (HasLine(d) \/ Failed(d))
    /\ \E said \in IF Answered(d) THEN {"ok", "refused"} ELSE {"refused"} : Closes(d, said, 1)
    /\ kernels' = [kernels EXCEPT ![d] = Killed]
    /\ UNCHANGED started

SessionStep(d) ==
    \/ StartStep(d) \/ StartFails(d)
    \/ InitAnswered(d)
    \/ ExecuteAnswered(d) \/ ExecuteDeadline(d) \/ ExecuteRefused(d) \/ Grace(d)
    \/ ExportAnswered(d) \/ SnapshotAnswered(d) \/ RequestFails(d)
    \/ CloseStep(d)

-----------------------------------------------------------------------------
(* The kernel: kernel_server's loop.                                       *)

Answer(op, good, value) == [op |-> op, good |-> good, value |-> value]

\* The kernel after it has served its first request with the given state.
Served(d, names, files, answer) ==
    [kernels EXCEPT ![d].names = names, ![d].files = files, ![d].in = Tail(@),
                    ![d].out = Append(@, answer)]

\* A cell that fails may have left names or files behind; a request that fails
\* (output of the bootstrap, an export with a path outside the policy, a value
\* that is not JSON) changes nothing.
Serve(d) ==
    LET k == kernels[d]
        s == sessions[d]
        c == s.cell
        op == Head(k.in)
    IN  /\ k.alive /\ k.in # <<>> /\ op # "shutdown"
        /\ \/ /\ op = "boot"
              /\ kernels' = Served(d, {}, {}, Answer(op, TRUE, Nothing))
           \/ /\ op = "restore"
              /\ kernels' = Served(d, k.names \cup s.snap, k.files, Answer(op, TRUE, Nothing))
           \/ /\ op = "init"
              /\ kernels' = Served(d, k.names, IF s.files = Nothing THEN {} ELSE s.files,
                                   Answer(op, TRUE, Nothing))
           \/ /\ op = "execute"
              /\ kernels' = Served(d, k.names \cup {c}, k.files \cup {c}, Answer(op, TRUE, Nothing))
           \/ /\ op = "execute"
              /\ \E N, F \in SUBSET {c} :
                    kernels' = Served(d, k.names \cup N, k.files \cup F, Answer(op, FALSE, Nothing))
           \/ /\ op = "export"
              /\ kernels' = Served(d, k.names, k.files, Answer(op, TRUE, k.files))
           \/ /\ op = "snapshot"
              /\ kernels' = Served(d, k.names, k.files, Answer(op, TRUE, k.names))
           \/ /\ op \in {"boot", "init", "export", "snapshot"}
              /\ kernels' = Served(d, k.names, k.files, Answer(op, FALSE, Nothing))
    /\ UNCHANGED <<sessions, started>>

\* SIGINT ends the cell that runs, or the loop when none does.
Interrupted(d) ==
    LET k == kernels[d]
        c == sessions[d].cell
    IN  /\ k.alive /\ k.signal
        /\ \/ /\ k.in # <<>>
              /\ \E N, F \in SUBSET {c} :
                    kernels' = [Served(d, k.names \cup N, k.files \cup F,
                                       Answer("execute", FALSE, Nothing)) EXCEPT ![d].signal = FALSE]
           \/ /\ k.in = <<>>
              /\ kernels' = [kernels EXCEPT ![d].alive = FALSE]
        /\ UNCHANGED <<sessions, started>>

\* The answer to a shutdown is written and the process exits with status 0.
Shutdown(d) ==
    LET k == kernels[d]
    IN  /\ k.alive /\ k.in # <<>> /\ Head(k.in) = "shutdown"
        /\ kernels' = [kernels EXCEPT ![d].alive = FALSE, ![d].in = <<>>,
                         ![d].out = Append(@, Answer("shutdown", TRUE, Nothing))]
        /\ UNCHANGED <<sessions, started>>

\* Memory limit, candidate code that exits, a wire that breaks.
KernelDies(d) ==
    /\ Alive(d)
    /\ kernels' = [kernels EXCEPT ![d].alive = FALSE, ![d].in = <<>>]
    /\ UNCHANGED <<sessions, started>>

KernelStep(d) == Serve(d) \/ Interrupted(d) \/ Shutdown(d) \/ KernelDies(d)
=============================================================================
