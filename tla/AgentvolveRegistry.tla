------------------------ MODULE AgentvolveRegistry ------------------------
(***************************************************************************)
(* The private run registry: the workflow directories the start commands   *)
(* make in it, one per attempt at most, and what resume, retry, verify,    *)
(* stop and close may do to each.  What happens inside one workflow's      *)
(* worker is AgentvolveWorker; here a worker is the phase it has reached.  *)
(***************************************************************************)
EXTENDS Naturals, FiniteSets

CONSTANT Attempts    \* the submissions that may dispatch a start command

VARIABLES
    phase,      \* of the workflow directory an attempt's start command makes
    closed,     \* the workflows with a closed.json
    starter     \* the start command of each attempt

registryVars == <<phase, closed, starter>>

\* "made": the directory exists and workflow.json does not.  "written": the request is
\* there, no worker yet.  "launched": a worker holds the lock and has not read its job.
\* "waiting": no worker, and the pending call needs an authorized retry.
Phases == {"absent", "made", "written", "launched", "running",
           "waiting", "stopped", "complete", "verifying"}
StarterPcs == {"none", "begun", "checked", "locked", "made", "written", "answered", "refused", "dead"}

InitRegistry == /\ phase = [a \in Attempts |-> "absent"]
                /\ closed = {}
                /\ starter = [a \in Attempts |-> "none"]

PhaseBecomes(a, p) == phase' = [phase EXCEPT ![a] = p]
StarterGoto(a, pc) == starter' = [starter EXCEPT ![a] = pc]

-----------------------------------------------------------------------------
(* What a command reads.                                                   *)

Active(a) == phase[a] \in {"launched", "running", "verifying"}
Finished(a) == phase[a] \in {"complete", "verifying"}

\* workflow_control_state, which raises on a directory without a request.
Readable(a) == phase[a] # "made"
Control(a) == [active |-> Active(a), complete |-> Finished(a),
               closed |-> a \in closed, retry |-> phase[a] = "waiting"]

\* registry_status: one unreadable workflow makes the whole registry unreadable.
Workflows == {a \in Attempts : phase[a] # "absent"}
RegistryReadable == \A a \in Workflows : Readable(a)
Blocks(a) == Active(a) \/ ~(Finished(a) \/ a \in closed)
Blockers == {a \in Workflows : Blocks(a)}

-----------------------------------------------------------------------------
(* start_workflow, a process that lives on when whoever called it gives up. *)

RegistryLocked == \E a \in Attempts : starter[a] \in {"locked", "made", "written"}

\* start_configured and the preflight: nothing is made, and nothing is locked yet.
Preflight(a) ==
    /\ starter[a] = "begun"
    /\ StarterGoto(a, "checked") \/ StarterGoto(a, "refused")
    /\ UNCHANGED <<phase, closed>>

\* Mutant: the registry is checked and then locked as a thing of its own.
CheckBeforeLock(a) ==
    /\ starter[a] = "checked"
    /\ StarterGoto(a, IF RegistryReadable /\ Blockers = {} THEN "locked" ELSE "refused")
    /\ UNCHANGED <<phase, closed>>

\* _open_registry_lock tries once; under it _refuse_conflicting_work.
LockRegistry(a) ==
    /\ starter[a] = "checked"
    /\ StarterGoto(a, IF ~RegistryLocked /\ RegistryReadable /\ Blockers = {}
                      THEN "locked" ELSE "refused")
    /\ UNCHANGED <<phase, closed>>

MakeDirectory(a) ==
    /\ starter[a] = "locked"
    /\ StarterGoto(a, "made") /\ PhaseBecomes(a, "made")
    /\ UNCHANGED closed

\* workflow.json, the private configuration snapshot and the job.
WriteRequest(a) ==
    /\ starter[a] = "made"
    /\ StarterGoto(a, "written") /\ PhaseBecomes(a, "written")
    /\ UNCHANGED closed

\* _spawn_worker: a resume may have taken the workflow's lock first, or its worker may
\* have come and gone; a start's worker repeats nothing that is sealed or indeterminate.
SpawnWorker(a) ==
    /\ starter[a] = "written"
    /\ IF Active(a)
       THEN StarterGoto(a, "refused") /\ UNCHANGED phase
       ELSE /\ StarterGoto(a, "answered")
            /\ PhaseBecomes(a, CASE phase[a] = "complete" -> "verifying"
                                 [] phase[a] = "waiting" -> "waiting"
                                 [] OTHER -> "launched")
    /\ UNCHANGED closed

StarterDies(a) ==
    /\ starter[a] \in {"begun", "checked", "locked", "made", "written"}
    /\ StarterGoto(a, "dead")
    /\ UNCHANGED <<phase, closed>>

StarterStep(a) == \/ Preflight(a)
                  \/ LockRegistry(a)
                  \/ MakeDirectory(a)
                  \/ WriteRequest(a)
                  \/ SpawnWorker(a)
                  \/ StarterDies(a)

-----------------------------------------------------------------------------
(* The worker: it finds its workflow closed, or it works and ends with the *)
(* solution sealed, with a call to authorize, or with neither.              *)

WorkerStep(a) ==
    /\ \/ phase[a] = "launched" /\ PhaseBecomes(a, IF a \in closed THEN "stopped" ELSE "running")
       \/ phase[a] = "running" /\ \E p \in {"complete", "waiting", "stopped"} : PhaseBecomes(a, p)
       \/ phase[a] = "verifying" /\ PhaseBecomes(a, "complete")
    /\ UNCHANGED <<closed, starter>>

-----------------------------------------------------------------------------
(* The guarded effects of management, each under the workflow's lock.      *)

Actions == {"resume", "retry", "stop", "verify", "close"}

\* launch_existing, close_workflow and stop_workflow check again what the caller saw;
\* stop needs a worker that has written its status.
Accepts(action, a) ==
    CASE action = "stop" -> phase[a] \in {"running", "verifying"}
      [] action = "close" -> ~Active(a) /\ a \notin closed /\ ~Finished(a)
      [] action = "verify" -> phase[a] = "complete" /\ a \notin closed
      [] action = "retry" -> phase[a] = "waiting" /\ a \notin closed
      [] action = "resume" -> phase[a] \in {"written", "stopped"} /\ a \notin closed

\* A stopped worker may have sealed its run first, or leave a call to authorize.
Effect(action, a) ==
    /\ \/ /\ action = "stop"
          /\ IF phase[a] = "verifying" THEN PhaseBecomes(a, "complete")
             ELSE \E p \in {"complete", "waiting", "stopped"} : PhaseBecomes(a, p)
       \/ action = "verify" /\ PhaseBecomes(a, "verifying")
       \/ action \in {"resume", "retry"} /\ PhaseBecomes(a, "launched")
       \/ action = "close" /\ UNCHANGED phase
    /\ closed' = IF action = "close" THEN closed \cup {a} ELSE closed
    /\ UNCHANGED starter
=============================================================================
