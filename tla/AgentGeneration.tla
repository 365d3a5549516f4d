--------------------------- MODULE AgentGeneration --------------------------
(***************************************************************************)
(* One schema-2 generation: a Controller process that calls the Mutator,   *)
(* for every task the Runner twice and the Observer, then the Assay twice  *)
(* and the Gate, replays its own receipt and answers.  Each call is a      *)
(* process in a session of its own with a deadline; three of the           *)
(* components call an external adapter with a deadline of its own.         *)
(*                                                                         *)
(* Adapters answer what they like, or nothing.  Time is counted in ticks:  *)
(* a component may be slow, the Controller itself works for at most Slack  *)
(* ticks in all, and a process whose child's deadline has come acts before *)
(* the next tick.                                                          *)
(***************************************************************************)
EXTENDS SelectionRules

CONSTANTS
    Proposals,           \* what proposers may return
    Incumbents,          \* the parents of a request
    TaskCount,           \* tasks of a generation
    Forecasts, Verdicts, \* what runners and evaluators may return
    Policies,            \* records [minimum, rejectSafety]
    ProposerTimeout, RunnerTimeout, EvaluatorTimeout,
    Margin,              \* COMPONENT_TIMEOUT_SECONDS, and contract.py's margin
    Slack,               \* what the Controller's own work may take
    Malformed            \* an answer that does not decode

ASSUME TimeoutsAssumption ==
    /\ TaskCount \in Nat \ {0} /\ Margin \in Nat /\ Slack \in Nat
    /\ ProposerTimeout \in Nat \ {0} /\ RunnerTimeout \in Nat \ {0}
    /\ EvaluatorTimeout \in Nat \ {0}
    /\ Slack < Margin

VARIABLES
    request,   \* what the caller asked for: [parent, policy]
    stage,     \* the point the Controller is at
    task,      \* the task it is at
    work,      \* the child, the runs, verdicts and reports so far
    callee,    \* the component it waits for: [phase, answer]
    timer,     \* what is left to each caller: [controller, component, adapter]
    used       \* what the Controller's own work has taken

agentVars == <<request, stage, task, work, callee, timer, used>>

Calling == {"mutate", "runIncumbent", "runChallenger", "observe", "assayIncumbent",
            "assayChallenger", "select"}
Working == Calling \cup {"validate"}
Ended == {"answered", "failed"}
WithAdapter == {"mutate", "runIncumbent", "runChallenger", "observe"}

AdapterLimit ==
    [s \in WithAdapter |-> CASE s = "mutate" -> ProposerTimeout
                             [] s = "observe" -> EvaluatorTimeout
                             [] OTHER -> RunnerTimeout]
ComponentLimit ==
    [s \in Calling |-> IF s \in WithAdapter THEN AdapterLimit[s] + Margin ELSE Margin]

\* Mutant: the margins for start and checks of each call are left out.
MutantGenerationLimit ==
    ProposerTimeout + TaskCount * (2 * RunnerTimeout + EvaluatorTimeout) + 4 * Margin

\* What a caller of the Controller allows for the whole generation.
GenerationLimit ==
    ProposerTimeout + Margin
        + TaskCount * (2 * (RunnerTimeout + Margin) + EvaluatorTimeout + Margin)
        + 4 * Margin

NoCallee == [phase |-> "none", answer |-> None]
NoWork == [child |-> None, incumbentRuns |-> <<>>, challengerRuns |-> <<>>,
           incumbentVerdicts |-> <<>>, challengerVerdicts |-> <<>>,
           incumbentReport |-> None, challengerReport |-> None, selection |-> None]

AgentInit ==
    /\ request = [parent |-> None, policy |-> None]
    /\ stage = "idle" /\ task = 0 /\ work = NoWork /\ callee = NoCallee
    /\ timer = [controller |-> 0, component |-> 0, adapter |-> 0]
    /\ used = 0

-----------------------------------------------------------------------------
(* The Controller *)

Start(parent, policy) ==
    /\ stage = "idle"
    /\ request' = [parent |-> parent, policy |-> policy]
    /\ stage' = "mutate" /\ task' = 1
    /\ timer' = [timer EXCEPT !.controller = GenerationLimit]
    /\ UNCHANGED <<work, callee, used>>

Call ==
    /\ stage \in Calling /\ callee = NoCallee
    /\ callee' = [callee EXCEPT !.phase = "component"]
    /\ timer' = [timer EXCEPT !.component = ComponentLimit[stage]]
    /\ UNCHANGED <<request, stage, task, work, used>>

\* What the Controller keeps of an answer, and where it goes next.
Kept(answer) ==
    CASE stage = "mutate" -> [work EXCEPT !.child = answer]
      [] stage = "runIncumbent" -> [work EXCEPT !.incumbentRuns = Append(@, answer)]
      [] stage = "runChallenger" -> [work EXCEPT !.challengerRuns = Append(@, answer)]
      [] stage = "observe" ->
            [work EXCEPT !.incumbentVerdicts = Append(@, answer[request.parent]),
                         !.challengerVerdicts = Append(@, answer[work.child])]
      [] stage = "assayIncumbent" -> [work EXCEPT !.incumbentReport = answer]
      [] stage = "assayChallenger" -> [work EXCEPT !.challengerReport = answer]
      [] stage = "select" -> [work EXCEPT !.selection = answer]

NextStage ==
    CASE stage = "mutate" -> "runIncumbent"
      [] stage = "runIncumbent" -> "runChallenger"
      [] stage = "runChallenger" -> "observe"
      [] stage = "observe" -> IF task < TaskCount THEN "runIncumbent" ELSE "assayIncumbent"
      [] stage = "assayIncumbent" -> "assayChallenger"
      [] stage = "assayChallenger" -> "select"
      [] stage = "select" -> "validate"

\* The Controller's own look at an answer.
Accepted(answer) ==
    /\ stage = "mutate" => answer # request.parent
    /\ stage = "observe" => DOMAIN answer = {request.parent, work.child}
    /\ stage = "select" => answer.selected \in {request.parent, work.child}

Accept ==
    /\ stage \in Calling /\ callee.phase = "answered" /\ Accepted(callee.answer)
    /\ work' = Kept(callee.answer)
    /\ stage' = NextStage
    /\ task' = IF stage = "observe" /\ task < TaskCount THEN task + 1 ELSE task
    /\ callee' = NoCallee
    /\ timer' = [timer EXCEPT !.component = 0]
    /\ UNCHANGED <<request, used>>

Fail ==
    /\ stage' = "failed"
    /\ callee' = NoCallee
    /\ timer' = [controller |-> 0, component |-> 0, adapter |-> 0]
    /\ work' = NoWork /\ task' = 0 /\ used' = 0
    /\ UNCHANGED request

Reject ==
    /\ stage \in Calling
    /\ \/ callee.phase = "failed"
       \/ callee.phase = "answered" /\ ~Accepted(callee.answer)
    /\ Fail

\* run_json_process kills the component's session at its deadline.
ComponentTimesOut ==
    /\ stage \in Calling /\ callee.phase \in {"component", "adapter", "assess"}
    /\ timer.component = 0
    /\ Fail

\* What validate_agent_generation_receipt asks of a report, of each case's trace,
\* and of the receipt this Controller would print.
ReportMatches(report, candidate) ==
    /\ report.candidate = candidate /\ Len(report.cases) = TaskCount
    /\ report.passed = PassedCount(report.cases)
    /\ report.failures = SafetyFailures(report.cases)

TraceMatches(case, run, verdict) ==
    verdict.outcome \in DOMAIN run /\ case = TaskCase(run, verdict)

SelectionReplays ==
    /\ Comparable(work.incumbentReport, work.challengerReport)
    /\ work.selection =
            Selection(request.policy, work.incumbentReport, work.challengerReport)

ReceiptValid ==
    /\ work.child # request.parent
    /\ work.selection.selected \in {request.parent, work.child}
    /\ SelectionReplays
    /\ ReportMatches(work.incumbentReport, request.parent)
    /\ ReportMatches(work.challengerReport, work.child)
    /\ \A i \in 1 .. TaskCount:
        /\ TraceMatches(work.incumbentReport.cases[i], work.incumbentRuns[i],
                        work.incumbentVerdicts[i])
        /\ TraceMatches(work.challengerReport.cases[i], work.challengerRuns[i],
                        work.challengerVerdicts[i])

Validate ==
    /\ stage = "validate"
    /\ stage' = IF ReceiptValid THEN "answered" ELSE "failed"
    /\ timer' = [timer EXCEPT !.controller = 0]
    /\ UNCHANGED <<request, task, work, callee, used>>

-----------------------------------------------------------------------------
(* Components and adapters *)

\* A component that has an adapter starts it once it has read its request.
StartAdapter ==
    /\ stage \in WithAdapter /\ callee.phase = "component"
    /\ callee' = [callee EXCEPT !.phase = "adapter"]
    /\ timer' = [timer EXCEPT !.adapter = AdapterLimit[stage]]
    /\ UNCHANGED <<request, stage, task, work, used>>

\* What an adapter may say: a candidate, a forecast, verdicts on one or two of them.
AdapterAnswers ==
    CASE stage = "mutate" -> Proposals
      [] stage = "observe" -> UNION {[ids -> Verdicts]: ids \in SUBSET Proposals \ {{}}}
      [] OTHER -> Forecasts

AdapterReplies ==
    /\ stage \in WithAdapter /\ callee.phase = "adapter"
    /\ \E answer \in AdapterAnswers \cup {Malformed}:
            callee' = [phase |-> "assess", answer |-> answer]
    /\ timer' = [timer EXCEPT !.adapter = 0]
    /\ UNCHANGED <<request, stage, task, work, used>>

AdapterFails ==
    /\ stage \in WithAdapter /\ callee.phase = "adapter"
    /\ callee' = [callee EXCEPT !.phase = "failed"]
    /\ timer' = [timer EXCEPT !.adapter = 0]
    /\ UNCHANGED <<request, stage, task, work, used>>

\* The component kills its adapter at the deadline and reports the failure.
AdapterTimesOut == timer.adapter = 0 /\ AdapterFails

\* What each component asks of its adapter's answer.
ProposalAcceptable(answer) == answer # request.parent
RunAcceptable(answer) == IsForecast(answer)
EvaluationAcceptable(answer) == DOMAIN answer = {request.parent, work.child}

AdapterAcceptable ==
    /\ callee.answer # Malformed
    /\ CASE stage = "mutate" -> ProposalAcceptable(callee.answer)
         [] stage = "observe" -> EvaluationAcceptable(callee.answer)
         [] OTHER -> RunAcceptable(callee.answer)

Assess ==
    /\ stage \in WithAdapter /\ callee.phase = "assess"
    /\ callee' = IF AdapterAcceptable THEN [callee EXCEPT !.phase = "answered"]
                 ELSE [phase |-> "failed", answer |-> None]
    /\ UNCHANGED <<request, stage, task, work, timer, used>>

\* The Assay and the Gate compute their answer, and refuse what does not fit.
Computable ==
    CASE stage = "assayIncumbent" -> Assayable(work.incumbentRuns, work.incumbentVerdicts)
      [] stage = "assayChallenger" -> Assayable(work.challengerRuns, work.challengerVerdicts)
      [] stage = "select" -> Comparable(work.incumbentReport, work.challengerReport)

\* Mutant: the challenger's report is made from the incumbent's verdicts.
MutantComputed ==
    CASE stage = "assayIncumbent" ->
            TaskReport(request.parent, work.incumbentRuns, work.incumbentVerdicts)
      [] stage = "assayChallenger" ->
            TaskReport(work.child, work.incumbentRuns, work.incumbentVerdicts)
      [] stage = "select" ->
            Selection(request.policy, work.incumbentReport, work.challengerReport)

Computed ==
    CASE stage = "assayIncumbent" ->
            TaskReport(request.parent, work.incumbentRuns, work.incumbentVerdicts)
      [] stage = "assayChallenger" ->
            TaskReport(work.child, work.challengerRuns, work.challengerVerdicts)
      [] stage = "select" ->
            Selection(request.policy, work.incumbentReport, work.challengerReport)

Compute ==
    /\ stage \in Calling \ WithAdapter /\ callee.phase = "component"
    /\ callee' = IF Computable THEN [phase |-> "answered", answer |-> Computed]
                 ELSE [callee EXCEPT !.phase = "failed"]
    /\ UNCHANGED <<request, stage, task, work, timer, used>>

ComponentFails ==
    /\ stage \in Calling /\ callee.phase \in {"component", "assess"}
    /\ callee' = [phase |-> "failed", answer |-> None]
    /\ UNCHANGED <<request, stage, task, work, timer, used>>

-----------------------------------------------------------------------------
(* Time *)

Spend(names) ==
    timer' = [n \in DOMAIN timer |-> IF n \in names THEN timer[n] - 1 ELSE timer[n]]

\* A tick while the Controller itself is at work, while a component is, while an
\* adapter is.  None passes a deadline that has come.
Tick ==
    /\ stage \in Working /\ timer.controller > 0
    /\ \/ /\ callee.phase \in {"none", "answered", "failed"} /\ used < Slack
          /\ used' = used + 1 /\ Spend({"controller"})
       \/ /\ callee.phase \in {"component", "assess"} /\ timer.component > 0
          /\ Spend({"controller", "component"}) /\ UNCHANGED used
       \/ /\ callee.phase = "adapter" /\ timer.component > 0 /\ timer.adapter > 0
          /\ Spend({"controller", "component", "adapter"}) /\ UNCHANGED used
    /\ UNCHANGED <<request, stage, task, work, callee>>

\* Its caller's deadline, or an operator, kills the Controller.
ControllerKilled == stage \in Working /\ Fail
ControllerTimesOut == timer.controller = 0 /\ ControllerKilled

Controller == Call \/ Accept \/ Reject \/ ComponentTimesOut \/ Validate
Component == StartAdapter \/ Assess \/ Compute \/ ComponentFails \/ AdapterTimesOut
Adapter == AdapterReplies \/ AdapterFails

AgentNext ==
    \/ \E parent \in Incumbents, policy \in Policies: Start(parent, policy)
    \/ Controller \/ Component \/ Adapter \/ Tick \/ ControllerKilled

-----------------------------------------------------------------------------
(* Whatever the adapters answer, a generation that gets through its components
   prints a receipt that the replay contract accepts: the components' checks
   leave the Controller's and the driver's replay nothing to refuse. *)
GenerationsReplay == stage = "validate" => ReceiptValid

(* The timeout that callers derive (contract.py) is never the one that expires:
   however slow components and adapters are, their own deadlines come first,
   so no caller kills a Controller that still has a component under it. *)
DerivedTimeoutCovers == stage \in Working => timer.controller > 0
=============================================================================
