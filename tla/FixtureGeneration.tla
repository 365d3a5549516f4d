-------------------------- MODULE FixtureGeneration -------------------------
(***************************************************************************)
(* One schema-1 generation: the Controller mutates a genome, opens an      *)
(* Observer session, and for each requested probe asks the Runner for both *)
(* forecasts before it asks the Observer for the answer.  When the probes  *)
(* have identified one version it finishes the session and lets the Assay  *)
(* and the Gate compare the forecasts.  Whatever fails ends the generation *)
(* and kills the Observer.                                                 *)
(***************************************************************************)
EXTENDS SelectionRules, ObserverSession

CONSTANTS
    Genomes,           \* records [hypothesis, confidence]
    Supports,          \* mutation distributions: sequences of [child, share]
    Plans,             \* probe lists a request may name
    Gain

\* fixture_runner.py: several versions, hypotheses held to a part of the whole.
ASSUME FixturesAssumption ==
    /\ IsFiniteSet(Versions) /\ Cardinality(Versions) > 1
    /\ \A genome \in Genomes: genome.confidence \in 0 .. Whole
    /\ \A support \in Supports: \A i \in DOMAIN support:
            support[i].child.confidence \in 0 .. Whole
    /\ \A probes \in Plans: probes \in Seq({probes[i]: i \in DOMAIN probes})
    /\ Gain \in Nat

VARIABLES
    plan,        \* the request: [active, parent, support, draw, probes]
    point,       \* the point the Controller is at
    probeIndex,  \* the probe it is at
    genes,       \* [child, incumbent forecast, challenger forecast, rows, reports]
    awaiting     \* TRUE while a request to the Observer is unanswered

fixtureVars == <<plan, point, probeIndex, genes, awaiting>>

NoGenes == [child |-> None, incumbent |-> None, challenger |-> None,
            incumbentRows |-> <<>>, challengerRows |-> <<>>, version |-> None,
            selected |-> None]
NoPlan == [active |-> None, parent |-> None, support |-> <<>>, draw |-> 0,
           probes |-> <<>>]

FixtureInit ==
    /\ plan = NoPlan /\ point = "idle" /\ probeIndex = 0 /\ genes = NoGenes
    /\ awaiting = FALSE

InSession == {"state", "forecastIncumbent", "forecastChallenger", "observe", "finish"}
Busy == InSession \cup {"mutate", "open", "closing", "assay"}

MoveTo(next) == point' = next

\* Mutant: an error forgets the session.
MutantAbandon ==
    /\ MoveTo("failed") /\ awaiting' = FALSE
    /\ UNCHANGED <<observerVars, plan, probeIndex, genes>>

\* ObserverSession.abort, and the error that ends the Controller.
Abandon ==
    /\ MoveTo("failed")
    /\ observer' = IF observer = "none" THEN "none" ELSE "dead"   \* kill_process_tree
    /\ inbox' = NoLine /\ awaiting' = FALSE
    /\ UNCHANGED <<sandbox, belief, observed, finished, outbox, plan, probeIndex, genes>>

StartFixture(p) ==
    /\ point = "idle"
    /\ plan' = p
    /\ MoveTo("mutate") /\ probeIndex' = 1
    /\ UNCHANGED <<genes, awaiting, observerVars>>

Mutate ==
    /\ point = "mutate"
    /\ \E i \in Picked(plan.support, plan.draw):
        /\ plan.support[i].child # plan.parent
        /\ genes' = [genes EXCEPT !.child = plan.support[i].child]
    /\ MoveTo("open")
    /\ UNCHANGED <<plan, probeIndex, awaiting, observerVars>>

OpenSession ==
    /\ point = "open"
    /\ Boot(plan.active, "running")
    /\ MoveTo("state")
    /\ UNCHANGED <<plan, probeIndex, genes, awaiting>>

\* ObserverSession.request: one line out, then the wait for one line.
Send(line) ==
    /\ ~awaiting /\ observer = "running"
    /\ inbox' = line /\ awaiting' = TRUE
    /\ UNCHANGED <<observer, sandbox, belief, observed, finished, outbox, plan, point,
                   probeIndex, genes>>

AskState == point = "state" /\ Send([action |-> "state"])
AskObserve ==
    point = "observe" /\ Send([action |-> "observe", probe |-> plan.probes[probeIndex]])
AskFinish == point = "finish" /\ Send([action |-> "finish", version |-> genes.version])

Received ==
    /\ awaiting /\ outbox # NoLine
    /\ outbox' = NoLine /\ awaiting' = FALSE
    /\ UNCHANGED <<observer, sandbox, belief, observed, finished, inbox>>

TakeState ==
    /\ point = "state" /\ Received
    /\ outbox.ok /\ \A i \in DOMAIN plan.probes: plan.probes[i] \in outbox.probes
    /\ MoveTo("forecastIncumbent")
    /\ UNCHANGED <<plan, probeIndex, genes>>

Expected(genome) ==
    ForecastOf(genome, Versions, [v \in Versions |-> Answers[v][plan.probes[probeIndex]]])

ForecastIncumbent ==
    /\ point = "forecastIncumbent"
    /\ genes' = [genes EXCEPT !.incumbent = Expected(plan.parent)]
    /\ MoveTo("forecastChallenger")
    /\ UNCHANGED <<plan, probeIndex, awaiting, observerVars>>

ForecastChallenger ==
    /\ point = "forecastChallenger"
    /\ genes' = [genes EXCEPT !.challenger = Expected(genes.child)]
    /\ MoveTo("observe")
    /\ UNCHANGED <<plan, probeIndex, awaiting, observerVars>>

Row(forecast, target) == [target |-> target, share |-> forecast[target]]

LastProbe == probeIndex = Len(plan.probes)

\* An observation both forecasts named.  It may be the one that identifies the
\* version only when it is the last one asked for.
Usable ==
    /\ outbox.ok
    /\ outbox.result \in DOMAIN genes.incumbent /\ outbox.result \in DOMAIN genes.challenger
    /\ outbox.done <=> LastProbe

TakeObservation ==
    /\ point = "observe" /\ Received /\ Usable
    /\ genes' = [genes EXCEPT
            !.incumbentRows = Append(@, Row(genes.incumbent, outbox.result)),
            !.challengerRows = Append(@, Row(genes.challenger, outbox.result)),
            !.version = IF LastProbe THEN CHOOSE v \in outbox.belief: TRUE ELSE @]
    /\ MoveTo(IF LastProbe THEN "finish" ELSE "forecastIncumbent")
    /\ probeIndex' = IF LastProbe THEN probeIndex ELSE probeIndex + 1
    /\ UNCHANGED plan

TakeFinish ==
    /\ point = "finish" /\ Received /\ outbox.ok /\ outbox.correct
    /\ MoveTo("closing")
    /\ UNCHANGED <<plan, probeIndex, genes>>

\* ObserverSession.close: end of input, then the wait for the exit status.
CloseInput ==
    /\ point = "closing" /\ observer = "running"
    /\ observer' = "eof"
    /\ UNCHANGED <<sandbox, belief, observed, finished, inbox, outbox, fixtureVars>>

Closed ==
    /\ point = "closing" /\ observer = "ended"
    /\ MoveTo("assay")
    /\ UNCHANGED <<plan, probeIndex, genes, awaiting, observerVars>>

Select ==
    LET incumbent == FixtureReport(plan.parent, genes.incumbentRows)
        challenger == FixtureReport(genes.child, genes.challengerRows)
    IN /\ point = "assay" /\ FixtureComparable(incumbent, challenger)
       /\ genes' = [genes EXCEPT
                !.selected = IF FixturePromotes(Gain, incumbent, challenger)
                             THEN genes.child ELSE plan.parent]
       /\ MoveTo("answered")
       /\ UNCHANGED <<plan, probeIndex, awaiting, observerVars>>

\* Mutant: a request to the Observer waits without a deadline.
MutantGiveUp ==
    /\ \/ point \in Busy \ {"closing"} /\ ~awaiting
       \/ point = "closing" /\ observer \in {"eof", "dead"}
    /\ Abandon

\* A component that fails or is slow, a dead or silent Observer, an answer that
\* does not do: every one of them ends the generation.
GiveUp ==
    /\ \/ point \in Busy \ {"closing"}     \* a call fails or exceeds its timeout
       \/ point = "closing" /\ observer \in {"eof", "dead"}
    /\ Abandon

\* A killed Controller ends the Observer's input and does no more.
FixtureKilled ==
    /\ point \in Busy
    /\ MoveTo("killed")
    /\ observer' = IF observer = "running" THEN "eof" ELSE observer
    /\ UNCHANGED <<sandbox, belief, observed, finished, inbox, outbox, plan, probeIndex,
                   genes, awaiting>>

FixtureStep ==
    \/ \E active \in Versions, parent \in Genomes, support \in Supports,
          draw \in 0 .. Whole - 1, probes \in Plans:
            StartFixture([active |-> active, parent |-> parent, support |-> support,
                          draw |-> draw, probes |-> probes])
    \/ Mutate \/ OpenSession \/ AskState \/ AskObserve \/ AskFinish
    \/ TakeState \/ ForecastIncumbent \/ ForecastChallenger \/ TakeObservation
    \/ TakeFinish \/ CloseInput \/ Closed \/ Select \/ GiveUp

FixtureNext == FixtureStep \/ FixtureKilled

SessionNext ==
    /\ Serve \/ ObserverEnds \/ ObserverCrashes \/ AlterSandbox
    /\ UNCHANGED fixtureVars

-----------------------------------------------------------------------------
(* The forecasts a generation compares were scored against the contents of one
   version, the one the session identified, even when the sandbox changed
   between two probes; and the child is chosen exactly when it made those
   contents likelier by more than Gain, impossible contents included. *)
EvidenceIsOfOneVersion ==
    point = "answered" =>
        /\ \A i \in DOMAIN plan.probes:
             genes.incumbentRows[i].target = Answers[genes.version][plan.probes[i]]
        /\ genes.selected = genes.child <=>
             Likelihood(genes.challengerRows) > Gain * Likelihood(genes.incumbentRows)

(* A generation that answers or fails has waited for its Observer or killed it,
   on every path; one that is killed leaves it nothing to wait for. *)
NoObserverLeft ==
    /\ point \in {"answered", "failed"} => observer \in {"none", "ended", "dead"}
    /\ point = "killed" => observer # "running"
=============================================================================
