--------------------------- MODULE ObserverSession --------------------------
(***************************************************************************)
(* The Observer's JSON-lines session: a process that holds a belief about  *)
(* which version a sandbox of files is, answers one request line at a time *)
(* and ends at the end of its input.  A version is what it answers to      *)
(* every probe; somebody may alter the sandbox while the session runs.     *)
(***************************************************************************)
EXTENDS Integers, Sequences, FiniteSets, FiniteSetsExt

CONSTANTS
    Versions, Probes,
    Answers,        \* Answers[v][p]: what version v answers to probe p
    Altered,        \* what an altered sandbox may answer: functions on Probes
    NoLine          \* an empty pipe

ASSUME VersionsDiffer ==
    \A v, w \in Versions: v # w => Answers[v] # Answers[w]

VARIABLES
    observer,    \* the process: "none", "running" or "eof" in a session, "auto"
                 \* in a run without one, "ended" or "dead"
    sandbox,     \* what the sandbox answers
    belief,      \* the versions that agree with every observation
    observed,    \* the observations made: a set of <<probe, answer>>
    finished,
    inbox,       \* the request line in its input pipe
    outbox       \* the response line in its output pipe

observerVars == <<observer, sandbox, belief, observed, finished, inbox, outbox>>

ObserverInit ==
    /\ observer = "none" /\ sandbox = NoLine
    /\ belief = {} /\ observed = {} /\ finished = FALSE
    /\ inbox = NoLine /\ outbox = NoLine

\* main: the sandbox is a copy of the active version's files.
Boot(active, mode) ==
    /\ observer = "none"
    /\ observer' = mode
    /\ sandbox' = Answers[active]
    /\ belief' = Versions /\ observed' = {} /\ finished' = FALSE
    /\ inbox' = NoLine /\ outbox' = NoLine

Reply(response) ==
    /\ outbox' = response
    /\ inbox' = NoLine

Refused == [ok |-> FALSE]

ServeState ==
    /\ inbox.action = "state"
    /\ Reply([ok |-> TRUE, probes |-> Probes, belief |-> belief])
    /\ UNCHANGED <<observer, sandbox, belief, observed, finished>>

\* Mutant: an answer is held against every version, not those still believed.
MutantMatching(probe) == {v \in Versions: Answers[v][probe] = sandbox[probe]}

Matching(probe) == {v \in belief: Answers[v][probe] = sandbox[probe]}

ServeObserve ==
    /\ inbox.action = "observe" /\ inbox.probe \in Probes /\ Cardinality(belief) > 1
    /\ Matching(inbox.probe) # {}
    /\ belief' = Matching(inbox.probe)
    /\ observed' = observed \cup {<<inbox.probe, sandbox[inbox.probe]>>}
    /\ Reply([ok |-> TRUE, result |-> sandbox[inbox.probe], belief |-> belief',
              done |-> Cardinality(belief') = 1])
    /\ UNCHANGED <<observer, sandbox, finished>>

\* The sandbox must be the identified version's tree to the last file.
ServeFinish ==
    /\ inbox.action = "finish" /\ Cardinality(belief) = 1
    /\ \E identified \in belief:
        /\ sandbox = Answers[identified]
        /\ Reply([ok |-> TRUE, correct |-> inbox.version = identified])
    /\ finished' = TRUE
    /\ UNCHANGED <<observer, sandbox, belief, observed>>

\* Requests that get an error and leave the session as it is.
Unservable ==
    \/ inbox.action = "observe" /\ (Cardinality(belief) = 1 \/ inbox.probe \notin Probes)
    \/ inbox.action = "finish" /\ Cardinality(belief) # 1

Refuse ==
    /\ finished \/ Unservable
    /\ Reply(Refused)
    /\ UNCHANGED <<observer, sandbox, belief, observed, finished>>

Stop(status) ==
    /\ observer' = status /\ inbox' = NoLine
    /\ UNCHANGED <<sandbox, belief, observed, finished, outbox>>

\* ObserverError ends the session: no version matches, or the tree is another.
Contradicted ==
    /\ ~finished
    /\ \/ /\ inbox.action = "observe" /\ inbox.probe \in Probes
          /\ Cardinality(belief) > 1 /\ Matching(inbox.probe) = {}
       \/ /\ inbox.action = "finish" /\ Cardinality(belief) = 1
          /\ \A v \in belief: sandbox # Answers[v]
    /\ Stop("dead")

Serve ==
    /\ observer = "running" /\ inbox # NoLine
    /\ \/ ~finished /\ (ServeState \/ ServeObserve \/ ServeFinish)
       \/ Refuse
       \/ Contradicted

\* At end of input the process ends, when it has nothing left to read.
ObserverEnds ==
    /\ observer = "eof" /\ inbox = NoLine
    /\ Stop("ended")

\* A measurement fails, or the process is killed from outside.
ObserverCrashes == observer \in {"running", "eof", "auto"} /\ Stop("dead")

\* Somebody else writes to the probed files; no code of the repository does.
AlterSandbox ==
    /\ observer \in {"running", "auto"}
    /\ sandbox' \in Altered \ {sandbox}
    /\ UNCHANGED <<observer, belief, observed, finished, inbox, outbox>>

-----------------------------------------------------------------------------
(* run: without a client the Observer chooses its probes itself.           *)

\* outcomes: the versions still believed, grouped by what they answer.
Groups(probe) ==
    {{v \in belief: Answers[v][probe] = Answers[w][probe]}: w \in belief}

\* Of equal shares, the entropy is the greater the smaller this product is.
Concentration(probe) ==
    FoldSet(LAMBDA g, product: product * Cardinality(g) ^ Cardinality(g), 1, Groups(probe))

\* A probe of greatest entropy: it must tell some of them apart.
Splits(probe) ==
    /\ Cardinality(Groups(probe)) > 1
    /\ \A other \in Probes: Concentration(probe) <= Concentration(other)

ObserveBest ==
    /\ observer = "auto" /\ Cardinality(belief) > 1
    /\ \E probe \in Probes:
        /\ Splits(probe)
        /\ IF Matching(probe) = {} THEN Stop("dead")
           ELSE /\ belief' = Matching(probe)
                /\ observed' = observed \cup {<<probe, sandbox[probe]>>}
                /\ UNCHANGED <<observer, sandbox, finished, inbox, outbox>>

\* The tree must be the identified version's, and that one the active one.
Identify(active) ==
    /\ observer = "auto" /\ Cardinality(belief) = 1
    /\ Stop(IF sandbox = Answers[active] /\ belief = {active} THEN "ended" ELSE "dead")

-----------------------------------------------------------------------------
(* The belief is exactly what the observations leave, in whatever order they
   were made and whatever the sandbox has become since, and never empty. *)
BeliefIsWhatEvidenceLeaves ==
    observer # "none" =>
        /\ belief = {v \in Versions: \A o \in observed: Answers[v][o[1]] = o[2]}
        /\ belief # {}
=============================================================================
