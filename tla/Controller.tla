----------------------------- MODULE Controller -----------------------------
(***************************************************************************)
(* A Controller process: it reads one request, dispatches it on its schema *)
(* and answers or fails.  Beside it, the Observer's session as any other   *)
(* program may use it: a client that sends whatever line it likes.         *)
(***************************************************************************)
EXTENDS AgentGeneration, FixtureGeneration

controllerVars == <<agentVars, fixtureVars, observerVars>>

ControllerInit == AgentInit /\ FixtureInit /\ ObserverInit

\* _process: the schema decides, once, which of the two generations runs.
Unused == stage = "idle" /\ point = "idle"

AgentRun ==
    /\ stage # "idle" \/ Unused
    /\ AgentNext
    /\ UNCHANGED <<fixtureVars, observerVars>>

FixtureRun ==
    /\ point \notin {"idle", "client", "alone"} \/ Unused
    /\ FixtureNext
    /\ UNCHANGED agentVars

\* A client of its own boots a session, sends lines, reads answers, ends.
ClientBoots ==
    /\ Unused
    /\ \E active \in Versions: Boot(active, "running")
    /\ MoveTo("client")
    /\ UNCHANGED <<plan, probeIndex, genes, awaiting>>

ClientLines ==
    {[action |-> "state"]}
        \cup [action: {"observe"}, probe: Probes \cup {"unknown"}]
        \cup [action: {"finish"}, version: Versions]

ClientSends == \E line \in ClientLines: Send(line)
ClientReceives == Received /\ UNCHANGED <<plan, point, probeIndex, genes>>

ClientCloses ==
    /\ observer = "running" /\ ~awaiting
    /\ observer' = "eof"
    /\ UNCHANGED <<sandbox, belief, observed, finished, inbox, outbox, fixtureVars>>

Client ==
    /\ \/ ClientBoots
       \/ point = "client" /\ (ClientSends \/ ClientReceives \/ ClientCloses)
    /\ UNCHANGED agentVars

Observer == SessionNext /\ UNCHANGED agentVars

\* An Observer that nobody asks identifies the version by itself.
StartsAlone ==
    /\ Unused
    /\ \E active \in Versions:
        Boot(active, "auto") /\ plan' = [NoPlan EXCEPT !.active = active]
    /\ MoveTo("alone")
    /\ UNCHANGED <<probeIndex, genes, awaiting, agentVars>>

Alone ==
    /\ point = "alone"
    /\ ObserveBest \/ Identify(plan.active)
    /\ UNCHANGED <<fixtureVars, agentVars>>

ControllerNext == AgentRun \/ FixtureRun \/ Client \/ Observer \/ StartsAlone \/ Alone

-----------------------------------------------------------------------------
(* What the operating system and the deadlines give: a Controller and its   *)
(* own components go on, time passes, a caller's deadline comes.  Adapters  *)
(* and the Observer may hang for ever.                                      *)
Proceeds ==
    /\ stage # "idle"
    /\ Controller \/ Component \/ Tick \/ ControllerTimesOut
    /\ UNCHANGED <<fixtureVars, observerVars>>
FixtureProceeds == point \in Busy /\ FixtureStep /\ UNCHANGED agentVars

ControllerFairness ==
    WF_controllerVars(Proceeds) /\ WF_controllerVars(FixtureProceeds) /\ WF_controllerVars(Alone)

ControllerSpec == ControllerInit /\ [][ControllerNext]_controllerVars /\ ControllerFairness

(* Every generation ends, though adapters and the Observer may never answer; and
   so does an Observer on its own, whatever becomes of the sandbox meanwhile. *)
Generating == stage \in Working \/ point \in Busy \/ observer = "auto"
GenerationsEnd == Generating ~> ~Generating
=============================================================================
