-------------------------- MODULE GenerationHistory -------------------------
(***************************************************************************)
(* What the Evolution Driver promises of one state file, however often it  *)
(* is stopped and started: it belongs to one request; each generation      *)
(* starts from the candidate the one before it selected and is told what   *)
(* became of it; and the limits count over all invocations together.       *)
(***************************************************************************)
EXTENDS Naturals

CONSTANTS
    Requests,     \* records [initial, maxGenerations, maxRejections]
    Candidates,
    Nothing

VARIABLES
    owner,        \* the request the file belongs to
    head,         \* the selected candidate
    count,        \* generations made
    rejections    \* generations since the last promotion

history == <<owner, head, count, rejections>>

Init == owner = Nothing /\ head = Nothing /\ count = 0 /\ rejections = 0

Begin ==
    /\ owner = Nothing
    /\ owner' \in Requests /\ head' = owner'.initial
    /\ UNCHANGED <<count, rejections>>

Open ==
    /\ owner # Nothing
    /\ count < owner.maxGenerations /\ rejections < owner.maxRejections
    /\ count' = count + 1
    /\ UNCHANGED owner

Promote ==
    /\ Open
    /\ head' \in Candidates \ {head} /\ rejections' = 0

Retain ==
    /\ Open
    /\ head' = head /\ rejections' = rejections + 1

Next == Begin \/ Promote \/ Retain

Spec == Init /\ [][Next]_history
=============================================================================
