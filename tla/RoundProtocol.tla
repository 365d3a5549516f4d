---------------------------- MODULE RoundProtocol ----------------------------
(***************************************************************************)
(* What the Population Driver promises whoever pays for the model calls:   *)
(* every Controller call was approved, durably, before it is made; one     *)
(* approval pays for at most one call, whatever dies in between; a round   *)
(* is completed only on the strength of a call, and completed rounds are   *)
(* bounded.  An approval is <<round, ordinal>>.                            *)
(***************************************************************************)
EXTENDS Integers

CONSTANT MaxRounds

VARIABLES
    completed,  \* number of committed rounds
    approved,   \* approvals given: the initial intent and explicit retries
    called,     \* approvals that have been spent
    calls       \* number of calls made

vars == <<completed, approved, called, calls>>

Round == completed + 1

Init ==
    /\ completed = 0
    /\ approved = {}
    /\ called = {}
    /\ calls = 0

\* Approvals of a round are numbered without gaps.
Approve ==
    \E a \in approved' \ approved :
        /\ a[1] = Round
        /\ a[2] = 1 \/ <<Round, a[2] - 1>> \in approved
        /\ approved' = approved \cup {a}
        /\ UNCHANGED <<completed, called, calls>>

\* Only the latest approval can be spent, and only once.
Call ==
    \E a \in approved \ called :
        /\ a[1] = Round
        /\ <<Round, a[2] + 1>> \notin approved
        /\ called' = called \cup {a}
        /\ calls' = calls + 1
        /\ UNCHANGED <<completed, approved>>

Commit ==
    /\ completed < MaxRounds
    /\ \E a \in called : a[1] = Round
    /\ completed' = Round
    /\ UNCHANGED <<approved, called, calls>>

Next == Approve \/ Call \/ Commit

Spec == Init /\ [][Next]_vars
=============================================================================
