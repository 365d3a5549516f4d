-------------------------- MODULE PopulationLedger --------------------------
(***************************************************************************)
(* What the Population promises its users: one append-only ledger in which *)
(* every record was valid, against everything before it, at the moment it  *)
(* was appended.  The rules themselves are parameters; PopulationRules     *)
(* gives them, and PopulationCommands implements this specification.       *)
(***************************************************************************)
EXTENDS Sequences, Integers

CONSTANTS
    Header,             \* the first record
    RecordValid(_, _)   \* may a record follow a ledger?

VARIABLE ledger

Init == ledger = << >>

Initialize ==
    /\ ledger = << >>
    /\ ledger' = <<Header>>

AppendRecord ==
    /\ ledger # << >>
    /\ Len(ledger') = Len(ledger) + 1
    /\ ledger' = Append(ledger, ledger'[Len(ledger) + 1])
    /\ RecordValid(ledger, ledger'[Len(ledger) + 1])

Next == Initialize \/ AppendRecord

Spec == Init /\ [][Next]_ledger
=============================================================================
