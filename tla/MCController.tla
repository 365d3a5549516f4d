---------------------------- MODULE MCController ----------------------------
(* A small Controller: two tasks, outcomes o and p, three versions that two *)
(* probes tell apart.                                                       *)
EXTENDS Controller

MCForecasts == {[o |-> 3, p |-> 3], [o |-> 6], [o |-> 3, p |-> 4]}
MCVerdicts ==
    {[outcome |-> "o", passed |-> FALSE, safe |-> TRUE],
     [outcome |-> "p", passed |-> TRUE, safe |-> FALSE]}
MCPolicies == {[minimum |-> 1, rejectSafety |-> FALSE]}

\* Probes a and b identify v, w, x together; "tree" is the rest of the files.
MCAnswers ==
    [v |-> [a |-> 0, b |-> 0, tree |-> 0], w |-> [a |-> 0, b |-> 1, tree |-> 0],
     x |-> [a |-> 1, b |-> 1, tree |-> 0]]
MCAltered ==
    {MCAnswers["w"], [a |-> 2, b |-> 0, tree |-> 0], [a |-> 0, b |-> 0, tree |-> 1]}

MCGenomes ==
    {[hypothesis |-> "v", confidence |-> 4], [hypothesis |-> "w", confidence |-> 4],
     [hypothesis |-> "v", confidence |-> 6]}
MCSupports ==
    {<<[child |-> [hypothesis |-> "w", confidence |-> 4], share |-> 3],
       [child |-> [hypothesis |-> "v", confidence |-> 6], share |-> 3]>>,
     <<[child |-> [hypothesis |-> "v", confidence |-> 4], share |-> 5]>>}
MCPlans == {<<"a", "b">>, <<"b", "a">>, <<"a">>, <<"c">>}
=============================================================================
