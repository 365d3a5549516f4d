------------------------- MODULE MCEvolutionDriver --------------------------
(* Two requests with the same candidates and different limits. *)
EXTENDS EvolutionDriver

CONSTANTS a, b, c

MCRequests ==
    {[initial |-> a, maxGenerations |-> 3, maxRejections |-> 2],
     [initial |-> b, maxGenerations |-> 1, maxRejections |-> 1]}
=============================================================================
