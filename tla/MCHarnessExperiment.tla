------------------------- MODULE MCHarnessExperiment -------------------------
EXTENDS HarnessExperiment

\* Archives of two members whose second one is the best: the final assay asks for
\* another draw than the driver's.
SecondIsBest == {<<1, 2>>}
=============================================================================
