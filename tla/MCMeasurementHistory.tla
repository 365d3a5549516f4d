------------------------ MODULE MCMeasurementHistory ------------------------
(* Two requests with different results, one build. *)
EXTENDS MeasurementHistory

MCResponse(request) == IF request = "entropy" THEN 1 ELSE 2
=============================================================================
