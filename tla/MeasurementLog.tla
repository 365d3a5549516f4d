--------------------------- MODULE MeasurementLog ---------------------------
(***************************************************************************)
(* What the measurement history promises: a log to which whole             *)
(* measurements are added, one at a time.  A measurement is a request, the *)
(* response Metering gives to it, and the provenance of who measured.      *)
(***************************************************************************)
EXTENDS Sequences

CONSTANTS Requests, Builds, Response(_)

VARIABLE log

Measurement(request, build) ==
    [configuration |-> request, result |-> Response(request), provenance |-> build]

Init == log = <<>>

Record ==
    \E request \in Requests, build \in Builds:
        log' = Append(log, Measurement(request, build))

Spec == Init /\ [][Record]_log
=============================================================================
