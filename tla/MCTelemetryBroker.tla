---- MODULE MCTelemetryBroker ----
(* Instances of TelemetryBroker with the processes of JobFiles. *)
EXTENDS TelemetryBroker
====
