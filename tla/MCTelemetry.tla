----------------------------- MODULE MCTelemetry -----------------------------
(* Instances of Telemetry for TLC. *)
EXTENDS Telemetry

Stopped == [operational |-> "Stopped", faults |-> {}]
Streaming == [operational |-> "Streaming", faults |-> {}]
Faulted == [operational |-> "Faulted", faults |-> {"network"}]
MCCameraStatuses == {Stopped, Streaming, Faulted}

Overloaded == [operational |-> "Faulted", effort |-> 0, direction |-> 1,
               faults |-> {"overcurrent"}]
MCMotorStates == {Overloaded}
=============================================================================
