---------------------------- MODULE MCSupervisor ----------------------------
(***************************************************************************)
(* Instances of Supervisor for TLC: one server that speaks both versions   *)
(* and one that only knows the base version.                               *)
(***************************************************************************)
EXTENDS Supervisor

CONSTANTS Modern, Legacy

BothServers == {Modern, Legacy}
Versions == [s \in BothServers |-> IF s = Modern THEN {Base, Extended} ELSE {Base}]

=============================================================================
