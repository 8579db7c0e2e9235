---------------------------- MODULE MCEventBridge ----------------------------
(***************************************************************************)
(* A busy endpoint and an idle one that a bridge may be connected to.      *)
(***************************************************************************)
EXTENDS EventBridge, MCTransportSecurity

WatchedAndIdle ==
  [e \in Endpoints |-> IF e = "alice"
                       THEN {Config("Required", 0, s) : s \in {0, 1}} \cup {WideConfig}
                       ELSE {Config("Required", 1, 0)}]
=============================================================================
