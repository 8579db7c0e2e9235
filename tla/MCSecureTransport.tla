-------------------------- MODULE MCSecureTransport --------------------------
(***************************************************************************)
(* A node with an application task and a carrier task.                     *)
(***************************************************************************)
EXTENDS SecureTransport

Conf(key, session, policy) ==
  [OutboundKeyID |-> key, SessionID |-> session, Policy |-> policy]

OneConfig    == {Conf(1, 0, "Required")}
OnePreferred == {Conf(1, 0, "Preferred")}
SomeConfigs  == {Conf(1, 0, "Required"), Conf(2, 2, "Disabled")}

OneCarrier == [d \in Decorators |-> "link"]
=============================================================================
