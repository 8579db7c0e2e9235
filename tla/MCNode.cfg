\* One decorator; the application sends, reconfigures and resets from its task,
\* from observers and callbacks, inside Protect too, and so moves between two
\* policies, while the carrier delivers envelopes and plaintext.
CONSTANTS
  WordBits = 2
  Tasks = {"app", "radio"}
  Applications = {"app"}
  Radios = {"radio"}
  Decorators = {"first"}
  Carriers = {"link"}
  CarrierOf <- OneCarrier
  KeyIDs = {1, 2}
  SessionIDs = {1, 2}
  Configs <- SomeConfigs
  WindowSize = 2
  MaxSequence = 3
  MaxDepth = 5
  MaxAir = 2
SPECIFICATION Spec
INVARIANTS UniqueIdentity RemembersAccepted SpoiledByReconfiguration ObserverKnowsSession
           HandsOnlyAdmitted
PROPERTY ImplementsChannel
