\* One decorator whose policy is Preferred, and a carrier that brings plaintext.
CONSTANTS
  WordBits = 2
  Tasks = {"app", "radio"}
  Applications = {"app"}
  Radios = {"radio"}
  Decorators = {"first"}
  Carriers = {"link"}
  CarrierOf <- OneCarrier
  KeyIDs = {1, 2}
  SessionIDs = {1}
  Configs <- OnePreferred
  WindowSize = 2
  MaxSequence = 2
  MaxDepth = 4
  MaxAir = 2
SPECIFICATION Spec
INVARIANT ReceivesAuthenticated
