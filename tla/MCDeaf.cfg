\* Two decorators of one carrier, the second constructed before the first is
\* destroyed.
CONSTANTS
  WordBits = 2
  Tasks = {"app", "radio"}
  Applications = {"app"}
  Radios = {"radio"}
  Decorators = {"first", "second"}
  Carriers = {"link"}
  CarrierOf <- OneCarrier
  KeyIDs = {1, 2}
  SessionIDs = {1}
  Configs <- OneConfig
  WindowSize = 2
  MaxSequence = 2
  MaxDepth = 4
  MaxAir = 2
SPECIFICATION Spec
INVARIANT ReceiverUntilDestruction
