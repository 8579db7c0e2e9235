\* A bridge at an endpoint whose sessions begin, end and fail to begin, and a
\* second endpoint that is offered to the same bridge.
CONSTANTS
  WordBits = 2
  MaxSequence = 2
  MaxField = 3
  MaxLength = 2
  MaxQueue = 3
  Endpoints <- Everyone
  Senders <- OnlyAlice
  Receivers <- OnlyAlice
  Managed = {}
  Observable <- Everyone
  Ciphers <- WideCiphers
  Materials <- OneKey
  KeyIDs = {1}
  Protocols = {0}
  Payloads <- OnePayload
  SessionIDs = {1, 2}
  Configs <- WatchedAndIdle
  InitialCiphers <- WithWide
  InitialKeys <- SharedKey
  Faults = {"EncryptionFailed"}
  ReuseSessions = FALSE
SPECIFICATION BridgeSpec
INVARIANT ConsumerCatchesUp
PROPERTY ObserverFollowsSession
