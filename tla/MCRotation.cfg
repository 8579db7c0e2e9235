\* The sender moves between two keys while the receiver's keys and ciphers
\* come and go, with a second cipher of the same algorithm.
CONSTANTS
  WordBits = 2
  MaxSequence = 2
  MaxField = 3
  MaxLength = 2
  Endpoints <- Everyone
  Senders <- OnlyAlice
  Receivers <- OnlyBob
  Managed <- OnlyBob
  Observable = {}
  Ciphers <- TwinCiphers
  Materials <- ManyKeys
  KeyIDs = {1, 2}
  Protocols = {0}
  Payloads <- OnePayload
  SessionIDs = {1, 2}
  Configs <- Rotating
  InitialCiphers <- AllCiphers
  InitialKeys <- SharedKey
  Faults = {"BufferLimitExceeded"}
  ReuseSessions = FALSE
SPECIFICATION Spec
INVARIANT AcceptsExactlyFresh
