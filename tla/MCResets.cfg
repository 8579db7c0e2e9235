\* An observed endpoint that has received is given the same explicit session again.
CONSTANTS
  WordBits = 2
  MaxSequence = 3
  MaxField = 3
  MaxLength = 2
  Endpoints <- OnlyAlice
  Senders <- OnlyAlice
  Receivers <- OnlyAlice
  Managed = {}
  Observable <- OnlyAlice
  Ciphers <- WideCiphers
  Materials <- OneKey
  KeyIDs = {1}
  Protocols = {0}
  Payloads <- OnePayload
  SessionIDs = {1, 2}
  Configs <- Chosen
  InitialCiphers <- WithWide
  InitialKeys <- SharedKey
  Faults = {"EncryptionFailed"}
  ReuseSessions = TRUE
SPECIFICATION Spec
PROPERTY ResetsReported
