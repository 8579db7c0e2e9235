\* Disabled endpoints with different limits, payloads that are too large for the
\* receiver or begin with the magic.
CONSTANTS
  WordBits = 2
  MaxSequence = 3
  MaxField = 3
  MaxLength = 2
  Endpoints <- Everyone
  Senders <- OnlyAlice
  Receivers <- OnlyBob
  Managed = {}
  Observable = {}
  Ciphers <- WideCiphers
  Materials <- OneKey
  KeyIDs = {1}
  Protocols = {0}
  Payloads <- AllPayloads
  SessionIDs = {1, 2}
  Configs <- Limited
  InitialCiphers <- WithWide
  InitialKeys <- SharedKey
  Faults = {"EncryptionFailed"}
  ReuseSessions = FALSE
SPECIFICATION Spec
INVARIANT PlaintextPromises
