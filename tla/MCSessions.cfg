\* Two senders with the same sender identity that reconfigure and restart,
\* with sessions chosen by the application and drawn at random.
CONSTANTS
  WordBits = 2
  MaxSequence = 3
  MaxField = 3
  MaxLength = 2
  Endpoints <- Everyone
  Senders <- Everyone
  Receivers = {}
  Managed = {}
  Observable = {}
  Ciphers <- OneCipher
  Materials <- OneKey
  KeyIDs = {1}
  Protocols = {0}
  Payloads <- TwoPayloads
  SessionIDs = {1, 2, 3}
  Configs <- Restless
  InitialCiphers <- AllCiphers
  InitialKeys <- SharedKey
  Faults = {"RandomFailure"}
  ReuseSessions = FALSE
SPECIFICATION Spec
INVARIANTS SessionsClaimed NoIdentityReuse IdentityIInv
