\* One sender, one receiver, every policy: loss, duplication, reordering and
\* damage around a window of two positions, a session that can be exhausted,
\* plaintext between envelopes, a payload too long for the header and one that
\* begins with the magic, keys and ciphers that are missing or do not fit.
CONSTANTS
  WordBits = 3
  MaxSequence = 4
  MaxField = 3
  MaxLength = 1
  Endpoints <- Everyone
  Senders <- OnlyAlice
  Receivers <- OnlyBob
  Managed = {}
  Observable = {}
  Ciphers <- OneCipher
  Materials <- ManyKeys
  KeyIDs = {1, 2}
  Protocols = {0, 1}
  Payloads <- OddPayloads
  SessionIDs = {1}
  Configs <- Mixed
  InitialCiphers <- AllCiphers
  InitialKeys <- MisfitKey
  Faults = {"EncryptionFailed"}
  ReuseSessions = FALSE
SPECIFICATION Spec
INVARIANTS TypeOK AcceptsExactlyFresh OnlyAcceptedRemembered
PROPERTY ImplementsChannel
