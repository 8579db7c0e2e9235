\* Two keys that rotate, two implementations of an algorithm, and lengths that
\* exceed their fields.
CONSTANTS
  Ciphers <- TwoCiphers
  Materials <- TwoKeys
  Slots <- TwoSlots
  Payloads <- TwoPayloads
  Contexts = {"none", "purpose"}
  NoContext = "none"
  Garbage <- Damage
  Configs <- FourConfigs
  FieldModulus = 4
  SizeModulus = 4
  MaxRecords = 2
SPECIFICATION Spec
INVARIANTS TypeOK StaysReadable OutputVerified
PROPERTY ImplementsVault
