\* Two tasks and two slots: one may hold a view of either key, or be in the
\* middle of getting one, while the other replaces, removes or clears them.
CONSTANTS
  Threads = {t1, t2}
  Slots = {"j", "k"}
  Storages = {s1, s2, s3}
  None = None
SPECIFICATION Spec
INVARIANTS UsedNotErased KeyIInv
PROPERTIES ImplementsMap RetiredIsErased
