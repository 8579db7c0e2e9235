\* Two sessions of one sender with bitmaps that slide past their width, and
\* session 0.
CONSTANTS
  WordBits = 3
  Senders = {"a"}
  Keys = {"k"}
  Sessions = {0, 1, 2}
  MaxSequence = 6
  RequestedSizes = {0, 2, 9}
SPECIFICATION Spec
INVARIANTS TypeOK WindowExact IInv
PROPERTY ImplementsGuard
