\* Two goroutines calling the hash table or the adaptive radix tree, every
\* method in any interleaving of their lock steps.
CONSTANTS
  Threads = {t1, t2}
  Keys = {k1, k2}
  IndexTypes <- MCLockedTypes
  None = None
SPECIFICATION Spec
INVARIANTS
  ILTypeOK
  NoDataRace
PROPERTY
  CallsReturn
