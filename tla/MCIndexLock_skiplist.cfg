\* Two goroutines calling MySkipList: one in Iterator, which holds RLock and
\* takes it again in NewSkipListIterator's sl.Size(), and one in Put or
\* Delete.  The behaviour TLC reports ends with both goroutines blocked, so
\* the deadlock check is left to the liveness property it violates.
CONSTANTS
  Threads = {t1, t2}
  Keys = {k1}
  IndexTypes <- MCSkipList
  None = None
SPECIFICATION Spec
CHECK_DEADLOCK FALSE
PROPERTY
  CallsReturn
