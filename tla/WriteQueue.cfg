\* Three writes from as many goroutines and two concurrent calls of Close.
\* When every call has returned the system stops; a goroutine that is stuck is
\* what CallsReturn looks for.
SPECIFICATION FairSpec
CONSTANTS
  Calls = {c1, c2, c3}
  NoCall = NoCall
  Closers = {k1, k2}
CHECK_DEADLOCK FALSE
INVARIANTS
  TypeOK
  ClosesSafely
  AnswersTrue
  NoOvertaking
PROPERTIES
  ImplementsAtomicWrites
  CallsReturn
