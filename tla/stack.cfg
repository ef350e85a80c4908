CONSTANTS
  Thread = {t1, t2}
  Node = {n1, n2}
  Null = Null
  MaxTag = 6
SPECIFICATION FairSpec
INVARIANTS TypeOK StackIsList WalkIsList Exclusive NothingLost
PROPERTIES ImplementsAtomicStack Completes
