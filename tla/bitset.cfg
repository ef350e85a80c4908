CONSTANTS
  Word = 3
  Sizes = {3, 4, 5, 6, 9}
SPECIFICATION Spec
INVARIANTS AgreesWithMembers IteratorMissesNone RawBitsAgree
