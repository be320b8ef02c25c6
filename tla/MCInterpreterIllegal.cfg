CONSTANTS
  Bits = 8
  Buckets = 3
  Hash <- MCHash
  Fold <- MCFold
  Upper = {"A"}
  Lower = {"a", "b"}
  Texts <- MCTexts
  MaxTyped = 1
SPECIFICATION Spec
INVARIANT IllegalIsVoid
CHECK_DEADLOCK FALSE
