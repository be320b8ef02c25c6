CONSTANTS
  Bits = 8
  Buckets = 3
  Hash <- MCHash
  Fold <- MCFold
  Upper = {"A"}
  Lower = {"a", "b"}
  Texts <- MCTexts
  MaxTyped = 2
SPECIFICATION Spec
INVARIANTS TypeOK Interned KeywordsOnly ReadsBack FormsAgree LexicalScope
PROPERTY OnlyAllocates
CHECK_DEADLOCK FALSE
