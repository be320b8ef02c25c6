\* Reads of up to five lexemes.
CONSTANTS
  Lexemes <- MCLexemes
  MaxWritten = 5
SPECIFICATION Spec
INVARIANTS
  TypeOK
  TokensAsWritten
  StopsAtForm
