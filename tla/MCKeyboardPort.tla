--------------------------- MODULE MCKeyboardPort ---------------------------
EXTENDS KeyboardPort

CONSTANTS a, A, b, letter, other, dead, enter

MCKeys == {letter, other, dead, enter}
MCChars == {NUL, CR, NL, a, A, b}
(* One letter that shift changes, one key that is the same with it, one    *)
(* that has no character.                                                  *)
MCKeyMap == [k \in MCKeys |->
  CASE k = letter -> a [] k = other -> b [] k = dead -> NUL [] k = enter -> CR]
MCShiftMap == [MCKeyMap EXCEPT ![letter] = A]
=============================================================================
