------------------------------ MODULE Numerals ------------------------------
(***************************************************************************)
(* Numbers and texts as the C library of the kernel turns one into the     *)
(* other: strtol of lib/strtol.c, itoa of lib/number.c, the %d of          *)
(* lib/print.c, and what include/string.h and ctype.h say of characters.   *)
(*                                                                         *)
(* A numeral is a sequence of digits 0 .. 9; a text is a sequence of       *)
(* characters.                                                             *)
(***************************************************************************)
EXTENDS Integers, Sequences

CONSTANTS
  Bits,           (* the width of an int and of a long                      *)
  Upper, Lower,   (* the letters isupper and islower find                   *)
  Fold(_)         (* 0x20 | c, of a letter                                  *)

MaxUnsigned == 2 ^ Bits - 1
MaxLong     == 2 ^ (Bits - 1) - 1

(* strtol of base 10, of a numeral without a sign. Once the number is more *)
(* than an unsigned long holds (cutoff, cutlim) it stays so; a number that *)
(* is too large is the largest.                                            *)
Capped(n, most) == IF n > most THEN most ELSE n
StrToL(ds) ==
  LET read[k \in 0 .. Len(ds)] ==
        IF k = 0 THEN 0 ELSE Capped(read[k - 1] * 10 + ds[k], MaxUnsigned + 1)
  IN  Capped(read[Len(ds)], MaxLong)

Atoi(ds) == StrToL(ds)

(* __itoaU_dec: from the highest power of ten the number reaches, which is *)
(* at most the 1000000000 it begins with, down to 1.                       *)
ItoaDec(n) ==
  IF n = 0 THEN <<0>>
  ELSE LET top == CHOOSE k \in 0 .. Bits : n \div 10 ^ k \in 1 .. 9
       IN  [j \in 1 .. top + 1 |-> (n \div 10 ^ (top + 1 - j)) % 10]

(* _itoaU, and vsprintf of %d: the argument is taken as an unsigned int,   *)
(* a negative one loses its sign.                                          *)
ItoaU(n)      == ItoaDec(n)
FormatD(n)    == ItoaU(n % (2 ^ Bits))

-----------------------------------------------------------------------------
(* isalpha asks for a letter that is both upper and lower case.            *)
IsAlpha(c) == c \in Upper /\ c \in Lower
ToLower(c) == IF IsAlpha(c) THEN Fold(c) ELSE c

(* strcmp is 0 when one of the strings has come to its end without a       *)
(* difference; strcasecmp is the same of ToLower of the characters.        *)
StrCmpIsZero(s, t) ==
  \A i \in DOMAIN s \cap DOMAIN t : s[i] = t[i]
StrCaseCmpIsZero(s, t) ==
  StrCmpIsZero([i \in DOMAIN s |-> ToLower(s[i])], [i \in DOMAIN t |-> ToLower(t[i])])

(* memset stores n without its last two bits, in words of four bytes: all  *)
(* that is more than three characters is written beyond the block.         *)
MemsetFits(n) == n < 4

=============================================================================
