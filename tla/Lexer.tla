-------------------------------- MODULE Lexer --------------------------------
(***************************************************************************)
(* The scanner of the reader, _make_token_seq of kscm/scheme/read.c: it    *)
(* takes characters from a port until it has an expression, and leaves     *)
(* tokens in _lex_token_buff.                                              *)
(*                                                                         *)
(* Characters are classes of characters the code treats alike, and a token *)
(* is its type: what is collected in _lex_scan_buff is left out. The text  *)
(* is written lexeme by lexeme by whoever is at the other end of the port. *)
(***************************************************************************)
EXTENDS Integers, Sequences, FiniteSets

CONSTANTS
  Lexemes,     (* what is written: the type of a token and its characters  *)
  MaxWritten   (* bound: the lexemes written during one read               *)

(* ( ) " # ' , @ . \ blank newline digit, the letters t and f, those of    *)
(* b o d x i e, and what else can be printed. ` goes with '.               *)
Chars == {"(", ")", "dquote", "#", "'", ",", "@", ".", "bslash",
          " ", "newline", "0", "t", "b", "a", "EOF"}
IsSpace(c) == c \in {" ", "newline"}
IsPrint(c) == c \notin {"newline", "EOF"}

Words == {"symbol", "number", "point"}
Types == Words \cup {"left_par", "right_par", "left_sharpar", "quote", "comma",
                     "comma_at", "true", "char", "string", "radix"}
Stale   == "stale"     (* a slot of the buffer this read did not write      *)
Illegal == "illegal"   (* a lexeme that is no token                         *)
Blank   == "blank"
NoChar  == "none"

-----------------------------------------------------------------------------
(* Where the members of S are in a sequence. *)
Among(s, S) == {k \in DOMAIN s : s[k] \in S}

(* How tokens are spelled. Numbers have at most one point; a symbol starts *)
(* with a letter, or is a number until a letter or a second point comes.   *)
Letters == {"t", "b", "a", "bslash"}
Digits(w) == Among(w, {"0"})
Points(w) == Among(w, {"."})

IsNumber(w) ==
  Digits(w) \cup Points(w) = DOMAIN w /\ Digits(w) # {} /\ \A i, j \in Points(w) : i = j

IsSymbol(w) ==
  /\ \A i \in DOMAIN w : w[i] \in Letters \cup {"0", ".", "@", "#"}
  /\ \/ w[1] \in Letters \cup {"@"}
     \/ w[1] = "0" /\ ((\E i \in DOMAIN w : w[i] \in Letters) \/ \E i, j \in Points(w) : i # j)

(* isprint(c) is (c) <= 0x7e && (c) >= 0x20, and the loops for strings and *)
(* characters give it c = scheme_port_get_char(port) for an argument: the  *)
(* character that is no more than 0x7e is gone when the next one is taken  *)
(* and compared. So every other one is kept, but the one behind a \ is     *)
(* taken as well. The text w, whose n-th character is the next to be kept, *)
(* goes up to the quote that ends it.                                      *)
IsText(w, n) ==
  \E kept \in SUBSET (1 .. Len(w)) :
    /\ {n, Len(w)} \subseteq kept
    /\ \A i \in kept :
         IF i = Len(w) THEN w[i] = "dquote"
         ELSE /\ IsPrint(w[i]) /\ w[i] # "dquote"
              /\ i + (IF w[i] = "bslash" THEN 3 ELSE 2) \in kept

(* The name of a character: it ends where the next one is to be kept.      *)
IsName(w, n) ==
  /\ (Len(w) + 1 - n) % 2 = 0
  /\ \A i \in n .. Len(w) : (i - n) % 2 = 0 => IsPrint(w[i]) /\ ~ IsSpace(w[i])

Spells(w, t) ==
  /\ t = "left_par"     => w = <<"(">>
  /\ t = "right_par"    => w = <<")">>
  /\ t = "left_sharpar" => w = <<"#", "(">>
  /\ t = "quote"        => w = <<"'">>
  /\ t = "comma"        => w = <<",">>
  /\ t = "comma_at"     => w = <<",", "@">>
  /\ t = "true"         => w = <<"#", "t">>
  /\ t = "radix"        => w = <<"#", "b">>
  /\ t = "point"        => w = <<".">>
  /\ t = "number"       => IsNumber(w)
  /\ t = "symbol"       => IsSymbol(w)
  /\ t = "string"       => w[1] = "dquote" /\ IsText(Tail(w), 2)
  /\ t = "char"         => Len(w) > 2 /\ w[1] = "#" /\ w[2] = "bslash" /\ IsName(Tail(Tail(w)), 2)

ASSUME LexerAssumption ==
  /\ \A l \in Lexemes : /\ l.type \in Types \cup {Illegal}
                        /\ l.chars \in Seq(Chars \ {"EOF"}) \ {<< >>}
                        /\ Spells(l.chars, l.type)
  /\ MaxWritten \in Nat

VARIABLES
  seq,      (* the types in _lex_token_buff[0 .. i - 1]                     *)
  slot,     (* the type in _lex_token_buff[i]                               *)
  inWord,   (* stat                                                         *)
  isfloat, stack,
  pc,       (* the loop that waits for a character, or "idle"               *)
  held,     (* the character goto __next_loop comes with                    *)
  rest,     (* what is left of the lexeme being written                     *)
  written,  (* the lexemes written in this read                             *)
  last,     (* the last of them, or a blank after it                        *)
  spoiled   (* the text is one the scanner does not take as it was written  *)

lexer  == <<seq, slot, inWord, isfloat, stack, pc>>
writer == <<rest, written, last, spoiled>>
vars   == <<lexer, held, writer>>

-----------------------------------------------------------------------------
(* How deep the text is in parentheses. *)
Opens  == {"left_par", "left_sharpar"}
Depth(s) ==
  Cardinality(Among(s, Opens)) - Cardinality(Among(s, {"right_par"}))

(* A token that is no form without the one behind it.                      *)
Announces(s, k) == k > 0 /\ s[k] \in {"quote", "comma", "comma_at"}

(* Texts the scanner takes for another: what is no token, a word or a      *)
(* character with something behind it that does not end it, a ')' too many,*)
(* a token that ends by itself where no parenthesis is open, and a number  *)
(* with a point where isfloat is left from one that no blank ended (358).  *)
Misread(l) ==
  \/ l.type = Illegal
  \/ last \in Words /\ l.type \notin {"right_par", "string"}
  \/ last = "char"
  \/ last = "comma" /\ l.chars[1] = "@"
  \/ Depth(written) <= 0 /\ l.type \in {"right_par", "true", "char", "string", "radix"}
  \/ isfloat /\ l.type = "number" /\ l.chars[1] # "." /\ Points(l.chars) # {}

(* The next character of the text. The port is at its end only where the   *)
(* scanner looks for it, and an expression cut off is not one. Behind a    *)
(* lexeme that is misread there are only blanks.                           *)
Write(c) ==
  \/ /\ rest # << >> /\ c = Head(rest)
     /\ rest' = Tail(rest)
     /\ UNCHANGED <<written, last, spoiled>>
  \/ /\ rest = << >> /\ IsSpace(c)
     /\ last' = Blank
     /\ UNCHANGED <<rest, written, spoiled>>
  \/ /\ rest = << >> /\ c = "EOF" /\ pc = "next"
     /\ last' = Blank
     /\ spoiled' = (spoiled \/ Depth(written) # 0 \/ Announces(written, Len(written)))
     /\ UNCHANGED <<rest, written>>
  \/ /\ rest = << >> /\ Len(written) < MaxWritten /\ ~ spoiled
     /\ \E l \in Lexemes :
          /\ c = Head(l.chars) /\ rest' = Tail(l.chars)
          /\ written' = Append(written, l.type)
          /\ last' = l.type
          /\ spoiled' = (spoiled \/ Misread(l))

(* scheme_port_get_char, or the character that was kept. *)
Get(c) ==
  \/ held # NoChar /\ c = held /\ held' = NoChar /\ UNCHANGED writer
  \/ held = NoChar /\ Write(c) /\ UNCHANGED held

Init ==
  /\ seq = << >> /\ slot = Stale /\ inWord = FALSE /\ isfloat = FALSE /\ stack = 0
  /\ pc = "idle" /\ held = NoChar
  /\ rest = << >> /\ written = << >> /\ last = Blank /\ spoiled = FALSE

StartRead ==
  /\ pc = "idle" /\ pc' = "next"
  /\ seq' = << >> /\ slot' = Stale
  /\ inWord' = FALSE /\ isfloat' = FALSE /\ stack' = 0
  /\ written' = << >> /\ last' = Blank /\ spoiled' = (rest # << >>)
  /\ UNCHANGED <<held, rest>>

-----------------------------------------------------------------------------
(* What _lex_token_buff[i].type == t finds. *)
IsSlot(t) == IF slot = Stale THEN BOOLEAN ELSE {slot = t}

(* The tokens, with the word that was being read. *)
Ended == IF inWord THEN Append(seq, slot) ELSE seq

(* A token of type t takes the slot, whatever is in it. *)
Token(t) == seq' = Append(seq, t) /\ slot' = Stale

Space ==
  /\ pc = "next" /\ \E c \in Chars : IsSpace(c) /\ Get(c)
  /\ seq' = Ended
  /\ slot' = IF inWord THEN Stale ELSE slot
  /\ inWord' = FALSE
  /\ isfloat' = (isfloat /\ ~ inWord)
  /\ pc' = IF inWord /\ stack = 0 THEN "idle" ELSE "next"
  /\ UNCHANGED stack

LeftPar ==
  /\ pc = "next" /\ Get("(")
  /\ Token("left_par")
  /\ inWord' = FALSE /\ stack' = stack + 1
  /\ UNCHANGED <<isfloat, pc>>

KeepingRightPar ==
  /\ pc = "next" /\ Get(")")
  /\ seq' = Append(Ended, "right_par") /\ slot' = Stale
  /\ stack' = stack - 1
  /\ pc' = IF stack = 1 THEN "idle" ELSE "next"
  /\ UNCHANGED <<inWord, isfloat>>

EarlyRightPar ==
  /\ pc = "next" /\ Get(")")
  /\ seq' = Append(Ended, "right_par") /\ slot' = Stale
  /\ inWord' = FALSE /\ stack' = stack - 1
  /\ pc' = "idle"
  /\ UNCHANGED isfloat

RightPar ==
  /\ pc = "next" /\ Get(")")
  /\ seq' = Append(Ended, "right_par") /\ slot' = Stale
  /\ inWord' = FALSE /\ stack' = stack - 1
  /\ pc' = IF stack = 1 THEN "idle" ELSE "next"
  /\ UNCHANGED isfloat

OpenString ==
  /\ pc = "next" /\ Get("dquote")
  /\ seq' = Append(Ended, "string") /\ slot' = Stale
  /\ inWord' = FALSE
  /\ pc' = "string"
  /\ UNCHANGED <<isfloat, stack>>

(* The character that is compared with 0x7e, and lost. *)
Skip ==
  /\ pc \in {"string", "char"}
  /\ \E c \in Chars : Get(c)
  /\ pc' = IF pc = "string" THEN "string_char" ELSE "char_char"
  /\ UNCHANGED <<seq, slot, inWord, isfloat, stack>>

(* A string ends at the quote it sees, or with the line. *)
InString ==
  /\ pc = "string_char"
  /\ \E c \in Chars :
       /\ Get(c)
       /\ pc' = IF c = "dquote" \/ ~ IsPrint(c) THEN "next"
                ELSE IF c = "bslash" THEN "escape" ELSE "string"
  /\ UNCHANGED <<seq, slot, inWord, isfloat, stack>>

Escape ==
  /\ pc = "escape" /\ pc' = "string" /\ \E c \in Chars : Get(c)
  /\ UNCHANGED <<seq, slot, inWord, isfloat, stack>>

Sharp ==
  /\ pc = "next" /\ Get("#")
  /\ pc' = IF inWord THEN "next" ELSE "sharp"
  /\ UNCHANGED <<seq, slot, inWord, isfloat, stack>>

AfterSharp ==
  /\ pc = "sharp"
  /\ \/ /\ Get("(")
        /\ Token("left_sharpar") /\ stack' = stack + 1 /\ pc' = "next"
     \/ /\ Get("t")
        /\ Token("true") /\ pc' = "next" /\ UNCHANGED stack
     \/ /\ Get("b")
        /\ Token("radix") /\ pc' = "next" /\ UNCHANGED stack
     \/ /\ Get("bslash")
        /\ Token("char") /\ pc' = "char" /\ UNCHANGED stack
     \/ /\ \E c \in Chars \ {"(", "t", "b", "bslash"} : Get(c)
        /\ pc' = "next" /\ UNCHANGED <<seq, slot, stack>>
  /\ UNCHANGED <<inWord, isfloat>>

InChar ==
  /\ pc = "char_char"
  /\ \E c \in Chars : Get(c) /\ pc' = IF IsSpace(c) \/ ~ IsPrint(c) THEN "next" ELSE "char"
  /\ UNCHANGED <<seq, slot, inWord, isfloat, stack>>

(* The word before it, if any, is not looked at, nor is stat. *)
Quote ==
  /\ pc = "next" /\ Get("'")
  /\ Token("quote")
  /\ UNCHANGED <<inWord, isfloat, stack, pc>>

Comma ==
  /\ pc = "next" /\ Get(",")
  /\ pc' = "comma"
  /\ UNCHANGED <<seq, slot, inWord, isfloat, stack>>

CommaAt ==
  /\ pc = "comma" /\ Get("@")
  /\ Token("comma_at") /\ pc' = "next"
  /\ UNCHANGED <<inWord, isfloat, stack>>

(* goto __next_loop *)
OnlyComma ==
  /\ pc = "comma" /\ \E c \in Chars \ {"@"} : Write(c) /\ held' = c
  /\ Token("comma") /\ pc' = "next"
  /\ UNCHANGED <<inWord, isfloat, stack>>

(* A character of a word, which may make the word another type. *)
At ==
  /\ pc = "next" /\ Get("@")
  /\ slot' = IF inWord THEN slot ELSE "symbol"
  /\ inWord' = TRUE
  /\ UNCHANGED <<seq, isfloat, stack, pc>>

Dot ==
  /\ pc = "next" /\ Get(".")
  /\ inWord' = TRUE
  /\ \E number \in IsSlot("number") :
       /\ slot' = IF ~ inWord THEN "point" ELSE IF isfloat THEN "symbol" ELSE slot
       /\ isfloat' = (isfloat \/ (inWord /\ number))
  /\ UNCHANGED <<seq, stack, pc>>

Digit ==
  /\ pc = "next" /\ Get("0")
  /\ inWord' = TRUE
  /\ \E point \in IsSlot("point") :
       /\ slot' = IF ~ inWord \/ point THEN "number" ELSE slot
       /\ isfloat' = (isfloat \/ (inWord /\ point))
  /\ UNCHANGED <<seq, stack, pc>>

LateLetter ==
  /\ pc = "next" /\ \E c \in {"t", "b", "a", "bslash"} : Get(c)
  /\ inWord' = TRUE
  /\ slot' = IF ~ inWord THEN "symbol" ELSE slot
  /\ UNCHANGED <<seq, isfloat, stack, pc>>

Letter ==
  /\ pc = "next" /\ \E c \in {"t", "b", "a", "bslash"} : Get(c)
  /\ inWord' = TRUE
  /\ \E number \in IsSlot("number") : slot' = IF ~ inWord \/ number THEN "symbol" ELSE slot
  /\ UNCHANGED <<seq, isfloat, stack, pc>>

End ==
  /\ pc = "next" /\ Get("EOF")
  /\ seq' = Ended
  /\ pc' = "idle"
  /\ UNCHANGED <<slot, inWord, isfloat, stack>>

Next ==
  \/ StartRead \/ Space \/ LeftPar \/ RightPar \/ OpenString \/ Skip \/ InString \/ Escape
  \/ Sharp \/ AfterSharp \/ InChar \/ Quote \/ Comma \/ CommaAt \/ OnlyComma
  \/ At \/ Dot \/ Digit \/ Letter \/ End

Spec == Init /\ [][Next]_vars

-----------------------------------------------------------------------------
(* The forms a sequence of tokens is made of: a token completes one when   *)
(* no parenthesis is open after it, unless it announces the form to come.  *)
Forms(s) ==
  {k \in 1 .. Len(s) : Depth(SubSeq(s, 1, k)) = 0 /\ ~ Announces(s, k)}

(***************************************************************************)
(* The types of the state. Slots below i were all written by this read, as *)
(* long as the text is one the scanner takes.                              *)
(***************************************************************************)
TypeOK ==
  /\ seq \in Seq(Types \cup {Stale}) /\ slot \in Words \cup {Stale}
  /\ inWord \in BOOLEAN /\ isfloat \in BOOLEAN /\ stack \in Int
  /\ pc \in {"idle", "next", "string", "string_char", "escape", "sharp", "char", "char_char", "comma"}
  /\ held \in Chars \cup {NoChar}
  /\ ~ spoiled => Stale \notin {seq[k] : k \in DOMAIN seq} /\ stack >= 0

(***************************************************************************)
(* A read leaves the tokens that were written, in that order: words end    *)
(* where they should, with or without a blank, and their types, which      *)
(* change while they are read, are right.                                  *)
(***************************************************************************)
TokensAsWritten == pc = "idle" /\ ~ spoiled => seq = written

(***************************************************************************)
(* It stops at the end of the first form, neither inside nor behind it.    *)
(***************************************************************************)
StopsAtForm ==
  pc = "idle" /\ ~ spoiled /\ seq # << >> => Forms(seq) = {Len(seq)}

=============================================================================
