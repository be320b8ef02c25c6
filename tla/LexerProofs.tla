----------------------------- MODULE LexerProofs -----------------------------
(***************************************************************************)
(* Lexer leaves the tokens that were written, for texts of any length and  *)
(* any lexemes that are spelled as Spells says.                            *)
(***************************************************************************)
EXTENDS Lexer, FiniteSetTheorems, TLAPS

-----------------------------------------------------------------------------
(* Sequences of tokens: their depth and the forms in them. *)
Delta(t) == IF t \in Opens THEN 1 ELSE IF t = "right_par" THEN -1 ELSE 0

LEMMA AmongAppend ==
  ASSUME NEW S, NEW s \in Seq(S), NEW t \in S, NEW C
  PROVE  /\ IsFiniteSet(Among(s, C))
         /\ Cardinality(Among(s, C)) \in Nat
         /\ Cardinality(Among(Append(s, t), C)) = Cardinality(Among(s, C)) + (IF t \in C THEN 1 ELSE 0)
<1> DEFINE n == Len(s)
<1>1. n \in Nat /\ DOMAIN s = 1 .. n /\ DOMAIN Append(s, t) = 1 .. n + 1
  OBVIOUS
<1>2. Append(s, t)[n + 1] = t /\ \A k \in 1 .. n : Append(s, t)[k] = s[k]
  OBVIOUS
<1>3. IsFiniteSet(Among(s, C))
  <2>1. IsFiniteSet(1 .. n) /\ Among(s, C) \subseteq 1 .. n
    BY <1>1, FS_Interval DEF Among
  <2>2. QED
    BY <2>1, FS_Subset
<1>4. Among(Append(s, t), C) = IF t \in C THEN Among(s, C) \cup {n + 1} ELSE Among(s, C)
  BY <1>1, <1>2 DEF Among
<1>5. n + 1 \notin Among(s, C)
  BY <1>1 DEF Among
<1>6. Cardinality(Among(s, C)) \in Nat
  BY <1>3, FS_CardinalityType
<1>7. Cardinality(Among(s, C) \cup {n + 1}) = Cardinality(Among(s, C)) + 1
  BY <1>3, <1>5, FS_AddElement
<1>8. QED
  BY <1>3, <1>4, <1>6, <1>7

LEMMA DepthAppend ==
  ASSUME NEW S, NEW s \in Seq(S), NEW t \in S
  PROVE  Depth(s) \in Int /\ Depth(Append(s, t)) = Depth(s) + Delta(t)
<1> DEFINE count(u, C) == Cardinality(Among(u, C))
<1>1. \A C : count(s, C) \in Nat /\ count(Append(s, t), C) = count(s, C) + (IF t \in C THEN 1 ELSE 0)
  BY AmongAppend
<1>2. \A u : Depth(u) = count(u, Opens) - count(u, {"right_par"})
  BY DEF Depth
<1> HIDE DEF count
<1>3. QED
  BY <1>1, <1>2 DEF Delta, Opens

LEMMA DepthEmpty == Depth(<< >>) = 0
<1>1. Among(<< >>, Opens) = {} /\ Among(<< >>, {"right_par"}) = {}
  BY DEF Among
<1>2. Depth(<< >>) = Cardinality({}) - Cardinality({})
  BY <1>1, Zenon DEF Depth
<1>3. QED
  BY <1>2, FS_EmptySet

(* A token adds no form but the one it completes. *)
LEMMA FormsAppend ==
  ASSUME NEW S, NEW s \in Seq(S), NEW t \in S
  PROVE  Forms(Append(s, t)) =
           Forms(s) \cup (IF Depth(s) + Delta(t) = 0 /\ t \notin {"quote", "comma", "comma_at"}
                          THEN {Len(s) + 1} ELSE {})
<1> DEFINE n == Len(s)
           u == Append(s, t)
<1>1. n \in Nat /\ Len(u) = n + 1 /\ u[n + 1] = t /\ \A k \in 1 .. n : u[k] = s[k]
  OBVIOUS
<1>2. \A k \in 1 .. n : SubSeq(u, 1, k) = SubSeq(s, 1, k)
  OBVIOUS
<1>3. SubSeq(u, 1, n + 1) = u
  OBVIOUS
<1>4. Depth(u) = Depth(s) + Delta(t)
  BY DepthAppend
<1>5. \A k \in 1 .. n : Announces(u, k) <=> Announces(s, k)
  BY <1>1 DEF Announces
<1>6. Announces(u, n + 1) <=> t \in {"quote", "comma", "comma_at"}
  BY <1>1 DEF Announces
<1> HIDE DEF u, n
<1>7. \A k : k \in Forms(u) <=> \/ k \in Forms(s)
                                \/ k = n + 1 /\ Depth(s) + Delta(t) = 0 /\ t \notin {"quote", "comma", "comma_at"}
  <2>1. \A k : k \in Forms(s) <=> k \in 1 .. n /\ Depth(SubSeq(s, 1, k)) = 0 /\ ~ Announces(s, k)
    BY DEF Forms, n
  <2>2. \A k : k \in Forms(u) <=> k \in 1 .. n + 1 /\ Depth(SubSeq(u, 1, k)) = 0 /\ ~ Announces(u, k)
    BY <1>1 DEF Forms
  <2>3. \A k : k \in 1 .. n + 1 <=> k \in 1 .. n \/ k = n + 1
    BY <1>1
  <2>4. n + 1 \notin 1 .. n
    BY <1>1
  <2>5. QED
    BY <2>1, <2>2, <2>3, <2>4, <1>2, <1>3, <1>4, <1>5, <1>6
<1>8. QED
  BY <1>7 DEF u, n

LEMMA FormsEmpty == Forms(<< >>) = {}
  BY DEF Forms

-----------------------------------------------------------------------------
(* Words: one of slot s, where a point was read before if fl, becomes a    *)
(* token of type t once the characters r are read.                         *)
WordChars == Letters \cup {"0", ".", "@", "#"}

Becomes(s, fl, r, t) ==
  /\ s \in Words /\ r \in Seq(WordChars)
  /\ \/ r = << >> /\ s = t
     \/ t = "symbol" /\ s = "symbol"
     \/ /\ t = "symbol" /\ s = "number"
        /\ \/ \E i \in DOMAIN r : r[i] \in Letters
           \/ \E i \in DOMAIN r : fl /\ r[i] = "."
           \/ \E i, j \in DOMAIN r : r[i] = "." /\ r[j] = "." /\ i # j
     \/ /\ t = "number" /\ s = "number"
        /\ \A i \in DOMAIN r : r[i] = "0" \/ (r[i] = "." /\ ~ fl)
        /\ \A i, j \in DOMAIN r : r[i] = "." /\ r[j] = "." => i = j
     \/ /\ t = "number" /\ s = "point" /\ r # << >>
        /\ \A i \in DOMAIN r : r[i] = "0"

LEMMA TailOf ==
  ASSUME NEW S, NEW w \in Seq(S), w # << >>
  PROVE  /\ Head(w) = w[1] /\ w[1] \in S /\ Tail(w) \in Seq(S)
         /\ Len(w) \in Nat \ {0} /\ Len(Tail(w)) = Len(w) - 1
         /\ DOMAIN w = 1 .. Len(w) /\ DOMAIN Tail(w) = 1 .. Len(w) - 1
         /\ \A i \in 1 .. Len(w) - 1 : i + 1 \in 1 .. Len(w) /\ Tail(w)[i] = w[i + 1]
         /\ \A i \in 2 .. Len(w) : i - 1 \in 1 .. Len(w) - 1 /\ Tail(w)[i - 1] = w[i]
  OBVIOUS

LEMMA LenEmpty == ASSUME NEW S, NEW s \in Seq(S), Len(s) = 0 PROVE s = << >>
  OBVIOUS

(* What the characters of a word do to its slot and to isfloat. *)
SlotAfter(s, fl, c) ==
  IF (c = "." /\ fl) \/ (c \in Letters /\ s = "number") THEN "symbol"
  ELSE IF c = "0" /\ s = "point" THEN "number" ELSE s

FloatAfter(s, fl, c) == fl \/ (c = "." /\ s = "number") \/ (c = "0" /\ s = "point")

LEMMA BecomesOn ==
  ASSUME NEW s, NEW fl \in BOOLEAN, NEW r, NEW t, r # << >>, Becomes(s, fl, r, t)
  PROVE  /\ r[1] \in WordChars /\ t \in {"symbol", "number"}
         /\ Becomes(SlotAfter(s, fl, r[1]), FloatAfter(s, fl, r[1]), Tail(r), t)
<1> DEFINE c == r[1]
           u == Tail(r)
           n == Len(r)
<1>1. /\ r \in Seq(WordChars) /\ c \in WordChars /\ u \in Seq(WordChars) /\ n \in Nat \ {0}
      /\ DOMAIN r = 1 .. n /\ DOMAIN u = 1 .. n - 1
      /\ u = Tail(r) /\ \A i \in 1 .. n - 1 : i + 1 \in 1 .. n /\ u[i] = r[i + 1]
      /\ \A i \in 2 .. n : i - 1 \in 1 .. n - 1 /\ u[i - 1] = r[i]
  BY TailOf DEF Becomes
<1>2. \A i \in DOMAIN r : i = 1 \/ (i \in 2 .. n /\ i - 1 \in DOMAIN u /\ u[i - 1] = r[i])
  BY <1>1
<1>3. \A i \in DOMAIN u : i + 1 \in DOMAIN r /\ i + 1 # 1 /\ u[i] = r[i + 1]
  BY <1>1
<1> HIDE DEF u, n
<1>4. CASE s = "symbol"
  BY <1>1, <1>4 DEF Becomes, SlotAfter, Words, Letters, WordChars
<1>5. CASE s = "number" /\ t = "number"
  BY <1>1, <1>2, <1>3, <1>5 DEF Becomes, SlotAfter, FloatAfter, Words, Letters, WordChars
<1>6. CASE s = "number" /\ t = "symbol"
  <2>1. CASE c \in Letters \/ (c = "." /\ fl)
    BY <1>1, <1>6, <2>1 DEF Becomes, SlotAfter, Words, Letters
  <2>2. CASE c \notin Letters /\ ~ (c = "." /\ fl)
    <3>1. SlotAfter(s, fl, c) = "number" /\ (FloatAfter(s, fl, c) <=> fl \/ c = ".")
      BY <1>6, <2>2 DEF SlotAfter, FloatAfter
    <3>2. CASE \E i \in DOMAIN r : r[i] \in Letters
      <4>1. \E i \in DOMAIN u : u[i] \in Letters
        BY <1>2, <2>2, <3>2
      <4>2. QED
        BY <1>1, <1>6, <3>1, <4>1 DEF Becomes, Words
    <3>3. CASE fl /\ \E i \in DOMAIN r : r[i] = "."
      <4>1. \E i \in DOMAIN u : u[i] = "."
        BY <1>2, <2>2, <3>3
      <4>2. QED
        BY <1>1, <1>6, <3>1, <3>3, <4>1 DEF Becomes, Words
    <3>4. CASE \E i, j \in DOMAIN r : r[i] = "." /\ r[j] = "." /\ i # j
      <4>1. PICK i \in DOMAIN r, j \in DOMAIN r : r[i] = "." /\ r[j] = "." /\ i # j
        BY <3>4
      <4>2. CASE i = 1 \/ j = 1
        <5>1. c = "." /\ \E k \in DOMAIN u : u[k] = "."
          BY <1>2, <4>1, <4>2
        <5>2. QED
          BY <1>1, <1>6, <3>1, <5>1 DEF Becomes, Words
      <4>3. CASE i # 1 /\ j # 1
        <5>1. i - 1 \in DOMAIN u /\ j - 1 \in DOMAIN u /\ u[i - 1] = "." /\ u[j - 1] = "." /\ i - 1 # j - 1
          BY <1>1, <1>2, <4>1, <4>3
        <5>2. QED
          BY <1>1, <1>6, <3>1, <5>1 DEF Becomes, Words
      <4>4. QED
        BY <4>2, <4>3
    <3>5. QED
      BY <1>1, <1>6, <3>2, <3>3, <3>4 DEF Becomes
  <2>3. QED
    BY <2>1, <2>2
<1>7. CASE s = "point"
  <2>1. t = "number" /\ \A i \in DOMAIN r : r[i] = "0"
    BY <1>7 DEF Becomes
  <2>2. c = "0" /\ c \notin Letters /\ \A i \in DOMAIN u : u[i] = "0"
    BY <1>1, <1>3, <2>1 DEF Letters
  <2>3. SlotAfter(s, fl, c) = "number"
    BY <1>7, <2>2 DEF SlotAfter
  <2>4. QED
    BY <1>1, <2>1, <2>2, <2>3 DEF Becomes, Words
<1>8. QED
  BY <1>4, <1>5, <1>6, <1>7 DEF Becomes, Words, u

(* The first character of a word. *)
SlotFor(c) == IF c = "." THEN "point" ELSE IF c = "0" THEN "number" ELSE "symbol"

LEMMA WordBegins ==
  ASSUME NEW w \in Seq(Chars), w # << >>, NEW t \in Words, Spells(w, t), NEW fl \in BOOLEAN,
         ~ (fl /\ t = "number" /\ w[1] # "." /\ Points(w) # {})
  PROVE  w[1] \in WordChars \ {"#"} /\ Becomes(SlotFor(w[1]), fl, Tail(w), t)
<1> DEFINE c == w[1]
           u == Tail(w)
           n == Len(w)
<1>1. /\ u \in Seq(Chars) /\ n \in Nat \ {0} /\ Len(u) = n - 1
      /\ DOMAIN w = 1 .. n /\ DOMAIN u = 1 .. n - 1
      /\ \A i \in 1 .. n - 1 : i + 1 \in 1 .. n /\ u[i] = w[i + 1]
      /\ \A i \in 2 .. n : i - 1 \in 1 .. n - 1 /\ u[i - 1] = w[i]
  BY TailOf
<1>2. 1 \in DOMAIN w /\ \A i \in DOMAIN w : i = 1 \/ (i \in 2 .. n /\ i - 1 \in DOMAIN u /\ u[i - 1] = w[i])
  BY <1>1
<1>3. \A i \in DOMAIN u : i + 1 \in DOMAIN w /\ i + 1 # 1 /\ u[i] = w[i + 1]
  BY <1>1
<1>4. (\A i \in DOMAIN w : w[i] \in WordChars) => u \in Seq(WordChars)
  BY <1>1, <1>3
<1>5. CASE t = "point"
  <2>1. w = <<".">>
    BY <1>5 DEF Spells
  <2>2. c = "." /\ u = << >>
    BY <2>1
  <2>3. QED
    BY <1>5, <2>2 DEF Becomes, SlotFor, Words, WordChars
<1>6. CASE t = "number"
  <2>1. IsNumber(w)
    BY <1>6 DEF Spells
  <2>2. \A i \in DOMAIN w : w[i] \in {"0", "."}
    BY <2>1 DEF IsNumber, Digits, Points, Among
  <2>3. \A i, j \in DOMAIN w : w[i] = "." /\ w[j] = "." => i = j
    BY <2>1 DEF IsNumber, Points, Among
  <2>4. \E i \in DOMAIN w : w[i] = "0"
    BY <2>1 DEF IsNumber, Digits, Among
  <2>5. u \in Seq(WordChars)
    BY <1>4, <2>2 DEF WordChars
  <2> HIDE DEF u, n
  <2>6. CASE c = "."
    <3>1. \A i \in DOMAIN u : u[i] = "0"
      BY <1>2, <1>3, <2>2, <2>3, <2>6
    <3>2. u # << >>
      BY <1>1, <1>2, <2>4, <2>6
    <3>3. QED
      BY <1>6, <2>5, <2>6, <3>1, <3>2 DEF Becomes, SlotFor, Words, WordChars, u
  <2>7. CASE c = "0"
    <3>1. \A i \in DOMAIN u : u[i] \in {"0", "."}
      BY <1>3, <2>2
    <3>2. \A i, j \in DOMAIN u : u[i] = "." /\ u[j] = "." => i = j
      <4> SUFFICES ASSUME NEW i \in DOMAIN u, NEW j \in DOMAIN u, u[i] = ".", u[j] = "." PROVE i = j
        OBVIOUS
      <4>1. i + 1 = j + 1
        BY <1>3, <2>3
      <4>2. QED
        BY <1>1, <4>1
    <3>3. fl => \A i \in DOMAIN u : u[i] # "."
      BY <1>3, <1>6, <2>7 DEF Points, Among
    <3>4. QED
      BY <1>6, <2>5, <2>7, <3>1, <3>2, <3>3 DEF Becomes, SlotFor, Words, WordChars, u
  <2>8. QED
    BY <1>2, <2>2, <2>6, <2>7
<1>7. CASE t = "symbol"
  <2>1. IsSymbol(w)
    BY <1>7 DEF Spells
  <2>2. \A i \in DOMAIN w : w[i] \in WordChars
    BY <2>1 DEF IsSymbol, WordChars
  <2>3. u \in Seq(WordChars)
    BY <1>4, <2>2
  <2> HIDE DEF u, n
  <2>4. CASE c \in Letters \cup {"@"}
    BY <1>7, <2>3, <2>4 DEF Becomes, SlotFor, Words, WordChars, Letters, u
  <2>5. CASE c = "0" /\ \E i \in DOMAIN w : w[i] \in Letters
    <3>1. \E i \in DOMAIN u : u[i] \in Letters
      BY <1>2, <2>5 DEF Letters
    <3>2. QED
      BY <1>7, <2>3, <2>5, <3>1 DEF Becomes, SlotFor, Words, WordChars, u
  <2>6. CASE c = "0" /\ \E i, j \in Points(w) : i # j
    <3>1. PICK i \in Points(w), j \in Points(w) : i # j
      BY <2>6
    <3>2. i \in DOMAIN w /\ j \in DOMAIN w /\ w[i] = "." /\ w[j] = "." /\ i # 1 /\ j # 1
      BY <2>6 DEF Points, Among
    <3>3. i - 1 \in DOMAIN u /\ j - 1 \in DOMAIN u /\ u[i - 1] = "." /\ u[j - 1] = "." /\ i - 1 # j - 1
      BY <1>1, <1>2, <3>1, <3>2
    <3>4. QED
      BY <1>7, <2>3, <2>6, <3>3 DEF Becomes, SlotFor, Words, WordChars, u
  <2>7. QED
    BY <2>1, <2>4, <2>5, <2>6 DEF IsSymbol
<1>8. QED
  BY <1>5, <1>6, <1>7 DEF Words

-----------------------------------------------------------------------------
(* Strings and characters, one character further. *)
LEMMA TextOn ==
  ASSUME NEW w \in Seq(Chars), NEW n \in 1 .. 3, IsText(w, n)
  PROVE  /\ w # << >>
         /\ n # 1 => IsText(Tail(w), n - 1)
         /\ n = 1 => \/ w[1] = "dquote" /\ Tail(w) = << >>
                     \/ /\ IsPrint(w[1]) /\ w[1] # "dquote"
                        /\ IsText(Tail(w), IF w[1] = "bslash" THEN 3 ELSE 2)
<1> DEFINE m == Len(w)
           u == Tail(w)
<1>1. PICK kept \in SUBSET (1 .. m) :
        /\ n \in kept /\ m \in kept
        /\ \A i \in kept : IF i = m THEN w[i] = "dquote"
                           ELSE /\ IsPrint(w[i]) /\ w[i] # "dquote"
                                /\ i + (IF w[i] = "bslash" THEN 3 ELSE 2) \in kept
  BY DEF IsText
<1>2. m \in Nat /\ n \in 1 .. m
  BY <1>1
<1>3. w # << >>
  BY <1>2
<1>4. /\ u \in Seq(Chars) /\ Len(u) = m - 1
      /\ \A i \in 1 .. m - 1 : i + 1 \in 1 .. m /\ u[i] = w[i + 1]
  BY <1>3, TailOf
<1> DEFINE then == {j \in 1 .. m - 1 : j + 1 \in kept}
<1>5. ASSUME NEW k \in Nat \ {0}, k + 1 \in kept PROVE IsText(u, k)
  <2>1. k \in then /\ m - 1 \in then
    BY <1>1, <1>2, <1>5
  <2>2. ASSUME NEW i \in then
        PROVE  IF i = m - 1 THEN u[i] = "dquote"
               ELSE /\ IsPrint(u[i]) /\ u[i] # "dquote"
                    /\ i + (IF u[i] = "bslash" THEN 3 ELSE 2) \in then
    <3>1. i \in 1 .. m - 1 /\ i + 1 \in kept /\ u[i] = w[i + 1]
      BY <1>4
    <3>2. CASE i = m - 1
      BY <1>1, <1>2, <3>1, <3>2
    <3>3. CASE i # m - 1
      <4>1. IsPrint(u[i]) /\ u[i] # "dquote" /\ (i + 1) + (IF u[i] = "bslash" THEN 3 ELSE 2) \in kept
        BY <1>1, <1>2, <3>1, <3>3
      <4>2. QED
        BY <1>1, <1>2, <3>1, <3>3, <4>1
    <3>4. QED
      BY <3>2, <3>3
  <2>3. then \in SUBSET (1 .. Len(u)) /\ {k, Len(u)} \subseteq then
    BY <1>4, <2>1
  <2> HIDE DEF then, u, m
  <2>4. QED
    BY <1>4, <2>2, <2>3 DEF IsText
<1>6. CASE n # 1
  BY <1>3, <1>1, <1>5, <1>6
<1>7. CASE n = 1
  <2>1. CASE m = 1
    <3>1. w[1] = "dquote" /\ u = << >>
      <4>1. w[1] = "dquote"
        BY <1>1, <2>1
      <4>2. u \in Seq(Chars) /\ Len(u) = 0
        BY <1>4, <2>1
      <4>3. QED
        BY <4>1, <4>2, LenEmpty
    <3>2. QED
      BY <1>3, <1>7, <3>1
  <2>2. CASE m # 1
    <3>1. IsPrint(w[1]) /\ w[1] # "dquote" /\ 1 + (IF w[1] = "bslash" THEN 3 ELSE 2) \in kept
      BY <1>1, <1>7, <2>2
    <3>2. IsText(u, IF w[1] = "bslash" THEN 3 ELSE 2)
      BY <1>5, <3>1
    <3>3. QED
      BY <1>3, <1>7, <3>1, <3>2
  <2>3. QED
    BY <2>1, <2>2
<1>8. QED
  BY <1>6, <1>7

LEMMA NameOn ==
  ASSUME NEW w \in Seq(Chars), NEW n \in {1, 2}, IsName(w, n)
  PROVE  /\ n = 2 => w # << >> /\ IsName(Tail(w), 1)
         /\ n = 1 /\ w # << >> => IsPrint(w[1]) /\ ~ IsSpace(w[1]) /\ IsName(Tail(w), 2)
<1> DEFINE m == Len(w)
           u == Tail(w)
<1>1. m \in Nat /\ (m + 1 - n) % 2 = 0 /\ \A i \in n .. m : (i - n) % 2 = 0 => IsPrint(w[i]) /\ ~ IsSpace(w[i])
  BY DEF IsName
<1>2. n = 2 => w # << >>
  BY <1>1
<1>3. w # << >> => /\ Len(u) = m - 1 /\ m >= 1
                   /\ \A i \in 1 .. m - 1 : i + 1 \in 1 .. m /\ u[i] = w[i + 1]
  BY TailOf
<1>4. CASE n = 2
  <2>1. (Len(u) + 1 - 1) % 2 = 0
    BY <1>1, <1>2, <1>3, <1>4
  <2>2. ASSUME NEW i \in 1 .. Len(u), (i - 1) % 2 = 0 PROVE IsPrint(u[i]) /\ ~ IsSpace(u[i])
    <3>1. i + 1 \in n .. m /\ (i + 1) - n = i - 1 /\ u[i] = w[i + 1]
      BY <1>1, <1>2, <1>3, <1>4
    <3>2. QED
      BY <1>1, <2>2, <3>1
  <2>3. QED
    BY <1>2, <1>4, <2>1, <2>2 DEF IsName
<1>5. CASE n = 1 /\ w # << >>
  <2>1. IsPrint(w[1]) /\ ~ IsSpace(w[1])
    BY <1>1, <1>3, <1>5
  <2>2. (Len(u) + 1 - 2) % 2 = 0
    BY <1>1, <1>3, <1>5
  <2>3. ASSUME NEW i \in 2 .. Len(u), (i - 2) % 2 = 0 PROVE IsPrint(u[i]) /\ ~ IsSpace(u[i])
    <3>1. i + 1 \in n .. m /\ ((i + 1) - n) % 2 = 0 /\ u[i] = w[i + 1]
      BY <1>1, <1>3, <1>5, <2>3
    <3>2. QED
      BY <1>1, <3>1
  <2>4. QED
    BY <1>5, <2>1, <2>2, <2>3 DEF IsName
<1>6. QED
  BY <1>4, <1>5

-----------------------------------------------------------------------------
(* What a lexeme that is a token may be, by its first character. *)
LEMMA Begun ==
  ASSUME NEW l \in Lexemes, l.type # Illegal
  PROVE  LET c == l.chars[1]
             u == Tail(l.chars)
             t == l.type
         IN  /\ t \in Types /\ c \in Chars \ {"EOF"} /\ u \in Seq(Chars \ {"EOF"}) /\ ~ IsSpace(c)
             /\ c = "("      => t = "left_par" /\ u = << >>
             /\ c = ")"      => t = "right_par" /\ u = << >>
             /\ c = "'"      => t = "quote" /\ u = << >>
             /\ c = ","      => (t = "comma" /\ u = << >>) \/ (t = "comma_at" /\ u = <<"@">>)
             /\ c = "dquote" => t = "string" /\ IsText(u, 2)
             /\ c = "#"      => \/ t = "left_sharpar" /\ u = <<"(">>
                                \/ t = "true" /\ u = <<"t">>
                                \/ t = "radix" /\ u = <<"b">>
                                \/ /\ t = "char" /\ u # << >> /\ u[1] = "bslash"
                                   /\ IsName(Tail(u), 2)
             /\ c \in WordChars \ {"#"} =>
                  /\ t \in Words
                  /\ \A fl \in BOOLEAN :
                       \/ fl /\ t = "number" /\ c # "." /\ Points(l.chars) # {}
                       \/ Becomes(SlotFor(c), fl, u, t)
<1> DEFINE w == l.chars
           c == w[1]
           u == Tail(w)
           t == l.type
<1>1. t \in Types /\ w \in Seq(Chars \ {"EOF"}) /\ w # << >> /\ Spells(w, t)
  BY LexerAssumption
<1>2. w \in Seq(Chars) /\ c \in Chars \ {"EOF"} /\ u \in Seq(Chars \ {"EOF"})
  BY <1>1, TailOf
<1> HIDE DEF w, t
<1>3. CASE t \in {"left_par", "right_par", "quote", "comma"}
  <2>1. ASSUME NEW x, w = <<x>> PROVE c = x /\ u = << >>
    BY <2>1
  <2>2. /\ t = "left_par" => w = <<"(">>
        /\ t = "right_par" => w = <<")">>
        /\ t = "quote" => w = <<"'">>
        /\ t = "comma" => w = <<",">>
    BY <1>1 DEF Spells
  <2>3. /\ t = "left_par" => c = "("
        /\ t = "right_par" => c = ")"
        /\ t = "quote" => c = "'"
        /\ t = "comma" => c = ","
        /\ u = << >>
    BY <1>3, <2>1, <2>2
  <2> HIDE DEF c, u
  <2>4. QED
    BY <1>1, <1>2, <1>3, <2>3 DEF WordChars, Letters, IsSpace, w, t, c, u
<1>4. CASE t \in {"left_sharpar", "comma_at", "true", "radix"}
  <2>1. ASSUME NEW x, NEW y, w = <<x, y>> PROVE c = x /\ u = <<y>>
    BY <2>1
  <2>2. /\ t = "left_sharpar" => w = <<"#", "(">>
        /\ t = "comma_at" => w = <<",", "@">>
        /\ t = "true" => w = <<"#", "t">>
        /\ t = "radix" => w = <<"#", "b">>
    BY <1>1 DEF Spells
  <2>3. /\ t = "left_sharpar" => c = "#" /\ u = <<"(">>
        /\ t = "comma_at" => c = "," /\ u = <<"@">>
        /\ t = "true" => c = "#" /\ u = <<"t">>
        /\ t = "radix" => c = "#" /\ u = <<"b">>
    BY <1>4, <2>1, <2>2
  <2>4. QED
    BY <1>1, <1>2, <1>4, <2>3 DEF WordChars, Letters, IsSpace, w, t
<1>5. CASE t = "string"
  BY <1>1, <1>2, <1>5 DEF Spells, WordChars, Letters, IsSpace, w, t
<1>6. CASE t = "char"
  <2>1. Len(w) > 2 /\ c = "#" /\ w[2] = "bslash" /\ IsName(Tail(u), 2)
    BY <1>1, <1>6 DEF Spells
  <2>2. Len(u) = Len(w) - 1 /\ u[1] = w[1 + 1]
    BY <1>1, <2>1, TailOf
  <2>3. u # << >> /\ u[1] = "bslash"
    <3>1. Len(u) > 0 /\ u[1] = "bslash"
      BY <1>1, <2>1, <2>2
    <3> HIDE DEF u
    <3>2. QED
      BY <3>1
  <2>4. c = "#" /\ t = "char" /\ IsName(Tail(u), 2)
    BY <1>6, <2>1
  <2> HIDE DEF c, u
  <2>5. QED
    BY <1>1, <1>2, <2>3, <2>4 DEF WordChars, Letters, IsSpace, w, t, c, u
<1>7. CASE t \in Words
  <2>1. ASSUME NEW fl \in BOOLEAN, ~ (fl /\ t = "number" /\ c # "." /\ Points(w) # {})
        PROVE  c \in WordChars \ {"#"} /\ Becomes(SlotFor(c), fl, u, t)
    BY <1>1, <1>2, <1>7, <2>1, WordBegins
  <2>2. c \in WordChars \ {"#"}
    BY <2>1
  <2>3. QED
    BY <1>1, <1>2, <1>7, <2>1, <2>2 DEF WordChars, Letters, IsSpace, w, t
<1>8. QED
  BY <1>1, <1>3, <1>4, <1>5, <1>6, <1>7 DEF Types, Words

-----------------------------------------------------------------------------
(* The scanner and the writer, whatever was written. *)
Basic ==
  /\ seq \in Seq(Types \cup {Stale}) /\ slot \in Words \cup {Stale}
  /\ inWord \in BOOLEAN /\ isfloat \in BOOLEAN /\ stack \in Int
  /\ pc \in {"idle", "next", "string", "string_char", "escape", "sharp", "char", "char_char", "comma"}
  /\ held \in Chars \cup {NoChar}
  /\ pc # "next" => held = NoChar
  /\ rest \in Seq(Chars \ {"EOF"}) /\ written \in Seq(Types \cup {Illegal})
  /\ spoiled \in BOOLEAN

(* A lexeme the scanner takes for what it is, where it stands. *)
Readable(l) ==
  /\ l.type # Illegal
  /\ inWord => l.type \in {"right_par", "string"}
  /\ Depth(Ended) <= 0 => l.type \notin {"right_par", "true", "char", "string", "radix"}
  /\ ~ (isfloat /\ l.type = "number" /\ l.chars[1] # "." /\ Points(l.chars) # {})

(* How the tokens and what is left of the text make up what was written,   *)
(* in each of the loops.                                                   *)
InIdle == seq = written /\ (seq # << >> => Forms(seq) = {Len(seq)})

InWord ==
  /\ held = NoChar
  /\ last \in Words /\ written = Append(seq, last) /\ Becomes(slot, isfloat, rest, last)

InNext ==
  \/ held = NoChar /\ rest = << >> /\ seq = written
  \/ IsSpace(held) /\ rest = << >> /\ seq = written
  \/ \E l \in Lexemes : /\ Readable(l) /\ held = l.chars[1] /\ rest = Tail(l.chars)
                        /\ last = l.type /\ written = Append(seq, l.type)

InSharp ==
  \/ rest = <<"(">> /\ written = Append(seq, "left_sharpar")
  \/ rest = <<"t">> /\ written = Append(seq, "true") /\ stack > 0
  \/ rest = <<"b">> /\ written = Append(seq, "radix") /\ stack > 0
  \/ /\ rest # << >> /\ rest[1] = "bslash" /\ IsName(Tail(rest), 2)
     /\ written = Append(seq, "char") /\ last = "char" /\ stack > 0

InName == seq = written /\ last = "char" /\ IsName(rest, IF pc = "char" THEN 2 ELSE 1)

InText ==
  /\ seq = written
  /\ pc = "string_char" => IsText(rest, 1)
  /\ pc = "string"      => IsText(rest, 2)
  /\ pc = "escape"      => IsText(rest, 3)

InComma ==
  \/ rest = << >> /\ last = "comma" /\ written = Append(seq, "comma")
  \/ rest = <<"@">> /\ written = Append(seq, "comma_at")

Synced ==
  /\ seq \in Seq(Types) /\ stack \in Nat
  /\ pc # "idle" => stack = Depth(seq) /\ Forms(seq) = {}
  /\ pc \notin {"next", "idle"} => ~ inWord
  /\ pc = "idle" => InIdle
  /\ pc = "next" => IF inWord THEN InWord ELSE InNext
  /\ pc = "sharp" => InSharp
  /\ pc \in {"char", "char_char"} => InName
  /\ pc \in {"string", "string_char", "escape"} => InText
  /\ pc = "comma" => InComma

IInv == Basic /\ (~ spoiled => Synced)

LEMMA Initially == Init => IInv
<1> SUFFICES ASSUME Init PROVE IInv
  OBVIOUS
<1>1. Basic
  <2>1. /\ seq \in Seq(Types \cup {Stale}) /\ rest \in Seq(Chars \ {"EOF"}) /\ written \in Seq(Types \cup {Illegal})
        /\ slot \in Words \cup {Stale} /\ held \in Chars \cup {NoChar}
    BY DEF Init
  <2>2. inWord \in BOOLEAN /\ isfloat \in BOOLEAN /\ spoiled \in BOOLEAN
    BY DEF Init
  <2>3. stack \in Int /\ pc = "idle" /\ held = NoChar
    BY DEF Init
  <2>4. QED
    BY <2>1, <2>2, <2>3 DEF Basic
<1>2. Synced
  <2>1. seq \in Seq(Types) /\ stack \in Nat /\ pc = "idle" /\ seq = written /\ seq = << >>
    BY DEF Init
  <2>2. InIdle
    BY <2>1 DEF InIdle
  <2>3. QED
    BY <2>1, <2>2 DEF Synced
<1>3. QED
  BY <1>1, <1>2 DEF IInv

(* A blank is written without a lexeme, and nothing is behind a lexeme that *)
(* is misread but blanks.                                                  *)
LEMMA WriteBasic ==
  ASSUME Basic, NEW c, Write(c)
  PROVE  /\ c \in Chars
         /\ rest' \in Seq(Chars \ {"EOF"}) /\ written' \in Seq(Types \cup {Illegal}) /\ spoiled' \in BOOLEAN
         /\ spoiled => spoiled'
<1>1. CASE rest # << >> /\ c = Head(rest) /\ rest' = Tail(rest) /\ UNCHANGED <<written, last, spoiled>>
  BY <1>1, TailOf DEF Basic
<1>2. CASE IsSpace(c) /\ UNCHANGED <<rest, written, spoiled>>
  BY <1>2 DEF Basic, IsSpace, Chars
<1>3. CASE c = "EOF" /\ spoiled' = (spoiled \/ Depth(written) # 0 \/ Announces(written, Len(written)))
           /\ UNCHANGED <<rest, written>>
  <2>1. spoiled' \in BOOLEAN /\ (spoiled => spoiled')
    BY <1>3 DEF Basic
  <2>2. QED
    BY <1>3, <2>1 DEF Basic, Chars
<1>4. CASE \E l \in Lexemes : /\ c = Head(l.chars) /\ rest' = Tail(l.chars) /\ written' = Append(written, l.type)
                             /\ spoiled' = (spoiled \/ Misread(l))
  <2>1. PICK l \in Lexemes : /\ c = Head(l.chars) /\ rest' = Tail(l.chars) /\ written' = Append(written, l.type)
                             /\ spoiled' = (spoiled \/ Misread(l))
    BY <1>4
  <2>2. l.chars \in Seq(Chars \ {"EOF"}) /\ l.chars # << >> /\ l.type \in Types \cup {Illegal}
    BY LexerAssumption
  <2>3. c \in Chars /\ rest' \in Seq(Chars \ {"EOF"})
    BY <2>1, <2>2, TailOf
  <2>4. spoiled' \in BOOLEAN /\ (spoiled => spoiled')
    BY <2>1 DEF Basic
  <2>5. written' \in Seq(Types \cup {Illegal})
    BY <2>1, <2>2 DEF Basic
  <2>6. QED
    BY <2>3, <2>4, <2>5
<1>5. QED
  BY <1>1, <1>2, <1>3, <1>4 DEF Write

LEMMA GetBasic ==
  ASSUME Basic, NEW c, Get(c)
  PROVE  /\ c \in Chars /\ held' = NoChar
         /\ rest' \in Seq(Chars \ {"EOF"}) /\ written' \in Seq(Types \cup {Illegal}) /\ spoiled' \in BOOLEAN
         /\ spoiled => spoiled'
<1>1. CASE held # NoChar /\ c = held /\ held' = NoChar /\ UNCHANGED writer
  BY <1>1 DEF Basic, writer
<1>2. CASE held = NoChar /\ Write(c) /\ UNCHANGED held
  BY <1>2, WriteBasic
<1>3. QED
  BY <1>1, <1>2 DEF Get

LEMMA EndedBasic == Basic => Ended \in Seq(Types \cup {Stale})
  BY DEF Basic, Ended, Types

LEMMA AppendType ==
  ASSUME NEW s \in Seq(Types \cup {Stale}), NEW t \in Types
  PROVE  Append(s, t) \in Seq(Types \cup {Stale})
  OBVIOUS

(* What holds of the scanner after a step that takes a character. *)
LEMMA TakenBasic ==
  ASSUME Basic, NEW c, Get(c),
         seq' \in Seq(Types \cup {Stale}), slot' \in Words \cup {Stale},
         inWord' \in BOOLEAN, isfloat' \in BOOLEAN, stack' \in Int,
         pc' \in {"idle", "next", "string", "string_char", "escape", "sharp", "char", "char_char", "comma"}
  PROVE  Basic'
  BY GetBasic DEF Basic

LEMMA BasicNext == Basic /\ [Next]_vars => Basic'
<1> SUFFICES ASSUME Basic, [Next]_vars PROVE Basic'
  OBVIOUS
<1> USE DEF Words, Types
<1>0. /\ seq \in Seq(Types \cup {Stale}) /\ slot \in Words \cup {Stale}
      /\ inWord \in BOOLEAN /\ isfloat \in BOOLEAN /\ stack \in Int /\ Ended \in Seq(Types \cup {Stale})
      /\ pc \in {"idle", "next", "string", "string_char", "escape", "sharp", "char", "char_char", "comma"}
  BY EndedBasic DEF Basic
<1>1. CASE StartRead
  <2>1. /\ seq' = << >> /\ slot' = Stale /\ inWord' = FALSE /\ isfloat' = FALSE /\ stack' = 0
        /\ pc' = "next" /\ written' = << >> /\ held' = held /\ rest' = rest
    BY <1>1 DEF StartRead
  <2>2. spoiled' \in BOOLEAN
    BY <1>1 DEF StartRead
  <2>3. seq' \in Seq(Types \cup {Stale}) /\ written' \in Seq(Types \cup {Illegal})
    BY <2>1
  <2>4. inWord' \in BOOLEAN /\ isfloat' \in BOOLEAN
    BY <2>1
  <2>5. QED
    BY <2>1, <2>2, <2>3, <2>4 DEF Basic
<1>2. CASE Space
  <2>1. PICK c \in Chars : Get(c)
    BY <1>2 DEF Space
  <2>2. isfloat' = (isfloat /\ ~ inWord) /\ inWord' = FALSE
    BY <1>2 DEF Space
  <2>3. seq' = Ended /\ slot' \in {slot, Stale} /\ stack' = stack /\ pc' \in {"idle", "next"}
    BY <1>2 DEF Space
  <2>4. QED
    BY <1>0, <2>1, <2>2, <2>3, TakenBasic
<1>3. CASE LeftPar
  <2>1. /\ Get("(") /\ seq' = Append(seq, "left_par") /\ slot' = Stale /\ inWord' = FALSE
        /\ stack' = stack + 1 /\ UNCHANGED <<isfloat, pc>>
    BY <1>3 DEF LeftPar, Token
  <2>2. inWord' \in BOOLEAN
    <3>1. inWord' = FALSE
      BY <2>1
    <3>2. QED
      BY <3>1
  <2>3. seq' \in Seq(Types \cup {Stale}) /\ slot' \in Words \cup {Stale} /\ stack' \in Int
    BY <1>0, <2>1, AppendType
  <2>4. QED
    BY <1>0, <2>1, <2>2, <2>3, TakenBasic
<1>4. CASE RightPar
  <2>1. /\ Get(")") /\ seq' = Append(Ended, "right_par") /\ slot' = Stale /\ inWord' = FALSE
        /\ stack' = stack - 1 /\ pc' \in {"idle", "next"} /\ UNCHANGED isfloat
    BY <1>4 DEF RightPar
  <2>2. inWord' \in BOOLEAN
    <3>1. inWord' = FALSE
      BY <2>1
    <3>2. QED
      BY <3>1
  <2>3. seq' \in Seq(Types \cup {Stale}) /\ slot' \in Words \cup {Stale} /\ stack' \in Int
    BY <1>0, <2>1, AppendType
  <2>4. QED
    BY <1>0, <2>1, <2>2, <2>3, TakenBasic
<1>5. CASE OpenString
  <2>1. /\ Get("dquote") /\ seq' = Append(Ended, "string") /\ slot' = Stale /\ inWord' = FALSE
        /\ pc' = "string" /\ UNCHANGED <<isfloat, stack>>
    BY <1>5 DEF OpenString
  <2>2. inWord' \in BOOLEAN
    BY <2>1
  <2>3. seq' \in Seq(Types \cup {Stale})
    BY <1>0, <2>1, AppendType
  <2>4. QED
    BY <1>0, <2>1, <2>2, <2>3, TakenBasic
<1>6. CASE Skip
  <2>1. PICK c \in Chars : Get(c) /\ pc' \in {"string_char", "char_char"}
    BY <1>6 DEF Skip
  <2>2. UNCHANGED <<seq, slot, inWord, isfloat, stack>>
    BY <1>6 DEF Skip
  <2>3. QED
    BY <1>0, <2>1, <2>2, TakenBasic
<1>7. CASE InString
  <2>1. PICK c \in Chars : Get(c) /\ pc' \in {"next", "escape", "string"}
    BY <1>7 DEF InString
  <2>2. UNCHANGED <<seq, slot, inWord, isfloat, stack>>
    BY <1>7 DEF InString
  <2>3. QED
    BY <1>0, <2>1, <2>2, TakenBasic
<1>8. CASE Escape
  <2>1. PICK c \in Chars : Get(c) /\ pc' \in {"string"}
    BY <1>8 DEF Escape
  <2>2. UNCHANGED <<seq, slot, inWord, isfloat, stack>>
    BY <1>8 DEF Escape
  <2>3. QED
    BY <1>0, <2>1, <2>2, TakenBasic
<1>9. CASE Sharp
  BY <1>0, <1>9, TakenBasic DEF Sharp
<1>10. CASE AfterSharp
  <2>1. PICK c \in Chars : Get(c)
    <3>1. "(" \in Chars /\ "t" \in Chars /\ "b" \in Chars /\ "bslash" \in Chars
      BY DEF Chars
    <3>2. Get("(") \/ Get("t") \/ Get("b") \/ Get("bslash") \/ \E c \in Chars : Get(c)
      BY <1>10 DEF AfterSharp
    <3>3. QED
      BY <3>1, <3>2
  <2>2. /\ \/ UNCHANGED <<seq, slot>>
           \/ \E t \in Types : seq' = Append(seq, t) /\ slot' = Stale
        /\ stack' \in {stack, stack + 1} /\ pc' \in {"next", "char"} /\ UNCHANGED <<inWord, isfloat>>
    BY <1>10 DEF AfterSharp, Token
  <2>3. seq' \in Seq(Types \cup {Stale}) /\ slot' \in Words \cup {Stale}
    <3>1. CASE UNCHANGED <<seq, slot>>
      BY <1>0, <3>1
    <3>2. CASE \E t \in Types : seq' = Append(seq, t) /\ slot' = Stale
      BY <1>0, <3>2, AppendType
    <3>3. QED
      BY <2>2, <3>1, <3>2
  <2>4. stack' \in Int
    BY <1>0, <2>2
  <2>5. QED
    BY <1>0, <2>1, <2>2, <2>3, <2>4, TakenBasic
<1>11. CASE InChar
  BY <1>0, <1>11, TakenBasic DEF InChar
<1>12. CASE Quote
  BY <1>0, <1>12, TakenBasic DEF Quote, Token
<1>13. CASE Comma
  BY <1>0, <1>13, TakenBasic DEF Comma
<1>14. CASE CommaAt
  BY <1>0, <1>14, TakenBasic DEF CommaAt, Token
<1>15. CASE OnlyComma
  <2>1. PICK c \in Chars \ {"@"} : Write(c) /\ held' = c
    BY <1>15 DEF OnlyComma
  <2>2. /\ rest' \in Seq(Chars \ {"EOF"}) /\ written' \in Seq(Types \cup {Illegal}) /\ spoiled' \in BOOLEAN
    BY <2>1, WriteBasic
  <2>3. seq' \in Seq(Types \cup {Stale}) /\ slot' = Stale /\ pc' = "next" /\ UNCHANGED <<inWord, isfloat, stack>>
    BY <1>0, <1>15 DEF OnlyComma, Token
  <2>4. QED
    BY <1>0, <2>1, <2>2, <2>3 DEF Basic
<1>16. CASE At
  <2>1. slot' \in Words \cup {Stale}
    BY <1>0, <1>16 DEF At
  <2>2. QED
    BY <1>0, <1>16, <2>1, TakenBasic DEF At
<1>17. CASE Dot
  <2>1. slot' \in Words \cup {Stale} /\ isfloat' \in BOOLEAN
    BY <1>0, <1>17 DEF Dot
  <2>2. QED
    BY <1>0, <1>17, <2>1, TakenBasic DEF Dot
<1>18. CASE Digit
  <2>1. slot' \in Words \cup {Stale} /\ isfloat' \in BOOLEAN
    BY <1>0, <1>18 DEF Digit
  <2>2. QED
    BY <1>0, <1>18, <2>1, TakenBasic DEF Digit
<1>19. CASE Letter
  <2>1. slot' \in Words \cup {Stale}
    BY <1>0, <1>19 DEF Letter
  <2>2. QED
    BY <1>0, <1>19, <2>1, TakenBasic DEF Letter
<1>20. CASE End
  BY <1>0, <1>20, TakenBasic DEF End
<1>21. CASE UNCHANGED vars
  BY <1>21 DEF vars, lexer, writer, Basic
<1>22. QED
  BY <1>1, <1>2, <1>3, <1>4, <1>5, <1>6, <1>7, <1>8, <1>9, <1>10, <1>11, <1>12, <1>13, <1>14,
     <1>15, <1>16, <1>17, <1>18, <1>19, <1>20, <1>21 DEF Next

-----------------------------------------------------------------------------
(* The tokens with the word that is read, which completes a form where no  *)
(* parenthesis is open.                                                    *)
LEMMA EndedSynced ==
  ASSUME Basic, Synced, pc = "next"
  PROVE  /\ Ended \in Seq(Types) /\ Depth(Ended) = stack /\ stack \in Nat
         /\ Forms(Ended) = IF inWord /\ stack = 0 THEN {Len(Ended)} ELSE {}
         /\ inWord => slot \in Words
<1>1. seq \in Seq(Types) /\ stack \in Nat /\ stack = Depth(seq) /\ Forms(seq) = {}
  BY DEF Synced
<1>2. CASE inWord
  <2>1. slot \in Words /\ Ended = Append(seq, slot) /\ slot \in Types
    BY <1>2 DEF Synced, InWord, Becomes, Ended, Types
  <2>2. Delta(slot) = 0 /\ slot \notin {"quote", "comma", "comma_at"}
    BY <2>1 DEF Delta, Opens, Words
  <2>3. Depth(Ended) = stack
    BY <1>1, <2>1, <2>2, DepthAppend
  <2>4. Ended \in Seq(Types) /\ Len(Ended) = Len(seq) + 1
    BY <1>1, <2>1
  <2>5. Forms(Ended) = {} \cup (IF stack = 0 THEN {Len(seq) + 1} ELSE {})
    BY <1>1, <2>1, <2>2, FormsAppend
  <2>6. QED
    BY <1>1, <1>2, <2>1, <2>3, <2>4, <2>5
<1>3. CASE ~ inWord
  BY <1>1, <1>3 DEF Ended
<1>4. QED
  BY <1>2, <1>3

(* What the next character is: one within a word, a blank, the end of the  *)
(* port, or the first of a lexeme.                                         *)
Within(c) ==
  /\ inWord /\ rest # << >> /\ c = rest[1] /\ rest' = Tail(rest)
  /\ UNCHANGED <<written, last>>
  /\ c \in WordChars

Blanks(c) == IsSpace(c) /\ rest' = << >> /\ written' = Ended

AtEnd(c) ==
  /\ c = "EOF" /\ rest' = << >> /\ written' = Ended
  /\ stack = 0 /\ ~ Announces(Ended, Len(Ended))

Begins(c, l) ==
  /\ Readable(l) /\ c = l.chars[1] /\ rest' = Tail(l.chars)
  /\ written' = Append(Ended, l.type) /\ last' = l.type

LEMMA NextChar ==
  ASSUME IInv, pc = "next", NEW c, Get(c), ~ spoiled'
  PROVE  /\ Synced
         /\ Within(c) \/ Blanks(c) \/ AtEnd(c) \/ \E l \in Lexemes : Begins(c, l)
<1>1. Basic /\ Synced
  BY GetBasic DEF IInv
<1>2. inWord => held = NoChar /\ last \in Words /\ written = Append(seq, last) /\ Becomes(slot, isfloat, rest, last)
  BY <1>1 DEF Synced, InWord
<1>3. ~ inWord => InNext
  BY <1>1 DEF Synced
<1>4. inWord /\ rest = << >> => slot = last
  BY <1>2 DEF Becomes
<1>5. rest = << >> /\ held = NoChar => written = Ended
  <2>1. CASE inWord
    BY <1>2, <1>4, <2>1 DEF Ended
  <2>2. CASE ~ inWord /\ rest = << >> /\ held = NoChar
    <3>1. \A l \in Lexemes : l.type # Illegal => l.chars[1] # NoChar
      BY Begun DEF Chars, NoChar
    <3>2. ~ IsSpace(NoChar)
      BY DEF IsSpace, NoChar
    <3>3. seq = written
      BY <1>3, <2>2, <3>1, <3>2 DEF InNext, Readable
    <3>4. QED
      BY <2>2, <3>3 DEF Ended
  <2>3. QED
    BY <2>1, <2>2
<1>6. CASE held # NoChar /\ c = held /\ UNCHANGED writer
  <2>1. ~ inWord /\ Ended = seq /\ rest' = rest /\ written' = written /\ last' = last
    BY <1>2, <1>6 DEF Ended, writer
  <2>2. CASE IsSpace(held) /\ rest = << >> /\ seq = written
    BY <1>1, <1>6, <2>1, <2>2 DEF Blanks
  <2>3. CASE \E l \in Lexemes : /\ Readable(l) /\ held = l.chars[1] /\ rest = Tail(l.chars)
                               /\ last = l.type /\ written = Append(seq, l.type)
    BY <1>1, <1>6, <2>1, <2>3 DEF Begins
  <2>4. QED
    BY <1>3, <1>6, <2>1, <2>2, <2>3 DEF InNext
<1>7. CASE held = NoChar /\ Write(c)
  <2>1. CASE rest # << >> /\ c = Head(rest) /\ rest' = Tail(rest) /\ UNCHANGED <<written, last, spoiled>>
    <3>1. inWord
      <4>1. \A l \in Lexemes : l.type # Illegal => l.chars[1] # NoChar
        BY Begun DEF Chars, NoChar
      <4>2. QED
        BY <1>3, <1>7, <2>1, <4>1 DEF InNext, Readable
    <3>2. rest[1] \in WordChars
      BY <1>1, <1>2, <2>1, <3>1, BecomesOn DEF Basic
    <3>3. c = rest[1]
      BY <2>1
    <3>4. QED
      BY <1>1, <2>1, <3>1, <3>2, <3>3 DEF Within
  <2>2. CASE rest = << >> /\ IsSpace(c) /\ UNCHANGED <<rest, written, spoiled>>
    BY <1>1, <1>5, <1>7, <2>2 DEF Blanks
  <2>3. CASE /\ rest = << >> /\ c = "EOF" /\ UNCHANGED <<rest, written>>
             /\ spoiled' = (spoiled \/ Depth(written) # 0 \/ Announces(written, Len(written)))
    BY <1>1, <1>5, <1>7, <2>3, EndedSynced DEF AtEnd
  <2>4. CASE /\ rest = << >>
             /\ \E l \in Lexemes : /\ c = Head(l.chars) /\ rest' = Tail(l.chars)
                                  /\ written' = Append(written, l.type) /\ last' = l.type
                                  /\ spoiled' = (spoiled \/ Misread(l))
    <3>1. PICK l \in Lexemes : /\ c = Head(l.chars) /\ rest' = Tail(l.chars)
                              /\ written' = Append(written, l.type) /\ last' = l.type
                              /\ spoiled' = (spoiled \/ Misread(l))
      BY <2>4
    <3>2. written = Ended /\ ~ Misread(l)
      BY <1>5, <1>7, <2>4, <3>1
    <3>3. c = l.chars[1]
      BY <3>1, LexerAssumption
    <3>4. Readable(l)
      BY <1>2, <3>2 DEF Readable, Misread
    <3>5. QED
      BY <1>1, <3>1, <3>2, <3>3, <3>4 DEF Begins
  <2>5. QED
    BY <1>7, <2>1, <2>2, <2>3, <2>4 DEF Write
<1>8. QED
  BY <1>6, <1>7 DEF Get

-----------------------------------------------------------------------------
(* What a step leaves between two lexemes, and at the end of a read. *)
LEMMA SyncedBetween ==
  ASSUME pc' = "next", ~ inWord', held' = NoChar, rest' = << >>, seq' = written',
         seq' \in Seq(Types), stack' \in Nat, stack' = Depth(seq'), Forms(seq') = {}
  PROVE  Synced'
  BY DEF Synced, InNext, Depth, Forms, Announces

LEMMA SyncedIdle ==
  ASSUME pc' = "idle", seq' = written', seq' \in Seq(Types), stack' \in Nat,
         seq' # << >> => Forms(seq') = {Len(seq')}
  PROVE  Synced'
  BY DEF Synced, InIdle, Forms, Depth, Announces

(* A token behind the tokens and the word that is read. *)
LEMMA TokenSynced ==
  ASSUME IInv, Synced, pc = "next", NEW t \in Types \ Words
  PROVE  /\ Append(Ended, t) \in Seq(Types) /\ Depth(Append(Ended, t)) = stack + Delta(t)
         /\ Len(Append(Ended, t)) = Len(Ended) + 1
         /\ ~ (inWord /\ stack = 0) =>
              Forms(Append(Ended, t)) = IF stack + Delta(t) = 0 /\ t \notin {"quote", "comma", "comma_at"}
                                        THEN {Len(Ended) + 1} ELSE {}
<1>1. /\ Ended \in Seq(Types) /\ Depth(Ended) = stack /\ stack \in Nat
      /\ Forms(Ended) = IF inWord /\ stack = 0 THEN {Len(Ended)} ELSE {}
  BY EndedSynced DEF IInv
<1>2. Append(Ended, t) \in Seq(Types) /\ Len(Append(Ended, t)) = Len(Ended) + 1
  BY <1>1
<1>3. Depth(Append(Ended, t)) = stack + Delta(t)
  BY <1>1, DepthAppend
<1>4. Forms(Append(Ended, t)) =
        Forms(Ended) \cup (IF stack + Delta(t) = 0 /\ t \notin {"quote", "comma", "comma_at"}
                           THEN {Len(Ended) + 1} ELSE {})
  BY <1>1, FormsAppend
<1>5. QED
  BY <1>1, <1>2, <1>3, <1>4

LEMMA SpaceSynced == ASSUME IInv, Space, ~ spoiled' PROVE Synced'
<1>1. PICK c \in Chars : IsSpace(c) /\ Get(c)
  BY DEF Space
<1>2. Synced /\ Blanks(c)
  <2>1. c \notin WordChars /\ c # "EOF"
    BY <1>1 DEF IsSpace, WordChars, Letters
  <2>2. \A l \in Lexemes : ~ Begins(c, l)
    BY <1>1, Begun DEF Begins, Readable
  <2>3. QED
    BY <1>1, <2>1, <2>2, NextChar DEF Space, Within, AtEnd
<1>3. /\ Ended \in Seq(Types) /\ Depth(Ended) = stack /\ stack \in Nat
      /\ Forms(Ended) = IF inWord /\ stack = 0 THEN {Len(Ended)} ELSE {}
  BY <1>2, EndedSynced DEF IInv, Space
<1>4. seq' = Ended /\ written' = Ended /\ rest' = << >> /\ stack' = stack /\ held' = NoChar
  BY <1>1, <1>2, GetBasic DEF Space, Blanks, IInv
<1>5. CASE inWord /\ stack = 0
  BY <1>3, <1>4, <1>5, SyncedIdle DEF Space
<1>6. CASE ~ (inWord /\ stack = 0)
  <2>1. pc' = "next" /\ ~ inWord'
    BY <1>6 DEF Space
  <2>2. QED
    BY <1>3, <1>4, <1>6, <2>1, SyncedBetween
<1>7. QED
  BY <1>5, <1>6

(* A lexeme that is no word begins. *)
LEMMA NextLexeme ==
  ASSUME IInv, pc = "next", NEW c, Get(c), ~ spoiled', ~ IsSpace(c), c # "EOF", c \notin WordChars
  PROVE  Synced /\ \E l \in Lexemes : Begins(c, l)
  BY NextChar DEF Within, Blanks, AtEnd

LEMMA LeftParSynced == ASSUME IInv, LeftPar, ~ spoiled' PROVE Synced'
<1>1. Synced /\ \E l \in Lexemes : Begins("(", l)
  BY NextLexeme DEF LeftPar, IsSpace, WordChars, Letters
<1>2. PICK l \in Lexemes : Begins("(", l)
  BY <1>1
<1>3. l.type = "left_par" /\ rest' = << >> /\ ~ inWord
  BY <1>2, Begun DEF Begins, Readable
<1>4. Ended = seq /\ seq' = Append(seq, "left_par") /\ written' = seq' /\ stack' = stack + 1 /\ held' = NoChar
  BY <1>2, <1>3, GetBasic DEF Begins, LeftPar, Token, Ended, IInv
<1>5. stack \in Nat /\ Delta("left_par") = 1
  BY <1>1 DEF Synced, Delta, Opens
<1>6. seq' \in Seq(Types) /\ Depth(seq') = stack' /\ Forms(seq') = {} /\ stack' \in Nat
  BY <1>1, <1>3, <1>4, <1>5, TokenSynced DEF LeftPar, Types, Words
<1>7. pc' = "next" /\ ~ inWord'
  BY DEF LeftPar
<1>8. QED
  BY <1>3, <1>4, <1>6, <1>7, SyncedBetween

LEMMA RightParSynced == ASSUME IInv, RightPar, ~ spoiled' PROVE Synced'
<1>1. Synced /\ \E l \in Lexemes : Begins(")", l)
  BY NextLexeme DEF RightPar, IsSpace, WordChars, Letters
<1>2. PICK l \in Lexemes : Begins(")", l)
  BY <1>1
<1>3. l.type = "right_par" /\ rest' = << >> /\ ~ (Depth(Ended) <= 0)
  BY <1>2, Begun DEF Begins, Readable
<1>4. stack \in Nat /\ stack > 0
  BY <1>1, <1>3, EndedSynced DEF IInv, RightPar
<1>5. seq' = Append(Ended, "right_par") /\ written' = seq' /\ stack' = stack - 1 /\ held' = NoChar
  BY <1>2, <1>3, GetBasic DEF Begins, RightPar, IInv
<1>6. Delta("right_par") = -1 /\ "right_par" \in Types \ Words
  BY DEF Delta, Opens, Types, Words
<1>7. /\ seq' \in Seq(Types) /\ Depth(seq') = stack' /\ stack' \in Nat
      /\ Forms(seq') = IF stack' = 0 THEN {Len(seq')} ELSE {}
  BY <1>1, <1>4, <1>5, <1>6, TokenSynced DEF RightPar
<1>8. ~ inWord' /\ pc' = IF stack' = 0 THEN "idle" ELSE "next"
  BY <1>4, <1>5 DEF RightPar
<1>9. QED
  BY <1>3, <1>5, <1>7, <1>8, SyncedBetween, SyncedIdle

LEMMA QuoteSynced == ASSUME IInv, Quote, ~ spoiled' PROVE Synced'
<1>1. Synced /\ \E l \in Lexemes : Begins("'", l)
  BY NextLexeme DEF Quote, IsSpace, WordChars, Letters
<1>2. PICK l \in Lexemes : Begins("'", l)
  BY <1>1
<1>3. l.type = "quote" /\ rest' = << >> /\ ~ inWord
  BY <1>2, Begun DEF Begins, Readable
<1>4. Ended = seq /\ seq' = Append(seq, "quote") /\ written' = seq' /\ stack' = stack /\ held' = NoChar
  BY <1>2, <1>3, GetBasic DEF Begins, Quote, Token, Ended, IInv
<1>5. stack \in Nat /\ Delta("quote") = 0
  BY <1>1 DEF Synced, Delta, Opens
<1>6. seq' \in Seq(Types) /\ Depth(seq') = stack' /\ Forms(seq') = {} /\ stack' \in Nat
  BY <1>1, <1>3, <1>4, <1>5, TokenSynced DEF Quote, Types, Words
<1>7. pc' = "next" /\ ~ inWord'
  BY <1>3 DEF Quote
<1>8. QED
  BY <1>3, <1>4, <1>6, <1>7, SyncedBetween

(* Strings. *)
LEMMA SyncedText ==
  ASSUME pc' \in {"string", "string_char", "escape"}, ~ inWord', held' = NoChar, seq' = written',
         seq' \in Seq(Types), stack' \in Nat, stack' = Depth(seq'), Forms(seq') = {},
         NEW n \in 1 .. 3, IsText(rest', n),
         n = 1 => pc' = "string_char", n = 2 => pc' = "string", n = 3 => pc' = "escape"
  PROVE  Synced'
<1>1. InText'
  BY DEF InText, IsText, IsPrint
<1>2. QED
  BY <1>1 DEF Synced, Depth, Forms, Announces

LEMMA OpenStringSynced == ASSUME IInv, OpenString, ~ spoiled' PROVE Synced'
<1>1. Synced /\ \E l \in Lexemes : Begins("dquote", l)
  BY NextLexeme DEF OpenString, IsSpace, WordChars, Letters
<1>2. PICK l \in Lexemes : Begins("dquote", l)
  BY <1>1
<1>3. l.type = "string" /\ IsText(rest', 2) /\ ~ (Depth(Ended) <= 0)
  BY <1>2, Begun DEF Begins, Readable
<1>4. stack \in Nat /\ stack > 0
  BY <1>1, <1>3, EndedSynced DEF IInv, OpenString
<1>5. seq' = Append(Ended, "string") /\ written' = seq' /\ stack' = stack /\ held' = NoChar
  BY <1>2, <1>3, GetBasic DEF Begins, OpenString, IInv
<1>6. Delta("string") = 0 /\ "string" \in Types \ Words
  BY DEF Delta, Opens, Types, Words
<1>7. seq' \in Seq(Types) /\ Depth(seq') = stack' /\ stack' \in Nat /\ Forms(seq') = {}
  BY <1>1, <1>4, <1>5, <1>6, TokenSynced DEF OpenString
<1>8. ~ inWord' /\ pc' = "string"
  BY DEF OpenString
<1>9. QED
  BY <1>3, <1>5, <1>7, <1>8, SyncedText

(* A character that is taken in the middle of a lexeme. *)
LEMMA RestTaken ==
  ASSUME IInv, pc # "next", NEW c, Get(c), ~ spoiled'
  PROVE  /\ Synced /\ held' = NoChar /\ rest \in Seq(Chars)
         /\ rest # << >> => c = rest[1] /\ rest' = Tail(rest) /\ UNCHANGED <<written, last>>
<1>1. held = NoChar /\ Write(c) /\ held' = NoChar
  BY DEF IInv, Basic, Get
<1>2. Synced /\ rest \in Seq(Chars)
  BY GetBasic DEF IInv, Basic
<1>3. rest # << >> => c = Head(rest) /\ rest' = Tail(rest) /\ UNCHANGED <<written, last>>
  BY <1>1 DEF Write
<1>4. QED
  BY <1>1, <1>2, <1>3

LEMMA SkipStringSynced == ASSUME IInv, Skip, pc = "string", ~ spoiled' PROVE Synced'
<1>1. PICK c \in Chars : Get(c)
  BY DEF Skip
<1>2. Synced /\ held' = NoChar /\ rest \in Seq(Chars)
      /\ (rest # << >> => rest' = Tail(rest) /\ written' = written)
  BY <1>1, RestTaken
<1>3. InText /\ IsText(rest, 2)
  BY <1>2 DEF Synced, InText
<1>4. rest # << >> /\ IsText(Tail(rest), 1)
  <2>1. \A n \in 1 .. 3 : IsText(rest, n) /\ n # 1 => rest # << >> /\ IsText(Tail(rest), n - 1)
    BY <1>2, TextOn
  <2>2. 2 \in 1 .. 3 /\ 2 # 1 /\ 2 - 1 = 1
    OBVIOUS
  <2>3. QED
    BY <1>3, <2>1, <2>2
<1>5. IsText(rest', 1) /\ seq' = written' /\ pc' = "string_char" /\ UNCHANGED <<seq, inWord, stack>>
  BY <1>2, <1>3, <1>4 DEF Skip, InText
<1>6. ~ inWord /\ seq \in Seq(Types) /\ stack \in Nat /\ stack = Depth(seq) /\ Forms(seq) = {}
  BY <1>2 DEF Synced
<1>7. QED
  BY <1>2, <1>5, <1>6, SyncedText

LEMMA InStringSynced == ASSUME IInv, InString, ~ spoiled' PROVE Synced'
<1>1. PICK c \in Chars : Get(c) /\ pc' = IF c = "dquote" \/ ~ IsPrint(c) THEN "next"
                                        ELSE IF c = "bslash" THEN "escape" ELSE "string"
  BY DEF InString
<1>2. Synced /\ held' = NoChar /\ rest \in Seq(Chars)
      /\ (rest # << >> => c = rest[1] /\ rest' = Tail(rest) /\ written' = written)
  BY <1>1, RestTaken DEF InString
<1>3. InText /\ IsText(rest, 1)
  BY <1>2 DEF Synced, InText, InString
<1>4. /\ rest # << >>
      /\ \/ rest[1] = "dquote" /\ Tail(rest) = << >>
         \/ /\ IsPrint(rest[1]) /\ rest[1] # "dquote"
            /\ IsText(Tail(rest), IF rest[1] = "bslash" THEN 3 ELSE 2)
  BY <1>2, <1>3, TextOn
<1>5. seq' = written' /\ UNCHANGED <<seq, inWord, stack>>
  BY <1>2, <1>3, <1>4 DEF InString, InText
<1>6. ~ inWord /\ seq \in Seq(Types) /\ stack \in Nat /\ stack = Depth(seq) /\ Forms(seq) = {}
  BY <1>2 DEF Synced, InString
<1>7. CASE rest[1] = "dquote" /\ Tail(rest) = << >>
  BY <1>1, <1>2, <1>4, <1>5, <1>6, <1>7, SyncedBetween
<1>8. CASE /\ IsPrint(rest[1]) /\ rest[1] # "dquote"
           /\ IsText(Tail(rest), IF rest[1] = "bslash" THEN 3 ELSE 2)
  <2>1. c = rest[1] /\ rest' = Tail(rest)
    BY <1>2, <1>4
  <2>2. CASE c = "bslash"
    <3>1. pc' = "escape" /\ IsText(rest', 3)
      BY <1>1, <1>8, <2>1, <2>2
    <3>2. QED
      BY <1>2, <1>5, <1>6, <3>1, SyncedText
  <2>3. CASE c # "bslash"
    <3>1. pc' = "string" /\ IsText(rest', 2)
      BY <1>1, <1>8, <2>1, <2>3
    <3>2. QED
      BY <1>2, <1>5, <1>6, <3>1, SyncedText
  <2>4. QED
    BY <2>2, <2>3
<1>9. QED
  BY <1>4, <1>7, <1>8

LEMMA EscapeSynced == ASSUME IInv, Escape, ~ spoiled' PROVE Synced'
<1>1. PICK c \in Chars : Get(c)
  BY DEF Escape
<1>2. Synced /\ held' = NoChar /\ rest \in Seq(Chars)
      /\ (rest # << >> => rest' = Tail(rest) /\ written' = written)
  BY <1>1, RestTaken DEF Escape
<1>3. InText /\ IsText(rest, 3)
  BY <1>2 DEF Synced, InText, Escape
<1>4. rest # << >> /\ IsText(Tail(rest), 2)
  <2>1. \A n \in 1 .. 3 : IsText(rest, n) /\ n # 1 => rest # << >> /\ IsText(Tail(rest), n - 1)
    BY <1>2, TextOn
  <2>2. 3 \in 1 .. 3 /\ 3 # 1 /\ 3 - 1 = 2
    OBVIOUS
  <2>3. QED
    BY <1>3, <2>1, <2>2
<1>5. IsText(rest', 2) /\ seq' = written' /\ pc' = "string" /\ UNCHANGED <<seq, inWord, stack>>
  BY <1>2, <1>3, <1>4 DEF Escape, InText
<1>6. ~ inWord /\ seq \in Seq(Types) /\ stack \in Nat /\ stack = Depth(seq) /\ Forms(seq) = {}
  BY <1>2 DEF Synced, Escape
<1>7. QED
  BY <1>2, <1>5, <1>6, SyncedText

(* Tokens that begin with #. *)
LEMMA SharpSynced == ASSUME IInv, Sharp, ~ spoiled' PROVE Synced'
<1>1. Get("#") /\ pc = "next" /\ pc' = (IF inWord THEN "next" ELSE "sharp")
      /\ UNCHANGED <<seq, slot, inWord, isfloat, stack>>
  BY DEF Sharp
<1>2. Synced /\ (Within("#") \/ \E l \in Lexemes : Begins("#", l)) /\ held' = NoChar
  BY <1>1, NextChar, GetBasic DEF Blanks, AtEnd, IsSpace, IInv
<1>3. seq \in Seq(Types) /\ stack \in Nat /\ stack = Depth(seq) /\ Forms(seq) = {}
  BY <1>1, <1>2 DEF Synced
<1>4. Depth(seq') = Depth(seq) /\ Forms(seq') = Forms(seq)
  BY <1>1
<1>5. CASE inWord
  <2>1. InWord /\ Within("#")
    <3>1. \A l \in Lexemes : ~ Begins("#", l)
      BY <1>5, Begun DEF Begins, Readable
    <3>2. QED
      BY <1>1, <1>2, <1>5, <3>1 DEF Synced
  <2>2. SlotAfter(slot, isfloat, "#") = slot /\ (FloatAfter(slot, isfloat, "#") <=> isfloat)
    BY DEF SlotAfter, FloatAfter, Letters
  <2>3. Becomes(slot, isfloat, rest', last)
    <3>1. Becomes(SlotAfter(slot, isfloat, "#"), FloatAfter(slot, isfloat, "#"), rest', last)
      BY <2>1, BecomesOn DEF InWord, Within, IInv, Basic
    <3>2. FloatAfter(slot, isfloat, "#") = isfloat
      BY <2>2 DEF IInv, Basic, FloatAfter
    <3>3. QED
      BY <2>2, <3>1, <3>2
  <2>4. InWord'
    BY <1>1, <1>2, <2>1, <2>3 DEF InWord, Within, Becomes, Letters
  <2>5. QED
    BY <1>1, <1>3, <1>4, <1>5, <2>4 DEF Synced
<1>6. CASE ~ inWord
  <2>1. PICK l \in Lexemes : Begins("#", l)
    BY <1>2, <1>6 DEF Within
  <2>2. Ended = seq /\ written' = Append(seq', l.type) /\ last' = l.type /\ Readable(l)
    BY <1>1, <1>6, <2>1 DEF Begins, Ended
  <2>3. l.type \in {"true", "radix", "char"} => stack' > 0
    BY <1>1, <1>3, <2>2 DEF Readable
  <2>4. InSharp'
    BY <2>1, <2>2, <2>3, Begun DEF Begins, Readable, InSharp, IsName, IsPrint, IsSpace
  <2>5. QED
    BY <1>1, <1>3, <1>4, <1>6, <2>4 DEF Synced
<1>7. QED
  BY <1>5, <1>6

LEMMA SyncedName ==
  ASSUME pc' \in {"char", "char_char"}, ~ inWord', held' = NoChar, seq' = written', last' = "char",
         seq' \in Seq(Types), stack' \in Nat, stack' = Depth(seq'), Forms(seq') = {},
         IsName(rest', IF pc' = "char" THEN 2 ELSE 1)
  PROVE  Synced'
<1>1. InName'
  BY DEF InName, IsName, IsPrint, IsSpace
<1>2. QED
  BY <1>1 DEF Synced, Depth, Forms, Announces

LEMMA AfterSharpSynced == ASSUME IInv, AfterSharp, ~ spoiled' PROVE Synced'
<1>1. PICK c \in Chars :
        /\ Get(c)
        /\ \/ c = "(" /\ Token("left_sharpar") /\ stack' = stack + 1 /\ pc' = "next"
           \/ c = "t" /\ Token("true") /\ pc' = "next" /\ UNCHANGED stack
           \/ c = "b" /\ Token("radix") /\ pc' = "next" /\ UNCHANGED stack
           \/ c = "bslash" /\ Token("char") /\ pc' = "char" /\ UNCHANGED stack
           \/ c \notin {"(", "t", "b", "bslash"}
  BY DEF AfterSharp, Chars
<1>2. pc = "sharp" /\ UNCHANGED inWord
  BY DEF AfterSharp
<1>3. Synced /\ held' = NoChar /\ rest \in Seq(Chars)
      /\ (rest # << >> => c = rest[1] /\ rest' = Tail(rest) /\ UNCHANGED <<written, last>>)
  BY <1>1, <1>2, RestTaken
<1>4. ~ inWord /\ seq \in Seq(Types) /\ stack \in Nat /\ stack = Depth(seq) /\ Forms(seq) = {} /\ InSharp
  BY <1>2, <1>3 DEF Synced
<1>5. ASSUME NEW t \in Types \ {"quote", "comma", "comma_at"}, Token(t), stack' = stack + Delta(t), stack' > 0
      PROVE  seq' \in Seq(Types) /\ stack' \in Nat /\ stack' = Depth(seq') /\ Forms(seq') = {}
  <2>1. seq' = Append(seq, t)
    BY <1>5 DEF Token
  <2>2. Depth(seq') = stack' /\ Forms(seq') = {}
    BY <1>4, <1>5, <2>1, DepthAppend, FormsAppend
  <2>3. stack' \in Nat
    BY <1>4, <1>5, <2>2 DEF Delta
  <2>4. QED
    BY <1>4, <2>1, <2>2, <2>3
<1>6. CASE rest = <<"(">> /\ written = Append(seq, "left_sharpar")
  <2>1. rest # << >> /\ rest[1] = "(" /\ Tail(rest) = << >>
    BY <1>6
  <2>2. Token("left_sharpar") /\ stack' = stack + 1 /\ pc' = "next"
    BY <1>1, <1>3, <2>1
  <2>3. seq' = written' /\ rest' = << >>
    BY <1>3, <1>6, <2>1, <2>2 DEF Token
  <2>4. seq' \in Seq(Types) /\ stack' \in Nat /\ stack' = Depth(seq') /\ Forms(seq') = {}
    BY <1>4, <1>5, <2>2 DEF Delta, Opens, Types
  <2>5. QED
    BY <1>2, <1>3, <1>4, <2>2, <2>3, <2>4, SyncedBetween
<1>7. ASSUME NEW t \in {"true", "radix"}, NEW x, rest = <<x>>, Token(t), pc' = "next", stack' = stack,
             written = Append(seq, t), stack > 0
      PROVE  Synced'
  <2>1. rest # << >> /\ Tail(rest) = << >>
    BY <1>7
  <2>2. seq' = written' /\ rest' = << >>
    BY <1>3, <1>7, <2>1 DEF Token
  <2>3. Delta(t) = 0 /\ t \in Types \ {"quote", "comma", "comma_at"}
    BY <1>7 DEF Delta, Opens, Types
  <2>4. seq' \in Seq(Types) /\ stack' \in Nat /\ stack' = Depth(seq') /\ Forms(seq') = {}
    BY <1>4, <1>5, <1>7, <2>3
  <2>5. QED
    BY <1>2, <1>3, <1>4, <1>7, <2>2, <2>4, SyncedBetween
<1>8. CASE rest = <<"t">> /\ written = Append(seq, "true") /\ stack > 0
  <2>1. rest # << >> /\ rest[1] = "t"
    BY <1>8
  <2>2. Token("true") /\ pc' = "next" /\ stack' = stack
    BY <1>1, <1>3, <2>1
  <2>3. QED
    BY <1>7, <1>8, <2>2
<1>9. CASE rest = <<"b">> /\ written = Append(seq, "radix") /\ stack > 0
  <2>1. rest # << >> /\ rest[1] = "b"
    BY <1>9
  <2>2. Token("radix") /\ pc' = "next" /\ stack' = stack
    BY <1>1, <1>3, <2>1
  <2>3. QED
    BY <1>7, <1>9, <2>2
<1>10. CASE /\ rest # << >> /\ rest[1] = "bslash" /\ IsName(Tail(rest), 2)
            /\ written = Append(seq, "char") /\ last = "char" /\ stack > 0
  <2>1. Token("char") /\ pc' = "char" /\ stack' = stack
    BY <1>1, <1>3, <1>10
  <2>2. seq' = written' /\ last' = "char" /\ IsName(rest', 2)
    BY <1>3, <1>10, <2>1 DEF Token
  <2>3. Delta("char") = 0 /\ "char" \in Types \ {"quote", "comma", "comma_at"}
    BY DEF Delta, Opens, Types
  <2>4. seq' \in Seq(Types) /\ stack' \in Nat /\ stack' = Depth(seq') /\ Forms(seq') = {}
    BY <1>4, <1>5, <1>10, <2>1, <2>3
  <2>5. QED
    BY <1>2, <1>3, <1>4, <2>1, <2>2, <2>4, SyncedName
<1>11. QED
  BY <1>4, <1>6, <1>8, <1>9, <1>10 DEF InSharp

LEMMA SkipCharSynced == ASSUME IInv, Skip, pc = "char", ~ spoiled' PROVE Synced'
<1>1. PICK c \in Chars : Get(c)
  BY DEF Skip
<1>2. Synced /\ held' = NoChar /\ rest \in Seq(Chars)
      /\ (rest # << >> => rest' = Tail(rest) /\ UNCHANGED <<written, last>>)
  BY <1>1, RestTaken
<1>3. InName /\ IsName(rest, 2)
  BY <1>2 DEF Synced, InName
<1>4. rest # << >> /\ IsName(Tail(rest), 1)
  BY <1>2, <1>3, NameOn
<1>5. IsName(rest', 1) /\ seq' = written' /\ last' = "char" /\ pc' = "char_char" /\ UNCHANGED <<seq, inWord, stack>>
  BY <1>2, <1>3, <1>4 DEF Skip, InName
<1>6. ~ inWord /\ seq \in Seq(Types) /\ stack \in Nat /\ stack = Depth(seq) /\ Forms(seq) = {}
  BY <1>2 DEF Synced
<1>7. QED
  BY <1>2, <1>5, <1>6, SyncedName

LEMMA InCharSynced == ASSUME IInv, InChar, ~ spoiled' PROVE Synced'
<1>1. PICK c \in Chars : Get(c) /\ pc' = IF IsSpace(c) \/ ~ IsPrint(c) THEN "next" ELSE "char"
  BY DEF InChar
<1>2. pc = "char_char" /\ UNCHANGED <<seq, inWord, stack>>
  BY DEF InChar
<1>3. Synced /\ held' = NoChar /\ rest \in Seq(Chars)
      /\ (rest # << >> => c = rest[1] /\ rest' = Tail(rest) /\ UNCHANGED <<written, last>>)
  BY <1>1, <1>2, RestTaken
<1>4. InName /\ IsName(rest, 1) /\ seq = written /\ last = "char"
  BY <1>2, <1>3 DEF Synced, InName
<1>5. ~ inWord /\ seq \in Seq(Types) /\ stack \in Nat /\ stack = Depth(seq) /\ Forms(seq) = {}
  BY <1>2, <1>3 DEF Synced
<1>6. CASE rest # << >>
  <2>1. IsPrint(c) /\ ~ IsSpace(c) /\ IsName(rest', 2)
    BY <1>3, <1>4, <1>6, NameOn
  <2>2. pc' = "char" /\ seq' = written' /\ last' = "char"
    BY <1>1, <1>2, <1>3, <1>4, <1>6, <2>1
  <2>3. QED
    BY <1>2, <1>3, <1>5, <2>1, <2>2, SyncedName
<1>7. CASE rest = << >>
  <2>1. Write(c)
    BY <1>1, <1>2 DEF Get, IInv, Basic
  <2>2. IsSpace(c) /\ UNCHANGED <<rest, written>>
    BY <1>2, <1>4, <1>7, <2>1 DEF Write, Misread
  <2>3. QED
    BY <1>1, <1>2, <1>3, <1>4, <1>5, <1>7, <2>2, SyncedBetween
<1>8. QED
  BY <1>6, <1>7

(* A comma, alone or with an @ behind it. *)
LEMMA CommaSynced == ASSUME IInv, Comma, ~ spoiled' PROVE Synced'
<1>1. Synced /\ \E l \in Lexemes : Begins(",", l)
  BY NextLexeme DEF Comma, IsSpace, WordChars, Letters
<1>2. PICK l \in Lexemes : Begins(",", l)
  BY <1>1
<1>3. /\ ~ inWord
      /\ (l.type = "comma" /\ rest' = << >>) \/ (l.type = "comma_at" /\ rest' = <<"@">>)
  BY <1>2, Begun DEF Begins, Readable
<1>4. pc' = "comma" /\ UNCHANGED <<seq, inWord, stack>> /\ Ended = seq
      /\ written' = Append(seq, l.type) /\ last' = l.type
  BY <1>2, <1>3 DEF Begins, Comma, Ended
<1>5. InComma'
  BY <1>3, <1>4 DEF InComma
<1>6. seq \in Seq(Types) /\ stack \in Nat /\ stack = Depth(seq) /\ Forms(seq) = {}
  BY <1>1 DEF Synced, Comma
<1>7. QED
  BY <1>3, <1>4, <1>5, <1>6 DEF Synced, Depth, Forms, Announces

LEMMA CommaAtSynced == ASSUME IInv, CommaAt, ~ spoiled' PROVE Synced'
<1>1. pc = "comma" /\ Get("@") /\ seq' = Append(seq, "comma_at") /\ pc' = "next" /\ UNCHANGED <<inWord, stack>>
  BY DEF CommaAt, Token
<1>2. Synced /\ held' = NoChar
      /\ (rest # << >> => rest' = Tail(rest) /\ written' = written)
  BY <1>1, RestTaken
<1>3. ~ inWord /\ seq \in Seq(Types) /\ stack \in Nat /\ stack = Depth(seq) /\ Forms(seq) = {} /\ InComma
  BY <1>1, <1>2 DEF Synced
<1>4. rest = <<"@">> /\ written = Append(seq, "comma_at")
  <2>1. CASE rest = << >> /\ last = "comma"
    <3>1. Write("@")
      BY <1>1 DEF Get, IInv, Basic
    <3>2. PICK l \in Lexemes : "@" = Head(l.chars) /\ spoiled' = (spoiled \/ Misread(l))
      BY <2>1, <3>1 DEF Write, IsSpace
    <3>3. l.chars[1] = "@"
      BY <3>2, LexerAssumption
    <3>4. QED
      BY <2>1, <3>2, <3>3 DEF Misread
  <2>2. QED
    BY <1>3, <2>1 DEF InComma
<1>5. rest # << >> /\ Tail(rest) = << >>
  BY <1>4
<1>6. seq' = written' /\ rest' = << >>
  BY <1>1, <1>2, <1>4, <1>5
<1>7. Delta("comma_at") = 0 /\ "comma_at" \in Types
  BY DEF Delta, Opens, Types
<1>8. seq' \in Seq(Types) /\ stack' \in Nat /\ stack' = Depth(seq') /\ Forms(seq') = {}
  BY <1>1, <1>3, <1>7, DepthAppend, FormsAppend
<1>9. QED
  BY <1>1, <1>2, <1>3, <1>6, <1>8, SyncedBetween

LEMMA OnlyCommaSynced == ASSUME IInv, OnlyComma, ~ spoiled' PROVE Synced'
<1>1. PICK c \in Chars \ {"@"} : Write(c) /\ held' = c
  BY DEF OnlyComma
<1>2. pc = "comma" /\ seq' = Append(seq, "comma") /\ pc' = "next" /\ UNCHANGED <<inWord, isfloat, stack>>
  BY DEF OnlyComma, Token
<1>3. Synced
  BY <1>1, WriteBasic DEF IInv
<1>4. ~ inWord /\ seq \in Seq(Types) /\ stack \in Nat /\ stack = Depth(seq) /\ Forms(seq) = {} /\ InComma
  BY <1>2, <1>3 DEF Synced
<1>5. Delta("comma") = 0 /\ "comma" \in Types
  BY DEF Delta, Opens, Types
<1>6. seq' \in Seq(Types) /\ stack' \in Nat /\ stack' = Depth(seq') /\ Forms(seq') = {}
  BY <1>2, <1>4, <1>5, DepthAppend, FormsAppend
<1>7. rest = << >> /\ last = "comma" /\ written = Append(seq, "comma")
  <2>1. CASE rest = <<"@">>
    <3>1. rest # << >> /\ Head(rest) = "@"
      BY <2>1
    <3>2. QED
      BY <1>1, <3>1 DEF Write
  <2>2. QED
    BY <1>4, <2>1 DEF InComma
<1>8. InNext'
  <2>1. CASE IsSpace(c) /\ UNCHANGED <<rest, written>>
    BY <1>1, <1>2, <1>7, <2>1 DEF InNext, IsSpace
  <2>2. CASE \E l \in Lexemes : /\ c = Head(l.chars) /\ rest' = Tail(l.chars)
                                /\ written' = Append(written, l.type) /\ last' = l.type
                                /\ spoiled' = (spoiled \/ Misread(l))
    <3>1. PICK l \in Lexemes : /\ c = Head(l.chars) /\ rest' = Tail(l.chars)
                               /\ written' = Append(written, l.type) /\ last' = l.type
                               /\ spoiled' = (spoiled \/ Misread(l))
      BY <2>2
    <3>2. c = l.chars[1]
      BY <3>1, LexerAssumption
    <3>3. ~ Misread(l)
      BY <3>1
    <3>4. (~ inWord)' /\ Ended' = seq'
      BY <1>2, <1>4 DEF Ended
    <3>5. Readable(l)'
      BY <1>2, <1>7, <3>3, <3>4 DEF Readable, Misread, Depth, Among, Opens, Points
    <3>6. QED
      BY <1>1, <1>2, <1>7, <3>1, <3>2, <3>5 DEF InNext
  <2>3. QED
    BY <1>1, <1>2, <1>7, <2>1, <2>2 DEF Write
<1>9. QED
  BY <1>2, <1>4, <1>6, <1>8 DEF Synced, Depth, Forms, Announces

(* A character of a word, the first or another.                            *)
LEMMA WordSynced ==
  ASSUME IInv, pc = "next", NEW c \in WordChars \ {"#"}, Get(c), ~ spoiled',
         UNCHANGED <<seq, stack, pc>>, inWord',
         inWord => slot' = SlotAfter(slot, isfloat, c) /\ (isfloat' <=> FloatAfter(slot, isfloat, c)),
         ~ inWord => slot' = SlotFor(c) /\ (isfloat' <=> isfloat)
  PROVE  Synced'
<1>1. Synced /\ held' = NoChar /\ (Within(c) \/ \E l \in Lexemes : Begins(c, l))
  BY NextChar, GetBasic DEF Blanks, AtEnd, IsSpace, WordChars, Letters, IInv
<1>2. seq \in Seq(Types) /\ stack \in Nat /\ stack = Depth(seq) /\ Forms(seq) = {}
  BY <1>1 DEF Synced
<1>3. Depth(seq') = Depth(seq) /\ Forms(seq') = Forms(seq)
  OBVIOUS
<1>4. CASE Within(c)
  <2>1. inWord /\ InWord /\ rest # << >> /\ c = rest[1] /\ rest' = Tail(rest) /\ UNCHANGED <<written, last>>
    BY <1>1, <1>4 DEF Within, Synced
  <2>2. Becomes(SlotAfter(slot, isfloat, c), FloatAfter(slot, isfloat, c), rest', last) /\ last \in {"symbol", "number"}
    BY <2>1, BecomesOn DEF InWord, IInv, Basic
  <2>3. Becomes(slot', isfloat', rest', last')
    BY <2>1, <2>2 DEF Becomes, Letters
  <2>4. InWord'
    BY <1>1, <2>1, <2>2, <2>3 DEF InWord, Words, Becomes, Letters
  <2>5. QED
    BY <1>2, <1>3, <2>4 DEF Synced
<1>5. CASE \E l \in Lexemes : Begins(c, l)
  <2>1. PICK l \in Lexemes : Begins(c, l)
    BY <1>5
  <2>2. Readable(l) /\ rest' = Tail(l.chars) /\ l.type \in Words /\ c = l.chars[1]
        /\ Becomes(SlotFor(c), isfloat, rest', l.type)
    BY <2>1, Begun DEF Begins, Readable, IInv, Basic
  <2>3. ~ inWord
    BY <2>2 DEF Readable, Words
  <2>4. last' = l.type /\ written' = Append(seq', last')
    BY <2>1, <2>3 DEF Begins, Ended
  <2>5. Becomes(slot', isfloat', rest', last')
    BY <2>2, <2>3, <2>4 DEF Becomes, Letters
  <2>6. InWord'
    BY <1>1, <2>2, <2>4, <2>5 DEF InWord, Words, Becomes, Letters
  <2>7. QED
    BY <1>2, <1>3, <2>6 DEF Synced
<1>6. QED
  BY <1>1, <1>4, <1>5

LEMMA AtSynced == ASSUME IInv, At, ~ spoiled' PROVE Synced'
<1>1. /\ pc = "next" /\ Get("@") /\ UNCHANGED <<seq, isfloat, stack, pc>>
      /\ slot' = IF inWord THEN slot ELSE "symbol"
  BY DEF At
<1>2. inWord' = TRUE
  BY DEF At
<1>3. "@" \in WordChars \ {"#"} /\ SlotFor("@") = "symbol"
  BY DEF WordChars, SlotFor
<1>4. SlotAfter(slot, isfloat, "@") = slot /\ (FloatAfter(slot, isfloat, "@") <=> isfloat)
  BY DEF SlotAfter, FloatAfter, Letters
<1>5. QED
  BY <1>1, <1>2, <1>3, <1>4, WordSynced

LEMMA LetterSynced == ASSUME IInv, Letter, ~ spoiled' PROVE Synced'
<1>1. PICK c \in Letters : Get(c)
  BY DEF Letter, Letters
<1>2. /\ pc = "next" /\ UNCHANGED <<seq, isfloat, stack, pc>>
      /\ \E number \in IsSlot("number") : slot' = IF ~ inWord \/ number THEN "symbol" ELSE slot
  BY DEF Letter
<1>3. inWord' = TRUE
  BY DEF Letter
<1>4. c \in WordChars \ {"#"} /\ SlotFor(c) = "symbol" /\ c \notin {".", "0"}
  BY DEF WordChars, SlotFor, Letters
<1>5. inWord => slot \in Words
  BY <1>1, <1>2, <1>4, NextChar, EndedSynced DEF IInv
<1>6. inWord => slot' = SlotAfter(slot, isfloat, c) /\ (isfloat' <=> FloatAfter(slot, isfloat, c))
  BY <1>2, <1>4, <1>5 DEF SlotAfter, FloatAfter, IsSlot, Stale, Words
<1>7. QED
  BY <1>1, <1>2, <1>3, <1>4, <1>6, WordSynced

LEMMA DotSynced == ASSUME IInv, Dot, ~ spoiled' PROVE Synced'
<1>1. /\ pc = "next" /\ Get(".") /\ UNCHANGED <<seq, stack, pc>>
      /\ \E number \in IsSlot("number") :
           /\ slot' = IF ~ inWord THEN "point" ELSE IF isfloat THEN "symbol" ELSE slot
           /\ isfloat' = (isfloat \/ (inWord /\ number))
  BY DEF Dot
<1>2. inWord' = TRUE
  BY DEF Dot
<1>3. "." \in WordChars \ {"#"} /\ SlotFor(".") = "point"
  BY DEF WordChars, SlotFor
<1>4. inWord => slot \in Words
  BY <1>1, NextChar, EndedSynced DEF IInv
<1>5. inWord => slot' = SlotAfter(slot, isfloat, ".") /\ (isfloat' <=> FloatAfter(slot, isfloat, "."))
  BY <1>1, <1>4 DEF SlotAfter, FloatAfter, IsSlot, Stale, Words, Letters
<1>6. ~ inWord => slot' = "point" /\ (isfloat' <=> isfloat)
  BY <1>1
<1>7. QED
  BY <1>1, <1>2, <1>3, <1>5, <1>6, WordSynced

LEMMA DigitSynced == ASSUME IInv, Digit, ~ spoiled' PROVE Synced'
<1>1. /\ pc = "next" /\ Get("0") /\ UNCHANGED <<seq, stack, pc>>
      /\ \E point \in IsSlot("point") :
           /\ slot' = IF ~ inWord \/ point THEN "number" ELSE slot
           /\ isfloat' = (isfloat \/ (inWord /\ point))
  BY DEF Digit
<1>2. inWord' = TRUE
  BY DEF Digit
<1>3. "0" \in WordChars \ {"#"} /\ SlotFor("0") = "number"
  BY DEF WordChars, SlotFor
<1>4. inWord => slot \in Words
  BY <1>1, NextChar, EndedSynced DEF IInv
<1>5. inWord => slot' = SlotAfter(slot, isfloat, "0") /\ (isfloat' <=> FloatAfter(slot, isfloat, "0"))
  BY <1>1, <1>4 DEF SlotAfter, FloatAfter, IsSlot, Stale, Words, Letters
<1>6. ~ inWord => slot' = "number" /\ (isfloat' <=> isfloat)
  BY <1>1
<1>7. QED
  BY <1>1, <1>2, <1>3, <1>5, <1>6, WordSynced

(* The port is at its end, where no form was begun. *)
LEMMA EndSynced == ASSUME IInv, End, ~ spoiled' PROVE Synced'
<1>1. pc = "next" /\ Get("EOF") /\ seq' = Ended /\ pc' = "idle" /\ stack' = stack
  BY DEF End
<1>2. Synced /\ AtEnd("EOF")
  <2>1. \A l \in Lexemes : ~ Begins("EOF", l)
    BY Begun DEF Begins, Readable
  <2>2. "EOF" \notin WordChars
    BY DEF WordChars, Letters
  <2>3. QED
    BY <1>1, <2>1, <2>2, NextChar DEF Within, Blanks, IsSpace
<1>3. /\ Ended \in Seq(Types) /\ Depth(Ended) = stack /\ stack \in Nat
      /\ Forms(Ended) = IF inWord /\ stack = 0 THEN {Len(Ended)} ELSE {}
  BY <1>1, <1>2, EndedSynced DEF IInv
<1>4. written' = seq' /\ stack = 0 /\ ~ Announces(Ended, Len(Ended))
  BY <1>1, <1>2 DEF AtEnd
<1>5. seq' # << >> => Forms(seq') = {Len(seq')}
  <2>1. CASE inWord
    BY <1>1, <1>3, <1>4, <2>1
  <2>2. CASE ~ inWord /\ Ended # << >>
    <3>1. SubSeq(Ended, 1, Len(Ended)) = Ended /\ Len(Ended) \in 1 .. Len(Ended)
      BY <1>3, <2>2
    <3>2. Len(Ended) \in Forms(Ended)
      BY <1>3, <1>4, <3>1 DEF Forms
    <3>3. QED
      BY <1>3, <2>2, <3>2
  <2>3. QED
    BY <1>1, <2>1, <2>2
<1>6. QED
  BY <1>1, <1>3, <1>4, <1>5, SyncedIdle

(* A read begins where the writer is between two lexemes. *)
LEMMA StartReadSynced == ASSUME IInv, StartRead, ~ spoiled' PROVE Synced'
<1>1. pc' = "next" /\ seq' = << >> /\ stack' = 0 /\ written' = << >> /\ held' = held /\ rest' = << >> /\ pc = "idle"
  BY DEF StartRead
<1>2. ~ inWord'
  BY DEF StartRead
<1>3. held' = NoChar
  BY <1>1 DEF IInv, Basic
<1>4. seq' \in Seq(Types) /\ stack' \in Nat /\ stack' = Depth(seq') /\ Forms(seq') = {}
  BY <1>1, DepthEmpty, FormsEmpty
<1>5. QED
  BY <1>1, <1>2, <1>3, <1>4, SyncedBetween

-----------------------------------------------------------------------------
LEMMA Inductive == IInv /\ [Next]_vars => IInv'
<1> SUFFICES ASSUME IInv, [Next]_vars PROVE IInv'
  OBVIOUS
<1>1. Basic'
  BY BasicNext DEF IInv
<1>2. ASSUME ~ spoiled' PROVE Synced'
  <2>1. CASE StartRead
    BY <1>2, <2>1, StartReadSynced
  <2>2. CASE Space \/ LeftPar \/ RightPar \/ Quote
    BY <1>2, <2>2, SpaceSynced, LeftParSynced, RightParSynced, QuoteSynced
  <2>3. CASE OpenString \/ InString \/ Escape
    BY <1>2, <2>3, OpenStringSynced, InStringSynced, EscapeSynced
  <2>4. CASE Skip
    BY <1>2, <2>4, SkipStringSynced, SkipCharSynced DEF Skip
  <2>5. CASE Sharp \/ AfterSharp \/ InChar
    BY <1>2, <2>5, SharpSynced, AfterSharpSynced, InCharSynced
  <2>6. CASE Comma \/ CommaAt \/ OnlyComma
    BY <1>2, <2>6, CommaSynced, CommaAtSynced, OnlyCommaSynced
  <2>7. CASE At \/ Dot \/ Digit \/ Letter
    BY <1>2, <2>7, AtSynced, DotSynced, DigitSynced, LetterSynced
  <2>8. CASE End
    BY <1>2, <2>8, EndSynced
  <2>9. CASE UNCHANGED vars
    <3>1. Synced
      BY <1>2, <2>9 DEF vars, writer, IInv
    <3>2. InIdle' = InIdle /\ InName' = InName /\ InText' = InText /\ InComma' = InComma
      BY <2>9 DEF vars, lexer, writer, InIdle, InName, InText, InComma
    <3>3. InWord' = InWord /\ InSharp' = InSharp /\ InNext' = InNext
      BY <2>9 DEF vars, lexer, writer, InWord, InSharp, InNext, Readable, Ended
    <3>4. QED
      BY <2>9, <3>1, <3>2, <3>3 DEF vars, lexer, Synced
  <2>10. QED
    BY <2>1, <2>2, <2>3, <2>4, <2>5, <2>6, <2>7, <2>8, <2>9 DEF Next
<1>3. QED
  BY <1>1, <1>2 DEF IInv

LEMMA AlwaysIInv == Spec => []IInv
<1>1. Init => IInv
  BY Initially
<1>2. IInv /\ [Next]_vars => IInv'
  BY Inductive
<1>3. QED
  BY <1>1, <1>2, PTL DEF Spec

(* The types of the state; the slots below i of _lex_token_buff were all   *)
(* written by the read, which never closes more than it opened             *)
(* (kscm/scheme/read.c:346-534).                                           *)
THEOREM TypeCorrect == Spec => []TypeOK
<1>1. IInv => TypeOK
  <2> SUFFICES ASSUME IInv PROVE TypeOK
    OBVIOUS
  <2>1. ~ spoiled => Stale \notin {seq[k] : k \in DOMAIN seq} /\ stack >= 0
    <3> SUFFICES ASSUME ~ spoiled PROVE Stale \notin {seq[k] : k \in DOMAIN seq} /\ stack >= 0
      OBVIOUS
    <3>1. seq \in Seq(Types) /\ stack \in Nat
      BY DEF IInv, Synced
    <3>2. Stale \notin Types
      BY DEF Types, Words, Stale
    <3>3. QED
      BY <3>1, <3>2
  <2>2. QED
    BY <2>1 DEF IInv, Basic, TypeOK
<1>2. QED
  BY <1>1, AlwaysIInv, PTL

(* A read leaves the tokens that were written, whatever their number and   *)
(* their spelling (kscm/scheme/read.c:346-534).                            *)
THEOREM TokensStayAsWritten == Spec => []TokensAsWritten
<1>1. IInv => TokensAsWritten
  BY DEF IInv, Synced, InIdle, TokensAsWritten
<1>2. QED
  BY <1>1, AlwaysIInv, PTL

(* A read stops at the end of the first form, where stack is 0 after a     *)
(* parenthesis or a word (kscm/scheme/read.c:361, 381).                    *)
THEOREM StopsWhereFormEnds == Spec => []StopsAtForm
<1>1. IInv => StopsAtForm
  BY DEF IInv, Synced, InIdle, StopsAtForm
<1>2. QED
  BY <1>1, AlwaysIInv, PTL

=============================================================================
