------------------------- MODULE KeyboardPortProofs -------------------------
(***************************************************************************)
(* Proofs about KeyboardPort, for every keyboard, every size of the buffer *)
(* and every stretch of bytes behind it.                                   *)
(*                                                                         *)
(* That the buffer implements LineInput rests on what it holds at offset:  *)
(* while a line is typed, no newline before offset; while one is handed    *)
(* out that is not spoiled, its newline ahead of offset and no NUL before. *)
(***************************************************************************)
EXTENDS KeyboardPort, SequenceTheorems, TLAPS

(* The line at offset goes on to its newline at i. *)
EndsAt(i) ==
  /\ lineBuffer[i] = NL
  /\ \A j \in offset .. i - 1 : lineBuffer[j] # NL /\ lineBuffer[j] # NUL

LineInv ==
  /\ polling => ~ spoiled /\ \A i \in 0 .. offset - 1 : lineBuffer[i] # NL
  /\ ~ polling /\ ~ spoiled =>
       /\ offset < Size
       /\ lineBuffer[offset] # NUL => \E i \in offset .. Size - 1 : EndsAt(i)

IInv == TypeOK /\ LineInv

-----------------------------------------------------------------------------
LEMMA FoundTyped == ASSUME TypeOK PROVE Found \subseteq Chars
  BY KeyboardAssumption DEF TypeOK, Found

LEMMA KeyTyped ==
  ASSUME TypeOK, NEW k \in Keys PROVE keymap[k] \in Chars /\ keymap[k] # NL
  BY KeyboardAssumption DEF TypeOK

LEMMA InitTypeOK == Init => TypeOK
<1> SUFFICES ASSUME Init PROVE TypeOK
  OBVIOUS
<1>1. polling \in BOOLEAN /\ spoiled \in BOOLEAN
  BY Zenon DEF Init
<1>2. NUL \in Chars /\ Size \in Nat /\ Overrun \in Nat
  BY KeyboardAssumption
<1>3. QED
  BY <1>1, <1>2 DEF Init, TypeOK

LEMMA NextTypeOK == ASSUME TypeOK, [Next]_vars PROVE TypeOK'
<1>1. Size \in Nat /\ Size >= 2 /\ Overrun \in Nat /\ {NUL, NL} \subseteq Chars
  BY KeyboardAssumption
<1>2. CASE GetBuffered
  <2>1. offset' \in 0 .. Size + Overrun
    BY <1>1, <1>2 DEF GetBuffered, Found, TypeOK
  <2>2. out' \in Chars
    BY <1>2, FoundTyped DEF GetBuffered
  <2>3. QED
    BY <1>2, <2>1, <2>2 DEF GetBuffered, TypeOK
<1>3. CASE GetNewline
  BY <1>1, <1>3 DEF GetNewline, TypeOK
<1>4. CASE StartPolling
  <2>1. polling' \in BOOLEAN /\ spoiled' \in BOOLEAN
    BY <1>4, Zenon DEF StartPolling
  <2>2. QED
    BY <1>1, <1>4, <2>1 DEF StartPolling, TypeOK
<1>5. CASE PressShift \/ ReleaseShift
  BY <1>5 DEF PressShift, ReleaseShift, TypeOK
<1>6. ASSUME NEW k \in Keys, PressKey(k) PROVE TypeOK'
  <2>1. keymap[k] \in Chars
    BY KeyTyped
  <2>2. CASE offset >= Size
    BY <1>6, <2>2 DEF PressKey, Stored, TypeOK
  <2>3. CASE ~ (offset >= Size)
    <3>1. lineBuffer' = [lineBuffer EXCEPT ![offset] = keymap[k]] /\ offset' = offset + 1
      BY <1>6, <2>3 DEF PressKey, Stored
    <3>2. offset' <= Size /\ offset' \in 0 .. Size + Overrun
      BY <1>1, <2>3, <3>1 DEF TypeOK
    <3>3. QED
      BY <1>6, <2>1, <3>1, <3>2 DEF PressKey, TypeOK
  <2>4. QED
    BY <2>2, <2>3
<1>7. ASSUME NEW k \in Keys, PressEnter(k) PROVE TypeOK'
  <2>1. polling' \in BOOLEAN /\ spoiled' \in BOOLEAN
    BY <1>7, Zenon DEF PressEnter, Spoils
  <2>2. lineBuffer' \in [0 .. Size - 1 -> Chars]
    BY <1>1, <1>7 DEF PressEnter, TypeOK
  <2>3. out' \in Chars
    BY <1>1, <1>7, <2>2 DEF PressEnter
  <2>4. QED
    BY <1>1, <1>7, <2>1, <2>2, <2>3 DEF PressEnter, TypeOK
<1>8. CASE UNCHANGED vars
  BY <1>8 DEF vars, TypeOK
<1>9. QED
  BY <1>2, <1>3, <1>4, <1>5, <1>6, <1>7, <1>8 DEF Next

(***************************************************************************)
(* The types of the state: a call that polls writes within the buffer, and *)
(* a read runs over it by no more bytes than are neither NUL nor NL.       *)
(***************************************************************************)
THEOREM TypeCorrect == Spec => []TypeOK
  BY InitTypeOK, NextTypeOK, PTL DEF Spec

-----------------------------------------------------------------------------
LEMMA InitLineInv == Init => LineInv
<1> SUFFICES ASSUME Init PROVE LineInv
  OBVIOUS
<1>1. ~ polling /\ offset = 0 /\ lineBuffer[0] = NUL /\ 0 < Size
  BY KeyboardAssumption DEF Init
<1>2. QED
  BY <1>1 DEF LineInv

(* A call that is not over leaves the line as it is but for one character. *)
LEMMA GetBufferedLine ==
  ASSUME TypeOK, LineInv, GetBuffered, ~ spoiled
  PROVE  /\ offset < Size /\ offset + 1 < Size /\ out' = lineBuffer[offset]
         /\ \E i \in offset + 1 .. Size - 1 : EndsAt(i) /\ EndsAt(i)'
<1>1. ~ polling /\ offset' = offset + 1 /\ lineBuffer' = lineBuffer
  BY DEF GetBuffered
<1>2. offset \in Nat /\ Size \in Nat /\ offset < Size
  BY <1>1, KeyboardAssumption DEF TypeOK, LineInv
<1>3. out' = lineBuffer[offset] /\ lineBuffer[offset] # NL /\ lineBuffer[offset] # NUL
  BY <1>2 DEF GetBuffered, Found
<1>4. PICK i \in offset .. Size - 1 : EndsAt(i)
  BY <1>1, <1>3 DEF LineInv
<1>5. i # offset
  BY <1>3, <1>4 DEF EndsAt
<1>6. i \in offset + 1 .. Size - 1
  BY <1>2, <1>5
<1>7. EndsAt(i)'
  BY <1>1, <1>2, <1>4 DEF EndsAt
<1>8. QED
  BY <1>2, <1>3, <1>4, <1>6, <1>7

(* Enter ends the line that was typed. *)
LEMMA PressEnterLine ==
  ASSUME TypeOK, LineInv, NEW k \in Keys, PressEnter(k), ~ Spoils
  PROVE  /\ polling /\ offset \in 0 .. Size - 1 /\ offset' = 1 /\ out' = lineBuffer'[0]
         /\ lineBuffer' = [lineBuffer EXCEPT ![offset] = NL]
         /\ ~ polling' /\ ~ spoiled'
         /\ offset = 0 => lineBuffer'[1] = NUL
         /\ \A n \in Nat : n = offset /\ n # 0 => EndsAt(n)'
<1>1. /\ polling /\ offset' = 1 /\ out' = lineBuffer'[0] /\ ~ polling' /\ ~ spoiled'
      /\ ~ (offset >= Size) /\ lineBuffer' = [lineBuffer EXCEPT ![offset] = NL]
  BY DEF PressEnter, Spoils
<1>2. offset \in 0 .. Size - 1 /\ Size \in Nat /\ Size >= 2
  BY <1>1, KeyboardAssumption DEF TypeOK
<1>3. lineBuffer'[offset] = NL /\ \A i \in 0 .. Size - 1 : i # offset => lineBuffer'[i] = lineBuffer[i]
  BY <1>1, <1>2 DEF TypeOK
<1>4. offset = 0 => lineBuffer'[1] = NUL
  BY <1>2, <1>3 DEF Spoils
<1>5. \A i \in 1 .. offset - 1 : lineBuffer'[i] # NL /\ lineBuffer'[i] # NUL
  <2> SUFFICES ASSUME NEW i \in 1 .. offset - 1 PROVE lineBuffer'[i] # NL /\ lineBuffer'[i] # NUL
    OBVIOUS
  <2>1. i \in 0 .. offset - 1 /\ i \in 0 .. Size - 1 /\ i # offset
    BY <1>2
  <2>2. lineBuffer[i] # NL /\ lineBuffer[i] # NUL
    BY <1>1, <2>1 DEF LineInv, Spoils
  <2>3. QED
    BY <1>3, <2>1, <2>2
<1>6. ASSUME NEW n \in Nat, n = offset, n # 0 PROVE EndsAt(n)'
  BY <1>1, <1>3, <1>5, <1>6 DEF EndsAt
<1>7. QED
  BY <1>1, <1>2, <1>4, <1>6

LEMMA NextLineInv == ASSUME TypeOK, LineInv, [Next]_vars PROVE LineInv'
<1>1. Size \in Nat /\ Size >= 2 /\ offset \in Nat /\ lineBuffer \in [0 .. Size - 1 -> Chars]
  BY KeyboardAssumption DEF TypeOK
<1>2. CASE GetBuffered
  <2>1. ~ polling' /\ offset' = offset + 1 /\ spoiled' = spoiled
    BY <1>2 DEF GetBuffered
  <2>2. ~ spoiled => offset' < Size /\ \E i \in offset' .. Size - 1 : EndsAt(i)'
    BY <1>2, <2>1, GetBufferedLine
  <2>3. QED
    BY <2>1, <2>2 DEF LineInv
<1>3. CASE GetNewline
  BY <1>1, <1>3 DEF GetNewline, LineInv
<1>4. CASE StartPolling
  BY <1>1, <1>4 DEF StartPolling, LineInv
<1>5. CASE PressShift \/ ReleaseShift
  BY <1>5 DEF PressShift, ReleaseShift, LineInv
<1>6. ASSUME NEW k \in Keys, PressKey(k) PROVE LineInv'
  <2>1. polling /\ ~ spoiled /\ polling' /\ ~ spoiled' /\ keymap[k] # NL
    BY <1>6, KeyTyped DEF PressKey, LineInv
  <2>2. CASE offset >= Size
    BY <1>6, <2>1, <2>2 DEF PressKey, Stored, LineInv
  <2>3. CASE ~ (offset >= Size)
    <3>1. lineBuffer' = [lineBuffer EXCEPT ![offset] = keymap[k]] /\ offset' = offset + 1
      BY <1>6, <2>3 DEF PressKey, Stored
    <3>2. ASSUME NEW i \in 0 .. offset' - 1 PROVE lineBuffer'[i] # NL
      <4>1. i \in 0 .. Size - 1 /\ (i = offset \/ i \in 0 .. offset - 1)
        BY <1>1, <2>3, <3>1
      <4>2. QED
        BY <1>1, <2>1, <3>1, <4>1 DEF LineInv
    <3>3. QED
      BY <2>1, <3>2 DEF LineInv
  <2>4. QED
    BY <2>2, <2>3
<1>7. ASSUME NEW k \in Keys, PressEnter(k) PROVE LineInv'
  <2>1. ~ polling' /\ (spoiled' = Spoils)
    BY <1>7 DEF PressEnter
  <2>2. CASE Spoils
    BY <2>1, <2>2 DEF LineInv
  <2>3. CASE ~ Spoils
    <3>1. /\ offset \in 0 .. Size - 1 /\ offset' = 1 /\ (offset = 0 => lineBuffer'[1] = NUL)
          /\ \A n \in Nat : n = offset /\ n # 0 => EndsAt(n)'
      BY <1>7, <2>3, PressEnterLine
    <3>2. offset # 0 => \E i \in 1 .. Size - 1 : EndsAt(i)'
      BY <1>1, <3>1
    <3>3. QED
      BY <1>1, <2>1, <3>1, <3>2 DEF LineInv
  <2>4. QED
    BY <2>2, <2>3
<1>8. CASE UNCHANGED vars
  BY <1>8 DEF vars, LineInv, EndsAt
<1>9. QED
  BY <1>2, <1>3, <1>4, <1>5, <1>6, <1>7, <1>8 DEF Next

LEMMA AlwaysIInv == Spec => []IInv
<1>1. Init => IInv
  BY InitTypeOK, InitLineInv DEF IInv
<1>2. IInv /\ [Next]_vars => IInv'
  BY NextTypeOK, NextLineInv DEF IInv
<1>3. QED
  BY <1>1, <1>2, PTL DEF Spec

-----------------------------------------------------------------------------
(* n characters of the buffer b, from the one at o on. *)
Piece(b, o, n) == [i \in 1 .. n |-> b[o + i - 1]]

LEMMA PieceShape ==
  ASSUME NEW b \in [0 .. Size - 1 -> Chars], NEW o \in Nat, NEW n \in Nat, o + n <= Size
  PROVE  /\ Piece(b, o, n) \in Seq(Chars) /\ Len(Piece(b, o, n)) = n
         /\ n = 0 <=> Piece(b, o, n) = << >>
         /\ n # 0 => Head(Piece(b, o, n)) = b[o] /\ Tail(Piece(b, o, n)) = Piece(b, o + 1, n - 1)
<1> DEFINE s == Piece(b, o, n)
<1>1. Size \in Nat
  BY KeyboardAssumption
<1>2. s \in [1 .. n -> Chars]
  BY <1>1 DEF Piece
<1>3. s \in Seq(Chars) /\ Len(s) = n
  BY <1>2
<1>4. n = 0 <=> s = << >>
  BY <1>3
<1>5. ASSUME n # 0 PROVE Head(s) = b[o] /\ Tail(s) = Piece(b, o + 1, n - 1)
  <2>1. s # << >> /\ 1 \in 1 .. n /\ o + 1 - 1 = o
    BY <1>4, <1>5
  <2>2. Head(s) = s[1] /\ s[1] = b[o]
    BY <1>3, <2>1 DEF Piece
  <2>3. Tail(s) = [i \in 1 .. n - 1 |-> s[i + 1]]
    <3> HIDE DEF s
    <3>1. Tail(s) \in Seq(Chars) /\ Len(Tail(s)) = n - 1
          /\ \A i \in 1 .. n - 1 : Tail(s)[i] = s[i + 1]
      BY <1>3, <2>1, HeadTailProperties
    <3>2. Tail(s) \in [1 .. n - 1 -> Chars]
      BY <3>1, LenProperties
    <3>3. QED
      BY <3>1, <3>2
  <2>4. \A i \in 1 .. n - 1 : s[i + 1] = b[o + 1 + i - 1]
    <3> TAKE i \in 1 .. n - 1
    <3>1. i + 1 \in 1 .. n /\ o + (i + 1) - 1 = o + 1 + i - 1
      OBVIOUS
    <3>2. QED
      BY <3>1 DEF Piece
  <2> HIDE DEF s
  <2>5. QED
    BY <2>2, <2>3, <2>4 DEF Piece
<1>6. QED
  BY <1>3, <1>4, <1>5

LEMMA PieceAppend ==
  ASSUME NEW b \in [0 .. Size - 1 -> Chars], NEW n \in 0 .. Size - 1, NEW c \in Chars
  PROVE  Append(Piece(b, 0, n), c) = Piece([b EXCEPT ![n] = c], 0, n + 1)
<1> DEFINE s == Piece(b, 0, n)
           d == [b EXCEPT ![n] = c]
<1>1. Size \in Nat /\ n \in Nat /\ 0 \in Nat
  BY KeyboardAssumption
<1>2. s \in Seq(Chars) /\ Len(s) = n
  BY <1>1, PieceShape
<1>3. \A i \in 1 .. n : s[i] = d[0 + i - 1]
  BY <1>1 DEF Piece
<1>4. d[0 + (n + 1) - 1] = c
  BY <1>1
<1> HIDE DEF s, d
<1>5. Append(s, c) = [i \in 1 .. n + 1 |-> IF i = n + 1 THEN c ELSE s[i]]
  <2>1. /\ Append(s, c) \in Seq(Chars) /\ Len(Append(s, c)) = n + 1
        /\ Append(s, c)[n + 1] = c /\ \A i \in 1 .. n : Append(s, c)[i] = s[i]
    BY <1>2, AppendProperties
  <2>2. QED
    BY <1>1, <2>1
<1>6. \A i \in 1 .. n + 1 : (IF i = n + 1 THEN c ELSE s[i]) = d[0 + i - 1]
  BY <1>1, <1>3, <1>4
<1>7. QED
  BY <1>5, <1>6 DEF Piece, s, d

(* What is due. *)
DueShape ==
  /\ polling => Due = Piece(lineBuffer, 0, offset)
  /\ ~ polling /\ (spoiled \/ offset >= Size \/ lineBuffer[offset] = NUL) => Due = << >>
  /\ ~ polling /\ ~ spoiled =>
       \A i \in offset .. Size - 1 : EndsAt(i) => Due = Piece(lineBuffer, offset, i - offset + 1)

LEMMA DueIs == TypeOK => DueShape
<1> SUFFICES ASSUME TypeOK PROVE DueShape
  OBVIOUS
<1>1. offset \in Nat /\ Size \in Nat /\ NL # NUL
  BY KeyboardAssumption DEF TypeOK
<1>2. polling => Due = Piece(lineBuffer, 0, offset)
  <2>1. \A i \in 1 .. offset : 0 + i - 1 = i - 1
    BY <1>1
  <2>2. QED
    BY <2>1 DEF Due, Piece
<1>3. ~ polling /\ (spoiled \/ offset >= Size \/ lineBuffer[offset] = NUL) => Due = << >>
  BY DEF Due
<1>4. ASSUME ~ polling, ~ spoiled, NEW i \in offset .. Size - 1, EndsAt(i)
      PROVE  Due = Piece(lineBuffer, offset, i - offset + 1)
  <2>1. ~ (offset >= Size) /\ lineBuffer[offset] # NUL
    BY <1>1, <1>4 DEF EndsAt
  <2>2. FirstNewline = i
    <3>1. ASSUME NEW j \in offset .. Size - 1, lineBuffer[j] = NL,
                 \A k \in offset .. j - 1 : lineBuffer[k] # NL
          PROVE  j = i
      <4>1. ~ (j < i)
        BY <1>1, <1>4, <3>1 DEF EndsAt
      <4>2. ~ (i < j)
        BY <1>1, <1>4, <3>1 DEF EndsAt
      <4>3. QED
        BY <1>1, <4>1, <4>2
    <3>2. lineBuffer[i] = NL /\ \A k \in offset .. i - 1 : lineBuffer[k] # NL
      BY <1>4 DEF EndsAt
    <3>3. QED
      BY <3>1, <3>2 DEF FirstNewline
  <2>3. QED
    BY <1>4, <2>1, <2>2 DEF Due, Piece
<1>5. QED
  BY <1>2, <1>3, <1>4 DEF DueShape

-----------------------------------------------------------------------------
(* The state of LineInput. *)
Ready == ~ polling /\ Due # << >>

LEMMA HandsOver ==
  ASSUME NEW line, line # << >>, out' = Head(line), Due' = Tail(line), ~ polling',
         UNCHANGED spoiled
  PROVE  Lines!HandOver(line)
  BY DEF Lines!HandOver

LEMMA StepLines == ASSUME IInv, IInv', [Next]_vars PROVE [Lines!Next]_(Lines!lvars)
<1> USE DEF Lines!lvars
<1>1. /\ Size \in Nat /\ Size >= 2 /\ offset \in Nat /\ lineBuffer \in [0 .. Size - 1 -> Chars]
      /\ lineBuffer' \in [0 .. Size - 1 -> Chars] /\ TypeOK /\ LineInv /\ DueShape /\ DueShape'
  <2>1. DueShape'
    BY DueIs, PTL DEF IInv
  <2>2. QED
    BY <2>1, DueIs, KeyboardAssumption DEF IInv, TypeOK
<1>2. CASE GetBuffered
  <2>1. ~ polling /\ ~ polling' /\ offset' = offset + 1 /\ lineBuffer' = lineBuffer /\ spoiled' = spoiled
    BY <1>2 DEF GetBuffered
  <2>2. CASE spoiled
    BY <2>1, <2>2 DEF Lines!Next, Lines!Break
  <2>3. CASE ~ spoiled
    <3>1. PICK i \in offset + 1 .. Size - 1 : EndsAt(i) /\ EndsAt(i)'
      BY <1>1, <1>2, <2>3, GetBufferedLine
    <3> DEFINE n == i - offset + 1
    <3>2. n \in Nat /\ n # 0 /\ offset + n <= Size /\ n - 1 = i - (offset + 1) + 1
      BY <1>1, <3>1
    <3>3. Due = Piece(lineBuffer, offset, n) /\ Due' = Piece(lineBuffer, offset + 1, n - 1)
      BY <1>1, <2>1, <2>3, <3>1, <3>2 DEF DueShape
    <3>4. out' = lineBuffer[offset]
      BY <1>1, <1>2, <2>3, GetBufferedLine
    <3> HIDE DEF n
    <3>5. Due # << >> /\ out' = Head(Due) /\ Due' = Tail(Due)
      <4>1. lineBuffer \in [0 .. Size - 1 -> Chars] /\ offset \in Nat
        BY <1>1
      <4>2. /\ Piece(lineBuffer, offset, n) # << >>
            /\ Head(Piece(lineBuffer, offset, n)) = lineBuffer[offset]
            /\ Tail(Piece(lineBuffer, offset, n)) = Piece(lineBuffer, offset + 1, n - 1)
        BY ZenonT(30), <3>2, <4>1, PieceShape
      <4>3. QED
        BY <3>3, <3>4, <4>2
    <3>6. Lines!HandOver(Due)
      BY <2>1, <3>5, HandsOver
    <3>7. QED
      BY <2>1, <2>3, <3>5, <3>6 DEF Lines!Next, Lines!Deliver
  <2>4. QED
    BY <2>2, <2>3
<1>3. CASE GetNewline
  <2>1. /\ ~ polling /\ NL \in Found /\ out' = NL /\ offset' = 0
        /\ lineBuffer' = [lineBuffer EXCEPT ![0] = NUL] /\ ~ polling' /\ spoiled' = spoiled
    BY <1>3 DEF GetNewline
  <2>2. CASE spoiled
    BY <2>1, <2>2 DEF Lines!Next, Lines!Break
  <2>3. CASE ~ spoiled
    <3>1. offset < Size /\ lineBuffer[offset] = NL
      BY <1>1, <2>1, <2>3 DEF LineInv, Found
    <3>2. EndsAt(offset) /\ offset \in offset .. Size - 1 /\ offset - offset + 1 = 1 /\ offset + 1 <= Size
      BY <1>1, <3>1 DEF EndsAt
    <3>3. Due = Piece(lineBuffer, offset, 1)
      BY <1>1, <2>1, <2>3, <3>2 DEF DueShape
    <3>4. Due # << >> /\ Head(Due) = NL /\ Tail(Due) = << >>
      <4> DEFINE o == offset + 1
      <4>1. o \in Nat /\ 1 \in Nat /\ 0 \in Nat /\ 1 - 1 = 0 /\ o + 0 <= Size
        BY <1>1, <3>2
      <4>2. Due # << >> /\ Head(Due) = lineBuffer[offset] /\ Tail(Due) = Piece(lineBuffer, o, 0)
        <5> DEFINE n == 1
                   b == lineBuffer
        <5>1. /\ b \in [0 .. Size - 1 -> Chars] /\ offset \in Nat
              /\ n \in Nat /\ n # 0 /\ offset + n <= Size /\ n - 1 = 0 /\ Due = Piece(b, offset, n)
          BY <1>1, <3>2, <3>3
        <5> HIDE DEF n, b
        <5>2. Due # << >> /\ Head(Due) = b[offset] /\ Tail(Due) = Piece(b, offset + 1, n - 1)
          BY <5>1, PieceShape
        <5>3. QED
          BY <5>1, <5>2 DEF b
      <4> HIDE DEF o
      <4>3. Piece(lineBuffer, o, 0) = << >>
        BY <1>1, <4>1, PieceShape
      <4>4. QED
        BY <3>1, <4>2, <4>3
    <3>5. Due' = << >>
      BY <1>1, <2>1 DEF DueShape
    <3>6. Lines!HandOver(Due)
      BY <2>1, <3>4, <3>5, HandsOver
    <3>7. QED
      BY <2>1, <2>3, <3>4, <3>6 DEF Lines!Next, Lines!Deliver
  <2>4. QED
    BY <2>2, <2>3
<1>4. CASE StartPolling
  <2>1. /\ ~ polling /\ NUL \in Found /\ offset' = 0 /\ polling' /\ ~ spoiled' /\ lineBuffer' = lineBuffer
        /\ out' = out
    BY <1>4 DEF StartPolling
  <2>2. Due' = << >>
    <3>1. Due' = Piece(lineBuffer, 0, 0)
      BY <1>1, <2>1 DEF DueShape
    <3>2. 0 \in Nat /\ 0 + 0 <= Size
      BY <1>1
    <3>3. QED
      BY <1>1, <3>1, <3>2, PieceShape
  <2>3. CASE spoiled
    <3>1. ~ Ready' /\ ~ spoiled'
      BY <2>1 DEF Ready
    <3>2. Ready' = FALSE
      <4>1. Ready' \in BOOLEAN
        BY DEF Ready
      <4>2. QED
        BY <3>1, <4>1
    <3>3. spoiled' = FALSE
      BY <3>1, Zenon DEF IInv, TypeOK
    <3>4. QED
      BY <2>1, <2>2, <2>3, <3>2, <3>3 DEF Lines!Next, Lines!BeginLine, Ready
  <2>4. CASE ~ spoiled
    <3>1. offset < Size /\ lineBuffer[offset] = NUL
      BY <1>1, <2>1, <2>4 DEF LineInv, Found
    <3>2. Due = << >>
      BY <1>1, <2>1, <3>1 DEF DueShape
    <3>3. spoiled' = spoiled
      BY <1>1, <2>1, <2>4, Zenon DEF IInv, TypeOK
    <3>4. QED
      BY <2>1, <2>2, <3>2, <3>3
  <2>5. QED
    BY <2>3, <2>4
<1>5. CASE PressShift \/ ReleaseShift
  <2>1. polling /\ UNCHANGED <<lineBuffer, offset, polling, out, spoiled>>
    BY <1>5 DEF PressShift, ReleaseShift
  <2>2. Due = Piece(lineBuffer, 0, offset) /\ Due' = Piece(lineBuffer', 0, offset')
    BY <1>1, <2>1 DEF DueShape
  <2>3. Due' = Due
    BY <2>1, <2>2
  <2>4. QED
    BY <2>1, <2>3
<1>6. ASSUME NEW k \in Keys, PressKey(k) PROVE [Lines!Next]_(Lines!lvars)
  <2>1. polling /\ polling' /\ ~ spoiled /\ out' = out /\ spoiled' = spoiled
    BY <1>1, <1>6 DEF PressKey, LineInv
  <2>2. Due = Piece(lineBuffer, 0, offset) /\ Due' = Piece(lineBuffer', 0, offset')
    BY <1>1, <2>1 DEF DueShape
  <2>3. CASE offset >= Size
    BY <1>6, <2>1, <2>2, <2>3 DEF PressKey, Stored
  <2>4. CASE ~ (offset >= Size)
    <3>1. lineBuffer' = [lineBuffer EXCEPT ![offset] = keymap[k]] /\ offset' = offset + 1
      BY <1>6, <2>4 DEF PressKey, Stored
    <3>2. offset \in 0 .. Size - 1 /\ keymap[k] \in Chars /\ keymap[k] # NL
      BY <1>1, <2>4, KeyTyped
    <3>3. Due' = Append(Due, keymap[k])
      BY <1>1, <2>2, <3>1, <3>2, PieceAppend
    <3>4. QED
      BY <2>1, <3>2, <3>3 DEF Lines!Next, Lines!Type
  <2>5. QED
    BY <2>3, <2>4
<1>7. ASSUME NEW k \in Keys, PressEnter(k) PROVE [Lines!Next]_(Lines!lvars)
  <2>1. polling /\ ~ polling' /\ spoiled' = Spoils /\ ~ spoiled
    BY <1>1, <1>7 DEF PressEnter, LineInv
  <2>2. CASE Spoils
    BY <2>1, <2>2 DEF Lines!Next, Lines!Break
  <2>3. CASE ~ Spoils
    <3>1. /\ offset \in 0 .. Size - 1 /\ offset' = 1 /\ out' = lineBuffer'[0]
          /\ lineBuffer' = [lineBuffer EXCEPT ![offset] = NL] /\ ~ spoiled'
          /\ offset = 0 => lineBuffer'[1] = NUL
          /\ \A n \in Nat : n = offset /\ n # 0 => EndsAt(n)'
      BY <1>1, <1>7, <2>3, PressEnterLine
    <3> DEFINE line == Append(Due, NL)
    <3>2. NL \in Chars /\ Due = Piece(lineBuffer, 0, offset)
      BY <1>1, <2>1, KeyboardAssumption DEF DueShape
    <3>3. line = Piece(lineBuffer', 0, offset + 1)
      BY <1>1, <3>1, <3>2, PieceAppend
    <3>4. /\ offset + 1 \in Nat /\ offset + 1 # 0 /\ 0 \in Nat /\ 0 + (offset + 1) <= Size
          /\ (offset + 1) - 1 = offset /\ 0 + 1 = 1
      BY <1>1, <3>1
    <3> HIDE DEF line
    <3>5. line # << >> /\ Head(line) = lineBuffer'[0] /\ Tail(line) = Piece(lineBuffer', 1, offset)
      <4> DEFINE d == lineBuffer'
                 n == offset + 1
      <4>1. /\ d \in [0 .. Size - 1 -> Chars] /\ n \in Nat /\ n # 0 /\ 0 \in Nat /\ 0 + n <= Size
            /\ n - 1 = offset /\ 0 + 1 = 1 /\ line = Piece(d, 0, n)
        BY <1>1, <3>3, <3>4
      <4> HIDE DEF d, n
      <4>2. line # << >> /\ Head(line) = d[0] /\ Tail(line) = Piece(d, 0 + 1, n - 1)
        BY ZenonT(30), <4>1, PieceShape
      <4>3. QED
        BY <4>1, <4>2 DEF d
    <3>6. Due' = Tail(line)
      <4>1. CASE offset = 0
        <5>1. Due' = << >>
          BY <1>1, <2>1, <3>1, <4>1 DEF DueShape
        <5>2. 1 \in Nat /\ 0 \in Nat /\ 1 + 0 <= Size
          BY <1>1
        <5>3. Piece(lineBuffer', 1, 0) = << >>
          BY <1>1, <5>2, PieceShape
        <5>4. QED
          BY <3>5, <4>1, <5>1, <5>3
      <4>2. CASE offset # 0
        <5>1. PICK n \in Nat : n = offset /\ EndsAt(n)'
          BY <1>1, <3>1, <4>2
        <5>2. n \in 1 .. Size - 1 /\ n - 1 + 1 = n
          BY <3>1, <4>2, <5>1
        <5>3. Due' = Piece(lineBuffer', 1, n)
          BY <1>1, <2>1, <3>1, <5>1, <5>2 DEF DueShape
        <5>4. QED
          BY <3>5, <5>1, <5>3
      <4>3. QED
        BY <4>1, <4>2
    <3>7. spoiled' = spoiled
      BY <1>1, <2>1, <3>1, Zenon DEF IInv, TypeOK
    <3>8. Lines!HandOver(line)
      BY <2>1, <3>1, <3>5, <3>6, <3>7, HandsOver
    <3>9. QED
      BY <2>1, <3>8 DEF Lines!Next, Lines!EndLine, line
  <2>4. QED
    BY <2>2, <2>3
<1>8. CASE UNCHANGED vars
  BY <1>8 DEF vars, Due, FirstNewline
<1>9. QED
  BY <1>2, <1>3, <1>4, <1>5, <1>6, <1>7, <1>8 DEF Next

LEMMA InitLines == Init => Lines!Init
<1> SUFFICES ASSUME Init PROVE Lines!Init
  OBVIOUS
<1>1. ~ polling /\ offset = 0 /\ lineBuffer[0] = NUL /\ ~ spoiled
  BY KeyboardAssumption DEF Init
<1>2. Due = << >>
  BY <1>1 DEF Due
<1>3. spoiled = FALSE
  BY DEF Init
<1>4. QED
  BY <1>1, <1>2, <1>3 DEF Lines!Init

(***************************************************************************)
(* The port gives the characters of a line once each, in order, and none   *)
(* before the line is ended, unless the line is spoiled.                   *)
(***************************************************************************)
THEOREM PortImplementsLineInput == Spec => ImplementsLineInput
<1>1. IInv /\ IInv' /\ [Next]_vars => [Lines!Next]_(Lines!lvars)
  BY StepLines
<1>2. QED
  BY <1>1, InitLines, AlwaysIInv, PTL DEF Spec, ImplementsLineInput, Lines!Spec
=============================================================================
