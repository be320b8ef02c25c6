------------------------------- MODULE SvmProofs -------------------------------
(***************************************************************************)
(* The stack of the virtual machine stays in its array, and is never       *)
(* popped below its base but by a sum, for all programs that are fit.      *)
(***************************************************************************)
EXTENDS Svm, TLAPS

-----------------------------------------------------------------------------
(* Sequences of anything. *)
IsSeq(s) == \E S : s \in Seq(S)

LEMMA SeqEmpty == IsSeq(<< >>) /\ Len(<< >>) = 0
  BY DEF IsSeq

LEMMA SeqPush ==
  ASSUME NEW s, IsSeq(s), NEW v
  PROVE  LET u == <<v>> \o s
         IN  /\ IsSeq(u) /\ Len(u) = Len(s) + 1 /\ Len(s) \in Nat
             /\ u[1] = v /\ \A k \in 1 .. Len(s) : u[k + 1] = s[k]
<1>1. PICK S : s \in Seq(S)
  BY DEF IsSeq
<1> DEFINE T == S \cup {v}
<1>2. s \in Seq(T) /\ v \in T
  BY <1>1
<1> HIDE DEF T
<1>3. /\ <<v>> \o s \in Seq(T) /\ Len(<<v>> \o s) = Len(s) + 1 /\ Len(s) \in Nat
      /\ (<<v>> \o s)[1] = v /\ \A k \in 1 .. Len(s) : (<<v>> \o s)[k + 1] = s[k]
  BY <1>2
<1>4. QED
  BY <1>3 DEF IsSeq

LEMMA SeqPop ==
  ASSUME NEW s, IsSeq(s), NEW n \in 0 .. Len(s)
  PROVE  LET u == SubSeq(s, n + 1, Len(s))
         IN  IsSeq(u) /\ Len(u) = Len(s) - n /\ \A k \in 1 .. Len(s) - n : u[k] = s[k + n]
<1>1. PICK S : s \in Seq(S)
  BY DEF IsSeq
<1>2. /\ SubSeq(s, n + 1, Len(s)) \in Seq(S) /\ Len(SubSeq(s, n + 1, Len(s))) = Len(s) - n
      /\ \A k \in 1 .. Len(s) - n : SubSeq(s, n + 1, Len(s))[k] = s[k + n]
  BY <1>1
<1>3. QED
  BY <1>2 DEF IsSeq

LEMMA SeqTail ==
  ASSUME NEW s, IsSeq(s), s # << >>
  PROVE  /\ IsSeq(Tail(s)) /\ Len(s) \in Nat \ {0} /\ Len(Tail(s)) = Len(s) - 1 /\ Head(s) = s[1]
         /\ \A k \in 1 .. Len(s) - 1 : Tail(s)[k] = s[k + 1]
<1>1. PICK S : s \in Seq(S)
  BY DEF IsSeq
<1>2. /\ Tail(s) \in Seq(S) /\ Len(s) \in Nat \ {0} /\ Len(Tail(s)) = Len(s) - 1 /\ Head(s) = s[1]
      /\ \A k \in 1 .. Len(s) - 1 : Tail(s)[k] = s[k + 1]
  BY <1>1
<1>3. QED
  BY <1>2 DEF IsSeq

LEMMA SeqLen == ASSUME NEW s, IsSeq(s) PROVE Len(s) \in Nat /\ DOMAIN s = 1 .. Len(s)
  BY DEF IsSeq

-----------------------------------------------------------------------------
(* What may be in a register, a variable or on the stack: a pair is one of *)
(* the constants, and the body of a procedure begins at a point.           *)
IsValue(v) ==
  /\ v.t = "pair" => v \in Data
  /\ v.t = "closure" => Point(v.body, 0, TRUE) \in program.points

AllValues(s) == \A k \in 1 .. Len(s) : IsValue(s[k])

(* Code that takes h words at most, and has a caller only if there is one  *)
(* among the n continuations below.                                        *)
Ready(code, h, n) ==
  \E c \in BOOLEAN : Point(code, h, c) \in program.points /\ (c => n > 0)

(* Every continuation needs some words of the stack to be there when it is *)
(* resumed, from[k] the k-th and those below it; the code that runs takes  *)
(* no more than h of what is above them.                                   *)
Standing(from, h) ==
  /\ from \in [1 .. Len(cont) + 1 -> Nat] /\ from[Len(cont) + 1] = 0
  /\ h \in Nat /\ Ready(pc, h, Len(cont))
  /\ \A k \in 1 .. Len(cont) :
       from[k] >= from[k + 1] /\ Ready(cont[k].pc, from[k] - from[k + 1], Len(cont) - k)
  /\ ~ Sums => over = 0 /\ from[1] + h <= Len(stack)

Registers ==
  /\ program \in Programs
  /\ status \in {"running", "finished", "returned", "aborted", "wild"}
  /\ IsSeq(stack) /\ Len(stack) <= StackSize /\ over \in Nat
  /\ IsSeq(cont) /\ free \in 0 .. Conts /\ Len(cont) <= Conts - free
  /\ IsSeq(binds) /\ Len(binds) = program.globals

Holding == IsValue(value) /\ AllValues(stack) /\ AllValues(binds)

IInv == Registers /\ Holding /\ \E from, h : Standing(from, h)

(* The point the program is at, and what it says of the instruction there. *)
LEMMA AtPoint ==
  ASSUME program \in Programs, NEW x \in program.points
  PROVE  /\ Fit(x) /\ IsSeq(x.code) /\ After(x) \subseteq program.points
         /\ x.code # << >> => Head(x.code) \in Range(program.all)
<1>1. Fit(x) /\ x.code \in Seq(Range(program.all)) /\ After(x) \subseteq program.points
  BY SvmAssumption
<1>2. IsSeq(x.code)
  BY <1>1 DEF IsSeq
<1>3. x.code # << >> => Head(x.code) \in Range(program.all)
  <2> DEFINE S == Range(program.all)
  <2>1. x.code \in Seq(S)
    BY <1>1
  <2> HIDE DEF S
  <2>2. x.code # << >> => Head(x.code) \in S
    BY <2>1
  <2>3. QED
    BY <2>2 DEF S
<1>4. QED
  BY <1>1, <1>2, <1>3

LEMMA Initially == Init => IInv
<1> SUFFICES ASSUME Init PROVE IInv
  OBVIOUS
<1>1. program \in Programs /\ program.globals \in Nat /\ Point(program.code, 0, FALSE) \in program.points
  BY SvmAssumption DEF Init
<1>2. IsValue(Junk)
  BY DEF IsValue, Junk
<1>3. IsSeq(binds) /\ Len(binds) = program.globals /\ \A k \in 1 .. Len(binds) : binds[k] = Junk
  <2>1. binds = [i \in 1 .. program.globals |-> Junk]
    BY DEF Init
  <2>2. binds \in Seq({Junk}) /\ Len(binds) = program.globals
    BY <1>1, <2>1
  <2>3. QED
    BY <2>1, <2>2 DEF IsSeq
<1>4. Registers
  BY <1>1, <1>3, SeqEmpty, SvmAssumption DEF Init, Registers
<1>5. Holding
  <2>1. AllValues(binds) /\ IsValue(value)
    BY <1>2, <1>3 DEF Init, AllValues
  <2>2. AllValues(stack)
    <3>1. stack = << >> /\ Len(stack) = 0
      BY SeqEmpty DEF Init
    <3>2. QED
      BY <3>1 DEF AllValues
  <2>3. QED
    BY <2>1, <2>2 DEF Holding
<1>6. Standing([k \in 1 .. 1 |-> 0], 0)
  <2> DEFINE none == [k \in 1 .. 1 |-> 0]
  <2>1. cont = << >> /\ Len(cont) = 0 /\ stack = << >> /\ Len(stack) = 0 /\ over = 0 /\ pc = program.code
    BY SeqEmpty DEF Init
  <2>2. none \in [1 .. Len(cont) + 1 -> Nat] /\ none[Len(cont) + 1] = 0 /\ none[1] + 0 <= Len(stack)
    BY <2>1
  <2>3. \A k \in 1 .. Len(cont) : FALSE
    BY <2>1
  <2> HIDE DEF none
  <2>4. Ready(pc, 0, Len(cont))
    BY <1>1, <2>1 DEF Ready
  <2>5. Standing(none, 0)
    BY <2>1, <2>2, <2>3, <2>4 DEF Standing
  <2>6. QED
    BY <2>5 DEF none
<1>7. QED
  BY <1>4, <1>5, <1>6 DEF IInv

LEMMA Here ==
  ASSUME Registers, NEW from, NEW h, Standing(from, h), pc # << >>
  PROVE  LET i  == Head(pc)
             on == Tail(pc)
             P(c, n) == Ready(c, n, Len(cont))
         IN  /\ h \in Nat /\ IsSeq(pc) /\ i \in Range(program.all)
             /\ i.op = "FetchConst"              => i.d \in Data
             /\ i.op \in {"LookupVar", "Bind"}   => i.at.offset \in Nat
             /\ i.op = "CallBuiltin"             => i.argc \in Nat
             /\ i.op = "AccStack"                => i.i \in Nat
             /\ i.op = "MoveSp"                  => i.n \in 0 .. h /\ P(on, h - i.n)
             /\ i.op = "Push"                    => P(on, h + 1)
             /\ i.op = "If"                      => P(i.a \o on, h) /\ P(i.b \o on, h)
             /\ i.op = "Goto"                    => P(Behind(on, i.l), h)
             /\ i.op = "PushCont"                => Point(on, 0, TRUE) \in program.points /\ P(Behind(pc, i.l), h)
             /\ i.op = "MakeClosure"             => P(on, h) /\ Point(i.body, 0, TRUE) \in program.points
             /\ i.op \in {"Apply", "LeaveProc"}   => Len(cont) > 0
             /\ i.op \in {"FetchConst", "LookupVar", "Bind", "AccStack", "Label", "CallBuiltin"} => P(on, h)
<1>1. h \in Nat /\ program \in Programs /\ Ready(pc, h, Len(cont))
  BY DEF Standing, Registers
<1>2. PICK c \in BOOLEAN : Point(pc, h, c) \in program.points /\ (c => Len(cont) > 0)
  BY <1>1 DEF Ready
<1> DEFINE x == Point(pc, h, c)
           Q(code, n, d) == Point(code, n, d) \in program.points
<1>3. x \in program.points /\ x.code = pc /\ x.height = h /\ x.caller = c
  BY <1>2 DEF Point
<1>4. Fit(x) /\ IsSeq(x.code) /\ After(x) \subseteq program.points /\ Head(pc) \in Range(program.all)
  BY <1>1, <1>3, AtPoint
<1> HIDE DEF x
<1>5. LET i  == Head(pc)
          on == Tail(pc)
      IN  /\ i.op = "MoveSp"                  => Q(on, h - i.n, c)
          /\ i.op = "Push"                    => Q(on, h + 1, c)
          /\ i.op = "If"                      => Q(i.a \o on, h, c) /\ Q(i.b \o on, h, c)
          /\ i.op = "Goto"                    => Q(Behind(on, i.l), h, c)
          /\ i.op = "PushCont"                => Q(on, 0, TRUE) /\ Q(Behind(pc, i.l), h, c)
          /\ i.op = "MakeClosure"             => Q(on, h, c) /\ Q(i.body, 0, TRUE)
          /\ i.op \in {"FetchConst", "LookupVar", "Bind", "AccStack", "Label", "CallBuiltin"} => Q(on, h, c)
  BY <1>3, <1>4 DEF After
<1>6. \A code, n : (Q(code, n, c) => Ready(code, n, Len(cont))) /\ (Q(code, n, TRUE) => Point(code, n, TRUE) \in program.points)
  BY <1>2 DEF Ready
<1>7. LET i  == Head(pc)
      IN  /\ i.op = "FetchConst"              => i.d \in Data
          /\ i.op \in {"LookupVar", "Bind"}   => i.at.offset \in Nat
          /\ i.op = "CallBuiltin"             => i.argc \in Nat
          /\ i.op = "AccStack"                => i.i \in Nat
          /\ i.op = "MoveSp"                  => i.n \in 0 .. h
  BY <1>3, <1>4 DEF Fit
<1>8. Head(pc).op \in {"Apply", "LeaveProc"} => Len(cont) > 0
  BY <1>2, <1>3, <1>4 DEF Fit
<1>9. IsSeq(pc)
  BY <1>3, <1>4
<1> HIDE DEF Q
<1>10. \A code : Q(code, 0, TRUE) => Point(code, 0, TRUE) \in program.points
  BY DEF Q
<1>11. QED
  BY <1>1, <1>4, <1>5, <1>6, <1>7, <1>8, <1>9, <1>10

(* Where the continuations stay and the code takes what is there. *)
LEMMA GoesOn ==
  ASSUME NEW from, NEW h, Standing(from, h), UNCHANGED <<program, cont>>,
         NEW n \in Nat, Ready(pc', n, Len(cont)),
         ~ Sums => over' = 0 /\ from[1] + n <= Len(stack')
  PROVE  Standing(from, n)'
<1>1. /\ from \in [1 .. Len(cont') + 1 -> Nat] /\ from[Len(cont') + 1] = 0
      /\ ~ Sums' => over' = 0 /\ from[1] + n <= Len(stack')
  BY DEF Standing, Sums
<1>2. Ready(pc, n, Len(cont))'
  BY DEF Ready
<1>3. ASSUME NEW k \in 1 .. Len(cont')
      PROVE  from[k] >= from[k + 1] /\ Ready(cont[k].pc, from[k] - from[k + 1], Len(cont) - k)'
  BY DEF Standing, Ready
<1>4. QED
  BY <1>1, <1>2, <1>3 DEF Standing

LEMMA Sizes ==
  ASSUME Registers, NEW from, NEW h, Standing(from, h)
  PROVE  from[1] \in Nat /\ h \in Nat /\ Len(stack) \in Nat /\ Len(cont) \in Nat
<1>1. Len(stack) \in Nat /\ Len(cont) \in Nat
  BY SeqLen DEF Registers
<1>2. from \in [1 .. Len(cont) + 1 -> Nat] /\ h \in Nat
  BY DEF Standing
<1>3. 1 \in 1 .. Len(cont) + 1
  BY <1>1
<1>4. QED
  BY <1>1, <1>2, <1>3

(* A step that leaves the stack alone. *)
LEMMA Loads ==
  ASSUME IInv, status = "running", NEW v, IsValue(v), Load(v), NextPc,
         \A h : (\E from : Standing(from, h)) => Ready(Tail(pc), h, Len(cont))
  PROVE  IInv'
<1>1. UNCHANGED <<program, cont, free, stack, over, binds, status>> /\ value' = v /\ pc' = Tail(pc)
  BY DEF Load, NextPc
<1>2. Registers'
  BY <1>1 DEF IInv, Registers, IsSeq
<1>3. Holding'
  BY <1>1 DEF IInv, Holding, AllValues, IsValue
<1>4. PICK from, h : Standing(from, h)
  BY DEF IInv
<1>5. Standing(from, h)'
  BY <1>1, <1>4, GoesOn DEF Standing
<1>6. QED
  BY <1>2, <1>3, <1>5 DEF IInv

LEMMA Stops ==
  ASSUME IInv, NEW how \in {"finished", "returned", "aborted", "wild"}, Stop(how)
  PROVE  IInv'
<1>1. UNCHANGED <<program, cont, free, stack, over, binds, value, pc>> /\ status' = how
  BY DEF Stop, regs
<1>2. Registers'
  BY <1>1 DEF IInv, Registers, IsSeq
<1>3. Holding'
  BY <1>1 DEF IInv, Holding, AllValues, IsValue
<1>4. PICK from, h : Standing(from, h)
  BY DEF IInv
<1>5. Standing(from, h)'
  BY <1>1, <1>4, GoesOn DEF Standing
<1>6. QED
  BY <1>2, <1>3, <1>5 DEF IInv

(* A step that moves in the code, with the stack as it is. *)
LEMMA Moves ==
  ASSUME IInv, UNCHANGED regs, status' = status,
         \A from, h : Standing(from, h) => \E n \in 0 .. h : Ready(pc', n, Len(cont))
  PROVE  IInv'
<1>1. UNCHANGED <<program, cont, free, stack, over, binds, value>>
  BY DEF regs
<1>2. Registers'
  BY <1>1 DEF IInv, Registers, IsSeq
<1>3. Holding'
  BY <1>1 DEF IInv, Holding, AllValues, IsValue
<1>4. PICK from, h : Standing(from, h)
  BY DEF IInv
<1>5. PICK n \in 0 .. h : Ready(pc', n, Len(cont))
  BY <1>4
<1>6. from[1] \in Nat /\ h \in Nat /\ Len(stack) \in Nat
  BY <1>4, Sizes DEF IInv
<1>7. n \in Nat /\ (~ Sums => over' = 0 /\ from[1] + n <= Len(stack'))
  BY <1>1, <1>4, <1>5, <1>6 DEF Standing
<1>8. Standing(from, n)'
  BY <1>1, <1>4, <1>5, <1>7, GoesOn
<1>9. QED
  BY <1>2, <1>3, <1>8 DEF IInv

-----------------------------------------------------------------------------
LEMMA FetchConstKeeps == ASSUME IInv, FetchConst PROVE IInv'
<1> DEFINE d == Head(pc).d
           v == IF d.t = "integer" THEN Num(Wrapped(d.n)) ELSE d
<1>1. status = "running" /\ pc # << >> /\ Head(pc).op = "FetchConst" /\ Load(v) /\ NextPc
  BY DEF FetchConst, At
<1>2. d \in Data /\ \A h : (\E from : Standing(from, h)) => Ready(Tail(pc), h, Len(cont))
  BY <1>1, Here DEF IInv
<1>3. IsValue(v)
  <2>1. CASE d.t = "integer"
    BY <2>1 DEF IsValue, Num
  <2>2. CASE d.t # "integer"
    BY <1>2, <2>2, SvmAssumption DEF IsValue
  <2>3. QED
    BY <2>1, <2>2
<1> HIDE DEF d, v
<1>4. QED
  BY <1>1, <1>2, <1>3, Loads

LEMMA LookupKeeps == ASSUME IInv, Lookup PROVE IInv'
<1> DEFINE at == Head(pc).at
<1>1. /\ status = "running" /\ pc # << >> /\ Head(pc).op = "LookupVar"
      /\ \/ InFrame(at) /\ Load(binds[at.offset + 1]) /\ NextPc
         \/ Stop("wild")
  BY DEF Lookup, At
<1>2. at.offset \in Nat /\ \A h : (\E from : Standing(from, h)) => Ready(Tail(pc), h, Len(cont))
  BY <1>1, Here DEF IInv
<1>3. CASE InFrame(at) /\ Load(binds[at.offset + 1]) /\ NextPc
  <2>1. at.offset + 1 \in 1 .. Len(binds)
    BY <1>2, <1>3, SeqLen DEF InFrame, IInv, Registers
  <2>2. IsValue(binds[at.offset + 1])
    BY <2>1 DEF IInv, Holding, AllValues
  <2>3. QED
    BY <1>1, <1>2, <1>3, <2>2, Loads
<1>4. CASE Stop("wild")
  BY <1>4, Stops
<1>5. QED
  BY <1>1, <1>3, <1>4

LEMMA BindVarKeeps == ASSUME IInv, BindVar PROVE IInv'
<1> DEFINE at == Head(pc).at
<1>1. /\ status = "running" /\ pc # << >> /\ Head(pc).op = "Bind"
      /\ \/ /\ InFrame(at) /\ binds' = [binds EXCEPT ![at.offset + 1] = value]
            /\ UNCHANGED <<program, value, cont, free, stack, over, out>> /\ NextPc
         \/ Stop("wild")
  BY DEF BindVar, At
<1>2. at.offset \in Nat /\ \A h : (\E from : Standing(from, h)) => Ready(Tail(pc), h, Len(cont))
  BY <1>1, Here DEF IInv
<1>3. CASE /\ InFrame(at) /\ binds' = [binds EXCEPT ![at.offset + 1] = value]
           /\ UNCHANGED <<program, value, cont, free, stack, over, out>> /\ NextPc
  <2>1. at.offset + 1 \in 1 .. Len(binds)
    BY <1>2, <1>3, SeqLen DEF InFrame, IInv, Registers
  <2>2. /\ IsSeq(binds') /\ Len(binds') = Len(binds) /\ binds'[at.offset + 1] = value
        /\ \A j \in 1 .. Len(binds) : j # at.offset + 1 => binds'[j] = binds[j]
    <3>1. PICK S : binds \in Seq(S)
      BY DEF IInv, Registers, IsSeq
    <3> DEFINE T == S \cup {value}
               k == at.offset + 1
    <3>2. binds \in Seq(T) /\ value \in T /\ k \in 1 .. Len(binds) /\ binds' = [binds EXCEPT ![k] = value]
      BY <1>3, <2>1, <3>1
    <3> HIDE DEF T, k
    <3>3. /\ binds' \in Seq(T) /\ Len(binds') = Len(binds) /\ binds'[k] = value
          /\ \A j \in 1 .. Len(binds) : j # k => binds'[j] = binds[j]
      BY <3>2
    <3>4. QED
      BY <3>3 DEF k, IsSeq
  <2>3. Registers'
    BY <1>3, <2>2 DEF IInv, Registers, IsSeq, NextPc
  <2>4. \A k \in 1 .. Len(binds) : IsValue(binds'[k])
    <3> SUFFICES ASSUME NEW k \in 1 .. Len(binds) PROVE IsValue(binds'[k])
      OBVIOUS
    <3>1. IsValue(value) /\ IsValue(binds[k])
      BY DEF IInv, Holding, AllValues
    <3>2. binds'[k] = value \/ binds'[k] = binds[k]
      BY <2>2
    <3>3. QED
      BY <3>1, <3>2
  <2>5. Holding'
    BY <1>3, <2>2, <2>4 DEF IInv, Holding, AllValues, IsValue
  <2>6. PICK from, h : Standing(from, h)
    BY DEF IInv
  <2>7. Standing(from, h)'
    BY <1>2, <1>3, <2>6, GoesOn DEF Standing, NextPc
  <2>8. QED
    BY <2>3, <2>5, <2>7 DEF IInv
<1>4. CASE Stop("wild")
  BY <1>4, Stops
<1>5. QED
  BY <1>1, <1>3, <1>4

LEMMA PushKeeps == ASSUME IInv, Push PROVE IInv'
<1>1. /\ status = "running" /\ pc # << >> /\ Head(pc).op = "Push"
      /\ \/ Stop("returned")
         \/ Stop("wild")
         \/ /\ Len(stack) # StackSize /\ stack' = <<value>> \o stack
            /\ UNCHANGED <<program, value, cont, free, over, binds, out>> /\ NextPc
  BY DEF Push, At
<1>2. CASE Stop("returned") \/ Stop("wild")
  BY <1>2, Stops
<1>3. CASE /\ Len(stack) # StackSize /\ stack' = <<value>> \o stack
           /\ UNCHANGED <<program, value, cont, free, over, binds, out>> /\ NextPc
  <2>1. /\ IsSeq(stack') /\ Len(stack') = Len(stack) + 1 /\ Len(stack) \in Nat
        /\ stack'[1] = value /\ \A k \in 1 .. Len(stack) : stack'[k + 1] = stack[k]
    <3> DEFINE u == <<value>> \o stack
    <3>1. IsSeq(stack) /\ stack' = u
      BY <1>3 DEF IInv, Registers
    <3>2. /\ IsSeq(u) /\ Len(u) = Len(stack) + 1 /\ Len(stack) \in Nat
          /\ u[1] = value /\ \A k \in 1 .. Len(stack) : u[k + 1] = stack[k]
      BY <3>1, SeqPush
    <3> HIDE DEF u
    <3>3. QED
      BY <3>1, <3>2
  <2>2. Registers'
    BY <1>3, <2>1, SvmAssumption DEF IInv, Registers, IsSeq, NextPc
  <2>3. \A k \in 1 .. Len(stack) + 1 : k = 1 \/ (k - 1 \in 1 .. Len(stack) /\ stack'[(k - 1) + 1] = stack[k - 1])
    BY <2>1
  <2>4. \A k \in 1 .. Len(stack) + 1 : IsValue(stack'[k])
    <3> SUFFICES ASSUME NEW k \in 1 .. Len(stack) + 1 PROVE IsValue(stack'[k])
      OBVIOUS
    <3>1. CASE k = 1
      BY <2>1, <3>1 DEF IInv, Holding
    <3>2. CASE k # 1
      <4>1. k - 1 \in 1 .. Len(stack) /\ (k - 1) + 1 = k
        BY <2>1, <3>2
      <4>2. stack'[k] = stack[k - 1]
        BY <2>1, <4>1
      <4>3. QED
        BY <4>1, <4>2 DEF IInv, Holding, AllValues
    <3>3. QED
      BY <3>1, <3>2
  <2>5. Holding'
    BY <1>3, <2>1, <2>4 DEF IInv, Holding, AllValues, IsValue
  <2>6. PICK from, h : Standing(from, h)
    BY DEF IInv
  <2>7. from[1] \in Nat /\ h \in Nat /\ Ready(Tail(pc), h + 1, Len(cont))
    BY <1>1, <2>6, Sizes, Here DEF IInv
  <2>8. ~ Sums => over' = 0 /\ from[1] + (h + 1) <= Len(stack')
    BY <1>3, <2>1, <2>6, <2>7 DEF Standing
  <2>9. Standing(from, h + 1)'
    BY <1>3, <2>6, <2>7, <2>8, GoesOn DEF NextPc
  <2>10. QED
    BY <2>2, <2>5, <2>9 DEF IInv
<1>4. QED
  BY <1>1, <1>2, <1>3

(* What is left on the stack was there before. *)
LEMMA PoppedStack ==
  ASSUME Registers, NEW n \in Nat, Popped(n)
  PROVE  /\ IsSeq(stack') /\ Len(stack') \in 0 .. Len(stack) /\ over' \in Nat
         /\ n <= Len(stack) => over' = over /\ Len(stack') = Len(stack) - n
         /\ \A k \in 1 .. Len(stack') : \E j \in 1 .. Len(stack) : stack'[k] = stack[j]
<1>1. IsSeq(stack) /\ Len(stack) \in Nat /\ over \in Nat
  BY SeqLen DEF Registers
<1>2. /\ stack' = IF n >= Len(stack) THEN << >> ELSE SubSeq(stack, n + 1, Len(stack))
      /\ over' = IF n > Len(stack) THEN over + n - Len(stack) ELSE over
  BY DEF Popped
<1>3. over' \in Nat /\ (n <= Len(stack) => over' = over)
  BY <1>1, <1>2
<1>4. CASE n >= Len(stack)
  <2>1. stack' = << >> /\ Len(stack') = 0 /\ IsSeq(stack')
    BY <1>2, <1>4, SeqEmpty
  <2>2. \A k \in 1 .. Len(stack') : FALSE
    BY <2>1
  <2>3. n <= Len(stack) => Len(stack') = Len(stack) - n
    BY <1>1, <1>4, <2>1
  <2>4. Len(stack') \in 0 .. Len(stack)
    BY <1>1, <2>1
  <2>5. QED
    BY <1>3, <2>1, <2>2, <2>3, <2>4
<1>5. CASE n < Len(stack)
  <2>1. n \in 0 .. Len(stack) /\ stack' = SubSeq(stack, n + 1, Len(stack))
    BY <1>1, <1>2, <1>5
  <2>2. IsSeq(stack') /\ Len(stack') = Len(stack) - n /\ \A k \in 1 .. Len(stack) - n : stack'[k] = stack[k + n]
    BY <1>1, <2>1, SeqPop
  <2>3. \A k \in 1 .. Len(stack) - n : k + n \in 1 .. Len(stack)
    BY <1>1, <1>5
  <2>4. Len(stack') \in 0 .. Len(stack)
    BY <1>1, <1>5, <2>2
  <2>5. QED
    BY <1>3, <2>2, <2>3, <2>4
<1>6. QED
  BY <1>1, <1>4, <1>5

LEMMA Pops ==
  ASSUME IInv, NEW n \in Nat, Popped(n), IsValue(value'), NextPc,
         UNCHANGED <<program, cont, free, binds>>,
         NEW from, NEW h, Standing(from, h), NEW m \in Nat, Ready(Tail(pc), m, Len(cont)),
         ~ Sums => n + m <= h
  PROVE  IInv'
<1>1. /\ IsSeq(stack') /\ Len(stack') \in 0 .. Len(stack) /\ over' \in Nat
      /\ n <= Len(stack) => over' = over /\ Len(stack') = Len(stack) - n
      /\ \A k \in 1 .. Len(stack') : \E j \in 1 .. Len(stack) : stack'[k] = stack[j]
  BY PoppedStack DEF IInv
<1>2. from[1] \in Nat /\ h \in Nat /\ Len(stack) \in Nat
  BY Sizes DEF IInv
<1>3. Registers'
  <2>1. Len(stack') <= StackSize
    BY <1>1, <1>2, SvmAssumption DEF IInv, Registers
  <2>2. QED
    BY <1>1, <2>1 DEF IInv, Registers, IsSeq, NextPc
<1>4. \A k \in 1 .. Len(stack') : IsValue(stack'[k])
  <2> SUFFICES ASSUME NEW k \in 1 .. Len(stack') PROVE IsValue(stack'[k])
    OBVIOUS
  <2>1. PICK j \in 1 .. Len(stack) : stack'[k] = stack[j]
    BY <1>1
  <2>2. QED
    BY <2>1 DEF IInv, Holding, AllValues
<1>5. Holding'
  BY <1>4 DEF IInv, Holding, AllValues, IsValue
<1>6. ~ Sums => over' = 0 /\ from[1] + m <= Len(stack')
  BY <1>1, <1>2 DEF Standing
<1>7. Standing(from, m)'
  BY <1>6, GoesOn DEF NextPc
<1>8. QED
  BY <1>3, <1>5, <1>7 DEF IInv

LEMMA PopKeeps == ASSUME IInv, Pop PROVE IInv'
<1>1. /\ pc # << >> /\ Head(pc).op = "MoveSp" /\ Popped(Head(pc).n)
      /\ UNCHANGED <<program, value, cont, free, binds>> /\ NextPc
  BY DEF Pop, At
<1>2. PICK from, h : Standing(from, h)
  BY DEF IInv
<1>3. h \in Nat /\ Head(pc).n \in 0 .. h /\ Ready(Tail(pc), h - Head(pc).n, Len(cont))
  BY <1>1, <1>2, Here DEF IInv
<1>4. h - Head(pc).n \in Nat /\ Head(pc).n \in Nat /\ Head(pc).n + (h - Head(pc).n) <= h
  BY <1>3
<1>5. IsValue(value')
  BY <1>1 DEF IInv, Holding
<1>6. QED
  BY <1>1, <1>2, <1>3, <1>4, <1>5, Pops

LEMMA AddKeeps == ASSUME IInv, Add PROVE IInv'
<1>1. /\ pc # << >> /\ Head(pc).op = "CallBuiltin" /\ Head(pc).f = "+" /\ Popped(Head(pc).argc)
      /\ value' = AddValue(Arguments) /\ UNCHANGED <<program, cont, free, binds>> /\ NextPc
  BY DEF Add, Calls, At
<1>2. PICK from, h : Standing(from, h)
  BY DEF IInv
<1>3. h \in Nat /\ Head(pc).argc \in Nat /\ Ready(Tail(pc), h, Len(cont)) /\ Head(pc) \in Range(program.all)
  BY <1>1, <1>2, Here DEF IInv
<1>4. ~ Sums => Head(pc).argc + h <= h
  <2>1. ~ Sums => ~ (Head(pc).argc > 0)
    BY <1>1, <1>3 DEF Sums
  <2>2. QED
    BY <1>3, <2>1
<1>5. IsValue(value')
  BY <1>1 DEF AddValue, Num, Junk, IsValue
<1>6. QED
  BY <1>1, <1>2, <1>3, <1>4, <1>5, Pops

LEMMA AccessKeeps == ASSUME IInv, Access PROVE IInv'
<1> DEFINE i == Head(pc).i
<1>1. /\ status = "running" /\ pc # << >> /\ Head(pc).op = "AccStack"
      /\ \/ Stop("aborted")
         \/ ~ (i >= Len(stack) - over) /\ Load(stack[i + 1]) /\ NextPc
  BY DEF Access, At
<1>2. CASE Stop("aborted")
  BY <1>2, Stops
<1>3. CASE ~ (i >= Len(stack) - over) /\ Load(stack[i + 1]) /\ NextPc
  <2>1. i \in Nat /\ \A h : (\E from : Standing(from, h)) => Ready(Tail(pc), h, Len(cont))
    BY <1>1, Here DEF IInv
  <2>2. i + 1 \in 1 .. Len(stack)
    BY <1>3, <2>1, SeqLen DEF IInv, Registers
  <2>3. IsValue(stack[i + 1])
    BY <2>2 DEF IInv, Holding, AllValues
  <2>4. QED
    BY <1>1, <1>3, <2>1, <2>3, Loads
<1>4. QED
  BY <1>1, <1>2, <1>3

LEMMA BranchKeeps == ASSUME IInv, Branch PROVE IInv'
<1>1. /\ pc # << >> /\ Head(pc).op = "If" /\ UNCHANGED regs /\ UNCHANGED status
      /\ pc' \in {Head(pc).a \o Tail(pc), Head(pc).b \o Tail(pc)}
  BY DEF Branch, At
<1>2. ASSUME NEW from, NEW h, Standing(from, h) PROVE \E n \in 0 .. h : Ready(pc', n, Len(cont))
  <2>1. h \in Nat /\ Ready(Head(pc).a \o Tail(pc), h, Len(cont))
                  /\ Ready(Head(pc).b \o Tail(pc), h, Len(cont))
    BY <1>1, <1>2, Here DEF IInv
  <2>2. Ready(pc', h, Len(cont))
    <3>1. CASE pc' = Head(pc).a \o Tail(pc)
      BY <2>1, <3>1
    <3>2. CASE pc' = Head(pc).b \o Tail(pc)
      BY <2>1, <3>2
    <3>3. QED
      BY <1>1, <3>1, <3>2
  <2>3. QED
    BY <2>1, <2>2
<1>3. QED
  BY <1>1, <1>2, Moves

LEMMA JumpKeeps == ASSUME IInv, Jump PROVE IInv'
<1>1. /\ pc # << >> /\ Head(pc).op = "Goto" /\ UNCHANGED regs /\ UNCHANGED status
      /\ pc' = Behind(Tail(pc), Head(pc).l)
  BY DEF Jump, At
<1>2. ASSUME NEW from, NEW h, Standing(from, h) PROVE \E n \in 0 .. h : Ready(pc', n, Len(cont))
  <2>1. h \in Nat /\ Ready(pc', h, Len(cont))
    BY <1>1, <1>2, Here DEF IInv
  <2>2. QED
    BY <2>1
<1>3. QED
  BY <1>1, <1>2, Moves

LEMMA PassKeeps == ASSUME IInv, Pass PROVE IInv'
<1>1. pc # << >> /\ Head(pc).op = "Label" /\ UNCHANGED regs /\ UNCHANGED status /\ pc' = Tail(pc)
  BY DEF Pass, At, NextPc
<1>2. ASSUME NEW from, NEW h, Standing(from, h) PROVE \E n \in 0 .. h : Ready(pc', n, Len(cont))
  <2>1. h \in Nat /\ Ready(pc', h, Len(cont))
    BY <1>1, <1>2, Here DEF IInv
  <2>2. QED
    BY <2>1
<1>3. QED
  BY <1>1, <1>2, Moves

LEMMA CloseKeeps == ASSUME IInv, Close PROVE IInv'
<1> DEFINE v == [t |-> "closure", body |-> Head(pc).body]
<1>1. status = "running" /\ pc # << >> /\ Head(pc).op = "MakeClosure" /\ Load(v) /\ NextPc
  BY DEF Close, At
<1>2. \A h : (\E from : Standing(from, h)) =>
        Ready(Tail(pc), h, Len(cont)) /\ Point(Head(pc).body, 0, TRUE) \in program.points
  BY <1>1, Here DEF IInv
<1>3. IsValue(v)
  BY <1>2 DEF IInv, IsValue
<1> HIDE DEF v
<1>4. QED
  BY <1>1, <1>2, <1>3, Loads

LEMMA ApplyKeeps == ASSUME IInv, Apply PROVE IInv'
<1>1. /\ pc # << >> /\ Head(pc).op = "Apply"
      /\ \/ Stop("wild")
         \/ value.t = "closure" /\ pc' = value.body /\ UNCHANGED regs /\ UNCHANGED status
  BY DEF Apply, At
<1>2. CASE Stop("wild")
  BY <1>2, Stops
<1>3. CASE value.t = "closure" /\ pc' = value.body /\ UNCHANGED regs /\ UNCHANGED status
  <2>1. Len(cont) > 0
    BY <1>1, Here DEF IInv
  <2>2. Point(pc', 0, TRUE) \in program.points
    BY <1>3 DEF IInv, Holding, IsValue
  <2>3. Ready(pc', 0, Len(cont))
    BY <2>1, <2>2 DEF Ready
  <2>4. ASSUME NEW from, NEW h, Standing(from, h) PROVE \E n \in 0 .. h : Ready(pc', n, Len(cont))
    BY <2>3, <2>4 DEF Standing
  <2>5. QED
    BY <1>3, <2>4, Moves
<1>4. QED
  BY <1>1, <1>2, <1>3

LEMMA CarCdrKeeps == ASSUME IInv, CarCdr PROVE IInv'
<1> DEFINE p == Head(stack)
           v == IF Head(pc).f = "car" THEN p.car ELSE p.cdr
<1>1. /\ status = "running" /\ pc # << >> /\ Head(pc).op = "CallBuiltin"
      /\ \/ Stop("wild")
         \/ stack # << >> /\ p.t = "pair" /\ Load(v) /\ NextPc
  BY DEF CarCdr, Calls, At
<1>2. CASE Stop("wild")
  BY <1>2, Stops
<1>3. CASE stack # << >> /\ p.t = "pair" /\ Load(v) /\ NextPc
  <2>1. p = stack[1] /\ 1 \in 1 .. Len(stack)
    BY <1>3, SeqTail DEF IInv, Registers
  <2>2. p \in Data
    BY <1>3, <2>1 DEF IInv, Holding, AllValues, IsValue
  <2>3. v \in Data
    BY <1>3, <2>2, SvmAssumption
  <2>4. IsValue(v)
    BY <2>3, SvmAssumption DEF IsValue
  <2>5. \A h : (\E from : Standing(from, h)) => Ready(Tail(pc), h, Len(cont))
    BY <1>1, Here DEF IInv
  <2> HIDE DEF v
  <2>6. QED
    BY <1>1, <1>3, <2>4, <2>5, Loads
<1>4. QED
  BY <1>1, <1>2, <1>3

LEMMA DisplayKeeps == ASSUME IInv, Display PROVE IInv'
<1>1. /\ pc # << >> /\ Head(pc).op = "CallBuiltin"
      /\ UNCHANGED <<program, value, cont, free, stack, over, binds>> /\ NextPc
  BY DEF Display, Calls, At
<1>2. Registers'
  BY <1>1 DEF IInv, Registers, IsSeq, NextPc
<1>3. Holding'
  BY <1>1 DEF IInv, Holding, AllValues, IsValue
<1>4. PICK from, h : Standing(from, h)
  BY DEF IInv
<1>5. Ready(pc', h, Len(cont))
  BY <1>1, <1>4, Here DEF IInv, NextPc
<1>6. Standing(from, h)'
  BY <1>1, <1>4, <1>5, GoesOn DEF Standing
<1>7. QED
  BY <1>2, <1>3, <1>6 DEF IInv

LEMMA SaveContKeeps == ASSUME IInv, SaveCont PROVE IInv'
<1> DEFINE saved == Continuation(Behind(pc, Head(pc).l))
<1>1. /\ pc # << >> /\ Head(pc).op = "PushCont"
      /\ \/ Stop("returned")
         \/ /\ free # 0 /\ cont' = <<saved>> \o cont /\ free' = free - 1
            /\ UNCHANGED <<program, value, stack, over, binds, out>> /\ NextPc
  BY DEF SaveCont, At, NoMemory, Taken
<1>2. CASE Stop("returned")
  BY <1>2, Stops
<1>3. CASE /\ free # 0 /\ cont' = <<saved>> \o cont /\ free' = free - 1
           /\ UNCHANGED <<program, value, stack, over, binds, out>> /\ NextPc
  <2>1. PICK from, h : Standing(from, h)
    BY DEF IInv
  <2>2. from[1] \in Nat /\ h \in Nat /\ Len(stack) \in Nat /\ Len(cont) \in Nat
    BY <2>1, Sizes DEF IInv
  <2>3. saved.pc = Behind(pc, Head(pc).l) /\ Point(Tail(pc), 0, TRUE) \in program.points
    BY <1>1, <2>1, Here DEF IInv, Continuation
  <2>4. Ready(saved.pc, h, Len(cont))
    BY <1>1, <2>1, <2>3, Here DEF IInv
  <2> HIDE DEF saved
  <2>5. /\ IsSeq(cont') /\ Len(cont') = Len(cont) + 1
        /\ cont'[1] = saved /\ \A k \in 1 .. Len(cont) : cont'[k + 1] = cont[k]
    BY <1>3, SeqPush DEF IInv, Registers
  <2>6. free' \in 0 .. Conts /\ Len(cont') <= Conts - free'
    <3>1. Conts \in Nat
      BY SvmAssumption
    <3>2. free \in 0 .. Conts /\ Len(cont) <= Conts - free
      BY DEF IInv, Registers
    <3>3. free # 0 /\ free' = free - 1 /\ Len(cont') = Len(cont) + 1
      BY <1>3, <2>5
    <3>4. QED
      BY <2>2, <3>1, <3>2, <3>3
  <2>7. Registers'
    <3>1. /\ program' \in Programs /\ IsSeq(cont')
          /\ free' \in 0 .. Conts /\ Len(cont') <= Conts - free'
      BY <1>3, <2>5, <2>6 DEF IInv, Registers
    <3>2. IsSeq(stack') /\ Len(stack') <= StackSize /\ over' \in Nat
      BY <1>3 DEF IInv, Registers
    <3>3. IsSeq(binds') /\ Len(binds') = program'.globals
      BY <1>3 DEF IInv, Registers
    <3>4. status' \in {"running", "finished", "returned", "aborted", "wild"}
      BY <1>3 DEF IInv, Registers, NextPc
    <3>5. QED
      BY <3>1, <3>2, <3>3, <3>4 DEF Registers
  <2>8. Holding'
    BY <1>3 DEF IInv, Holding, AllValues, IsValue
  <2>9. PICK to : /\ to \in [1 .. Len(cont) + 2 -> Nat] /\ to[1] = from[1] + h
                  /\ \A k \in 1 .. Len(cont) + 1 : to[k + 1] = from[k]
    <3> DEFINE f == [k \in 1 .. Len(cont) + 2 |-> IF k = 1 THEN from[1] + h ELSE from[k - 1]]
    <3>1. from \in [1 .. Len(cont) + 1 -> Nat]
      BY <2>1 DEF Standing
    <3>2. \A k \in 1 .. Len(cont) + 2 : k = 1 \/ k - 1 \in 1 .. Len(cont) + 1
      BY <2>2
    <3>3. \A k \in 1 .. Len(cont) + 2 : (IF k = 1 THEN from[1] + h ELSE from[k - 1]) \in Nat
      BY <2>2, <3>1, <3>2
    <3>4. \A k \in 1 .. Len(cont) + 1 : k + 1 \in 1 .. Len(cont) + 2 /\ k + 1 # 1 /\ (k + 1) - 1 = k
      BY <2>2
    <3>5. 1 \in 1 .. Len(cont) + 2
      BY <2>2
    <3>6. /\ f \in [1 .. Len(cont) + 2 -> Nat] /\ f[1] = from[1] + h
          /\ \A k \in 1 .. Len(cont) + 1 : f[k + 1] = from[k]
      BY <3>3, <3>4, <3>5
    <3> HIDE DEF f
    <3>7. QED
      BY <3>6
  <2>10. to \in [1 .. Len(cont') + 1 -> Nat] /\ to[Len(cont') + 1] = 0
    <3>1. Len(cont) + 1 \in 1 .. Len(cont) + 1 /\ from[Len(cont) + 1] = 0
      BY <2>1, <2>2 DEF Standing
    <3>2. to[(Len(cont) + 1) + 1] = 0
      BY <2>9, <3>1
    <3>3. Len(cont') + 1 = Len(cont) + 2 /\ Len(cont') + 1 = (Len(cont) + 1) + 1
      BY <2>2, <2>5
    <3>4. QED
      BY <2>9, <3>2, <3>3
  <2>11. \A k \in 1 .. Len(cont') :
           to[k] >= to[k + 1] /\ Ready(cont'[k].pc, to[k] - to[k + 1], Len(cont') - k)
    <3> SUFFICES ASSUME NEW k \in 1 .. Len(cont')
                 PROVE  to[k] >= to[k + 1] /\ Ready(cont'[k].pc, to[k] - to[k + 1], Len(cont') - k)
      OBVIOUS
    <3>1. CASE k = 1
      <4>1. 1 \in 1 .. Len(cont) + 1
        BY <2>2
      <4>2. to[1 + 1] = from[1]
        BY <2>9, <4>1
      <4>3. to[k] = from[1] + h /\ to[k + 1] = from[1]
        BY <2>9, <3>1, <4>2
      <4>4. to[k] >= to[k + 1] /\ to[k] - to[k + 1] = h
        BY <2>2, <4>3
      <4>5. cont'[k].pc = saved.pc
        BY <2>5, <3>1
      <4>6. Len(cont') - k = Len(cont)
        BY <2>2, <2>5, <3>1
      <4>7. QED
        BY <2>4, <4>4, <4>5, <4>6
    <3>2. CASE k # 1
      <4> DEFINE j == k - 1
      <4>1. j \in 1 .. Len(cont) /\ j \in 1 .. Len(cont) + 1 /\ j + 1 \in 1 .. Len(cont) + 1 /\ k = j + 1
        BY <2>2, <2>5, <3>2
      <4> HIDE DEF j
      <4>2. to[k] = from[j] /\ to[k + 1] = from[j + 1] /\ cont'[k] = cont[j]
        BY <2>5, <2>9, <4>1
      <4>3. from[j] >= from[j + 1] /\ Ready(cont[j].pc, from[j] - from[j + 1], Len(cont) - j)
        BY <2>1, <4>1 DEF Standing
      <4>4. Len(cont') - k = Len(cont) - j
        BY <2>2, <2>5, <4>1
      <4>5. QED
        BY <4>2, <4>3, <4>4
    <3>3. QED
      BY <3>1, <3>2
  <2>12. ~ Sums => over = 0 /\ to[1] + 0 <= Len(stack)
    BY <2>1, <2>2, <2>9 DEF Standing
  <2>13. program' = program /\ stack' = stack /\ over' = over /\ pc' = Tail(pc)
    BY <1>3 DEF NextPc
  <2>14. Ready(pc', 0, Len(cont'))
    <3>1. Len(cont') > 0
      BY <2>2, <2>5
    <3>2. Point(pc', 0, TRUE) \in program.points
      BY <2>3, <2>13
    <3>3. QED
      BY <3>1, <3>2 DEF Ready
  <2>15. Ready(pc, 0, Len(cont))'
    BY <2>13, <2>14 DEF Ready
  <2>16. ASSUME NEW k \in 1 .. Len(cont')
         PROVE  to[k] >= to[k + 1] /\ Ready(cont[k].pc, to[k] - to[k + 1], Len(cont) - k)'
    BY <2>11, <2>13 DEF Ready
  <2>17. Standing(to, 0)'
    BY <2>10, <2>12, <2>13, <2>15, <2>16 DEF Standing, Sums
  <2>18. QED
    BY <2>7, <2>8, <2>17 DEF IInv
<1>4. QED
  BY <1>1, <1>2, <1>3

LEMMA LeaveKeeps == ASSUME IInv, Leave PROVE IInv'
<1>1. \/ Stop("wild")
      \/ /\ cont # << >> /\ pc' = Head(cont).pc /\ cont' = Tail(cont)
         /\ UNCHANGED <<program, value, free, stack, over, binds, out, status>>
  BY DEF Leave
<1>2. CASE Stop("wild")
  BY <1>2, Stops
<1>3. CASE /\ cont # << >> /\ pc' = Head(cont).pc /\ cont' = Tail(cont)
           /\ UNCHANGED <<program, value, free, stack, over, binds, out, status>>
  <2>1. PICK from, h : Standing(from, h)
    BY DEF IInv
  <2>2. h \in Nat /\ Len(stack) \in Nat /\ from \in [1 .. Len(cont) + 1 -> Nat]
    BY <2>1, Sizes DEF IInv, Standing
  <2>3. /\ IsSeq(cont') /\ Len(cont) \in Nat \ {0} /\ Len(cont') = Len(cont) - 1 /\ pc' = cont[1].pc
        /\ \A k \in 1 .. Len(cont) - 1 : cont'[k] = cont[k + 1]
    BY <1>3, SeqTail DEF IInv, Registers
  <2>4. 1 \in 1 .. Len(cont) /\ 1 \in 1 .. Len(cont) + 1 /\ 1 + 1 = 2 /\ 2 \in 1 .. Len(cont) + 1
    BY <2>3
  <2>5. from[1] \in Nat /\ from[2] \in Nat
    BY <2>2, <2>4
  <2>6. from[1] >= from[2] /\ Ready(pc', from[1] - from[2], Len(cont) - 1)
    BY <2>1, <2>3, <2>4 DEF Standing
  <2>7. Registers'
    <3>1. free \in 0 .. Conts /\ Len(cont') <= Conts - free
      BY <2>3, SvmAssumption DEF IInv, Registers
    <3>2. QED
      BY <1>3, <2>3, <3>1 DEF IInv, Registers, IsSeq
  <2>8. Holding'
    BY <1>3 DEF IInv, Holding, AllValues, IsValue
  <2> DEFINE n == from[1] - from[2]
  <2>9. PICK to : /\ to \in [1 .. Len(cont) -> Nat]
                  /\ to[1] = from[2] /\ to[Len(cont)] = from[Len(cont) + 1]
                  /\ \A k \in 1 .. Len(cont) : to[k] = from[k + 1]
    <3> DEFINE f == [k \in 1 .. Len(cont) |-> from[k + 1]]
    <3>1. \A k \in 1 .. Len(cont) : k + 1 \in 1 .. Len(cont) + 1
      BY <2>3
    <3>2. \A k \in 1 .. Len(cont) : from[k + 1] \in Nat
      BY <2>2, <3>1
    <3>3. Len(cont) \in 1 .. Len(cont)
      BY <2>3
    <3>4. /\ f \in [1 .. Len(cont) -> Nat] /\ f[1] = from[2] /\ f[Len(cont)] = from[Len(cont) + 1]
          /\ \A k \in 1 .. Len(cont) : f[k] = from[k + 1]
      BY <2>4, <3>2, <3>3
    <3> HIDE DEF f
    <3>5. QED
      BY <3>4
  <2>10. n \in Nat /\ from[2] + n = from[1]
    BY <2>5, <2>6
  <2>11. to \in [1 .. Len(cont') + 1 -> Nat] /\ to[Len(cont') + 1] = 0
    <3>1. Len(cont') + 1 = Len(cont)
      BY <2>3
    <3>2. from[Len(cont) + 1] = 0
      BY <2>1 DEF Standing
    <3>3. QED
      BY <2>9, <3>1, <3>2
  <2>12. \A k \in 1 .. Len(cont') :
           to[k] >= to[k + 1] /\ Ready(cont'[k].pc, to[k] - to[k + 1], Len(cont') - k)
    <3> SUFFICES ASSUME NEW k \in 1 .. Len(cont')
                 PROVE  to[k] >= to[k + 1] /\ Ready(cont'[k].pc, to[k] - to[k + 1], Len(cont') - k)
      OBVIOUS
    <3>1. k \in 1 .. Len(cont) - 1 /\ k \in 1 .. Len(cont) /\ k + 1 \in 1 .. Len(cont)
      BY <2>3
    <3>2. to[k] = from[k + 1] /\ to[k + 1] = from[(k + 1) + 1] /\ cont'[k] = cont[k + 1]
      BY <2>3, <2>9, <3>1
    <3>3. from[k + 1] >= from[(k + 1) + 1]
          /\ Ready(cont[k + 1].pc, from[k + 1] - from[(k + 1) + 1], Len(cont) - (k + 1))
      BY <2>1, <3>1 DEF Standing
    <3>4. Len(cont') - k = Len(cont) - (k + 1)
      BY <2>3, <3>1
    <3>5. QED
      BY <3>2, <3>3, <3>4
  <2>13. ~ Sums => over = 0 /\ to[1] + n <= Len(stack)
    <3>1. ~ Sums => over = 0 /\ from[1] + h <= Len(stack)
      BY <2>1 DEF Standing
    <3>2. from[1] <= from[1] + h /\ to[1] + n = from[1]
      BY <2>2, <2>5, <2>9, <2>10
    <3>3. QED
      BY <2>2, <2>5, <3>1, <3>2
  <2>14. Ready(pc', n, Len(cont) - 1)
    BY <2>6
  <2> HIDE DEF n
  <2>15. program' = program /\ stack' = stack /\ over' = over
    BY <1>3
  <2>16. Ready(pc', n, Len(cont'))
    BY <2>3, <2>14
  <2>17. Ready(pc, n, Len(cont))'
    BY <2>15, <2>16 DEF Ready
  <2>18. ASSUME NEW k \in 1 .. Len(cont')
         PROVE  to[k] >= to[k + 1] /\ Ready(cont[k].pc, to[k] - to[k + 1], Len(cont) - k)'
    BY <2>12, <2>15 DEF Ready
  <2>19. Standing(to, n)'
    BY <2>10, <2>11, <2>13, <2>15, <2>17, <2>18 DEF Standing, Sums
  <2>20. QED
    BY <2>7, <2>8, <2>19 DEF IInv
<1>4. QED
  BY <1>1, <1>2, <1>3

LEMMA Inductive == IInv /\ [Next]_vars => IInv'
<1> SUFFICES ASSUME IInv, [Next]_vars PROVE IInv'
  OBVIOUS
<1>1. CASE Finish
  BY <1>1, Stops DEF Finish
<1>2. CASE UNCHANGED vars
  <2>1. Registers'
    BY <1>2 DEF vars, IInv, Registers, IsSeq
  <2>2. Holding'
    BY <1>2 DEF vars, IInv, Holding, AllValues, IsValue
  <2>3. PICK from, h : Standing(from, h)
    BY DEF IInv
  <2>4. Standing(from, h)'
    BY <1>2, <2>3, GoesOn DEF vars, Standing
  <2>5. QED
    BY <2>1, <2>2, <2>4 DEF IInv
<1>3. QED
  BY <1>1, <1>2, FetchConstKeeps, LookupKeeps, BindVarKeeps, PushKeeps, PopKeeps, AccessKeeps, BranchKeeps,
     JumpKeeps, PassKeeps, SaveContKeeps, CloseKeeps, ApplyKeeps, LeaveKeeps, CarCdrKeeps, AddKeeps,
     DisplayKeeps DEF Next

LEMMA AlwaysIInv == Spec => []IInv
  BY Initially, Inductive, PTL DEF Spec

-----------------------------------------------------------------------------
(* svm_push looks at the limit of stack_data before it writes, a sum or a  *)
(* MOVESP only takes away, and push_continuation takes memory for what it  *)
(* links: the stack stays in its array, and there are never more           *)
(* continuations than memory was taken for (svm.h:73-78, svm.h:95-115).    *)
THEOREM TypeCorrect == Spec => []TypeOK
<1>1. IInv => TypeOK
  <2> SUFFICES ASSUME IInv PROVE TypeOK
    OBVIOUS
  <2>1. DOMAIN binds = 1 .. program.globals
    BY SeqLen DEF IInv, Registers
  <2>2. QED
    BY <2>1 DEF IInv, Registers, TypeOK
<1>2. QED
  BY <1>1, AlwaysIInv, PTL

(* MOVESP lowers the top of the stack without looking at the base          *)
(* (svm.h:148): what keeps it above is that a call pops only what was      *)
(* pushed for it, also after the procedures that ran in between. Only a    *)
(* sum, which pops its own arguments (lib/builtins/builtin.c:43-62),       *)
(* brings it below.                                                        *)
THEOREM StackStaysWithin == Spec => []StackWithin
<1>1. IInv => StackWithin
  <2> SUFFICES ASSUME IInv, ~ Sums PROVE over = 0
    BY DEF StackWithin
  <2>1. QED
    BY DEF IInv, Standing
<1>2. QED
  BY <1>1, AlwaysIInv, PTL

(***************************************************************************)
(* resume_continuation loads its registers from g_svm.continuation without *)
(* asking whether there is one (svm.h:108). A return always finds it.      *)
(***************************************************************************)
ReturnsFindCallers == At("LeaveProc") => cont # << >>

(* In a fit program every procedure that runs has a continuation to leave  *)
(* to, whether it was called or is the tail of one that was, and however   *)
(* many calls have returned before.                                        *)
THEOREM CallersStayThere == Spec => []ReturnsFindCallers
<1>1. IInv => ReturnsFindCallers
  <2> SUFFICES ASSUME IInv, At("LeaveProc") PROVE cont # << >>
    BY DEF ReturnsFindCallers
  <2>1. pc # << >> /\ Head(pc).op = "LeaveProc"
    BY DEF At
  <2>2. Len(cont) > 0
    BY <2>1, Here DEF IInv
  <2>3. QED
    BY <2>2, SeqEmpty
<1>2. QED
  BY <1>1, AlwaysIInv, PTL

=============================================================================
