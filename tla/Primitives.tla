----------------------------- MODULE Primitives -----------------------------
(***************************************************************************)
(* The primitive procedures: kscm/scheme/bool.c, list.c, numb.c, sstring.c *)
(* and the predicates of port.c and read.c. Each takes a machine and the   *)
(* sequence of its arguments.                                              *)
(***************************************************************************)
EXTENDS Reader

(* The name, the least and the largest number of arguments, in the order   *)
(* of registration; 0 and -1 are no upper bound. Those that take characters*)
(* from a port and the empty functions of files are left out.              *)
EnvFuncs == << <<"scheme-report-environment", 1, 1>>, <<"null-environment", 1, 1>>,
               <<"interaction-environment", 0, 0>> >>
ReadFuncs == << <<"char-ready?", 0, 1>> >>
PortFuncs == << <<"input-port?", 1, 1>>, <<"output-port?", 1, 1>>,
                <<"current-input-port", 0, 0>> >>
BoolFuncs == << <<"boolean?", 1, 1>>, <<"true?", 1, 1>>, <<"not", 1, 1>> >>
NumbFuncs == << <<"number?", 1, 1>>, <<"real?", 1, 1>>, <<"rational?", 1, 1>>,
                <<"integer?", 1, 1>>, <<"exact?", 1, 1>>, <<"inexact?", 1, 1>>,
                <<"+", 0, -1>>, <<"-", 0, -1>>, <<"*", 0, -1>>, <<"/", 1, -1>> >>
Unwritten == <<"string<?", "string>?", "string<=?", "string>=?", "string-ci<?",
               "string-ci>?", "string-ci<=?", "string-ci>=?">>
StringFuncs == << <<"make-string", 1, 2>>, <<"string", 1, -1>>, <<"string?", 1, 1>>,
                  <<"string-length", 1, 1>>, <<"string-ref", 2, 2>>,
                  <<"string-set!", 3, 3>>, <<"string=?", 2, 2>>, <<"string-ci=?", 2, 2>> >>
               \o [i \in DOMAIN Unwritten |-> <<Unwritten[i], 2, 2>>] \o
               << <<"substring", 3, 3>>, <<"string-append", 1, -1>>,
                  <<"string->list", 1, 1>>, <<"list->string", 1, 1>>,
                  <<"string-copyt", 1, 1>>, <<"string-fill", 2, 2>> >>
ListFuncs == << <<"cons", 2, 2>>, <<"car", 1, 1>>, <<"cdr", 1, 1>>, <<"set-car!", 2, 2>>,
                <<"set-cdr!", 2, 2>>, <<"null?", 1, 1>>, <<"list?", 1, 1>>,
                <<"list", 0, -1>>, <<"length", 1, 1>>, <<"append", 0, -1>>,
                <<"reverse", 1, 1>> >>
Registered == EnvFuncs \o ReadFuncs \o PortFuncs \o BoolFuncs \o NumbFuncs \o StringFuncs
              \o ListFuncs

-----------------------------------------------------------------------------
(* numb.c. _BINARY_OP leaves the result alone unless both are integers.    *)
Quot(a, b) == LET q == (IF a < 0 THEN -a ELSE a) \div (IF b < 0 THEN -b ELSE b)
              IN  IF (a < 0) = (b < 0) THEN q ELSE -q
Least == -(2 ^ (Bits - 1))

BinaryOp(op, r, b) ==
  IF r.v.t # "integer" \/ b.t # "integer" THEN r
  ELSE CASE op = "+" -> R(Int32(Wrap(r.v.n + b.n)), r.m)
         [] op = "-" -> R(Int32(Wrap(r.v.n - b.n)), r.m)
         [] op = "*" -> R(Int32(Wrap(r.v.n * b.n)), r.m)
         [] op = "/" -> IF b.n = 0 \/ (b.n = -1 /\ r.v.n = Least) THEN Halt(r.m, "wild")
                        ELSE R(Int32(Quot(r.v.n, b.n)), r.m)

FoldOp(op, r, a) ==
  LET upto[i \in 0 .. Len(a)] == IF i = 0 THEN r ELSE BinaryOp(op, upto[i - 1], a[i])
  IN  upto[Len(a)]

(* *rslt = *argv[0]: a copy of whatever object the first argument is. *)
CopyOf(m, v) == CASE v.t = "ref" -> Alloc(m, Cell(m, v))
                  [] v.t \in {"char", "junk"} -> Halt(m, "wild")
                  [] OTHER -> R(v, m)

Addition(m, a)       == FoldOp("+", R(Int32(0), m), a)
Multiplication(m, a) == FoldOp("*", R(Int32(1), m), a)
LessOf(op, unit, m, a) ==
  IF a = << >> THEN Halt(m, "wild")
  ELSE IF Len(a) = 1 THEN FoldOp(op, R(Int32(unit), m), a)
  ELSE FoldOp(op, CopyOf(m, a[1]), Tail(a))
Subtraction(m, a) == LessOf("-", 0, m, a)
Divison(m, a)     == LessOf("/", 1, m, a)

-----------------------------------------------------------------------------
(* number?, integer?, real?, rational?, exact?, inexact?: the only numbers *)
(* are integers.                                                           *)
NumbP(m, name, a) ==
  CASE name \in {"number?", "integer?"} -> R(Bool(Is(m, a[1], "integer")), m)
    [] name \in {"real?", "rational?", "inexact?"} -> R(False, m)
    [] name = "exact?" -> R(True, m)

(* bool.c *)
BoolP(m, name, a) ==
  CASE name = "boolean?" -> R(Bool(Is(m, a[1], "bool")), m)
    [] name = "true?"    -> R(Bool(a[1] # False), m)
    [] name = "not"      -> R(Bool(a[1] = False), m)

-----------------------------------------------------------------------------
(* list.c *)
(* The cdr of the last cell is never written. *)
ListOf(m, a) == Chain(m, a, IF a = << >> THEN Null ELSE Junk)

(* A list walked to its end: then(what is found there), unless it has none *)
(* or the pointer at the end is one that nothing was written to.           *)
Walked(m, v, then(_)) ==
  LET w == Elements(m, v)
  IN  CASE w.tail = Endless -> Halt(m, "loops")
        [] w.tail = Junk    -> Halt(m, "wild")
        [] OTHER            -> then(w)

ListP(m, v)  == Walked(m, v, LAMBDA w : R(Bool(w.tail = Null), m))
Length(m, v) == Walked(m, v, LAMBDA w : R(IF w.tail = Null THEN Int32(Wrap(Len(w.es)))
                                          ELSE Void, m))

(* Mutant: the cells of the first list are linked, not copied. *)
AppendInPlace(m, a) ==
  LET w == Elements(m, a[1])
  IN  IF Len(a) > 1 /\ w.tail = Null /\ w.es # << >>
        THEN R(a[1], SetCdr(m, a[1], a[2]))
        ELSE R(Void, m)

(* append takes its first argument twice, as the pointer to it is not      *)
(* stepped over at first, and so never comes to its last. What it comes to *)
(* last is shared, the others are copied. Behind an empty list, the empty  *)
(* list itself is copied for a cell, whose cdr is a pointer to nothing.    *)
AppendAll(m, a) ==
  LET segs == <<a[1]>> \o SubSeq(a, 1, Len(a) - 1)
      last == segs[Len(segs)]
      copy[i \in 1 .. Len(segs) - 1] ==
        LET w == Elements(m, segs[i])
        IN  CASE w.tail = Endless -> <<Endless>>
              [] w.tail = Junk \/ (i > 1 /\ segs[i] = Null) -> <<Junk>>
              [] w.tail = Null -> w.es
              [] OTHER -> <<Void>>
      bad == {i \in DOMAIN copy : copy[i] \in {<<Endless>>, <<Junk>>, <<Void>>}}
      all == Join([i \in 1 .. Len(segs) - 1 |-> copy[i]])
  IN  IF Len(a) <= 1 THEN R(Null, m)
      ELSE IF bad = {} THEN Chain(m, all, last)
      ELSE LET how == copy[CHOOSE i \in bad : \A j \in bad : i <= j]
           IN  CASE how = <<Void>>    -> R(Void, m)
                 [] how = <<Junk>>    -> Halt(m, "wild")
                 [] how = <<Endless>> -> Halt(m, "loops")

-----------------------------------------------------------------------------
(* sstring.c *)
StringIn(m, v) == Is(m, v, "string")
MakeString(m, s) == Alloc(m, [t |-> "string", s |-> s])

MakeStringOf(m, a) ==
  IF a[1].t # "integer" \/ (Len(a) = 2 /\ a[2].t # "char") THEN R(Void, m)
  ELSE IF a[1].n < 0 \/ ~ MemsetFits(a[1].n) THEN Halt(m, "wild")
  ELSE MakeString(m, [i \in 1 .. a[1].n |-> IF Len(a) = 1 THEN "a" ELSE a[2].c])

(* The block is freed at the place the characters have come to: only the   *)
(* first of them may be something else.                                    *)
StringOf(m, a) ==
  IF \A i \in DOMAIN a : a[i].t = "char" THEN MakeString(m, [i \in DOMAIN a |-> a[i].c])
  ELSE IF a[1].t # "char" THEN R(Void, m) ELSE Halt(m, "wild")

(* An index is compared with the length, not with 0. *)
Indexed(m, a, then(_)) ==
  IF ~ StringIn(m, a[1]) \/ a[2].t # "integer" THEN Halt(m, "wild")
  ELSE IF a[2].n >= Len(Cell(m, a[1]).s) THEN R(Void, m)
  ELSE IF a[2].n < 0 THEN Halt(m, "wild")
  ELSE then(a[2].n + 1)

StringRef(m, a) == Indexed(m, a, LAMBDA i : R(Char(Cell(m, a[1]).s[i]), m))
StringSet(m, a) ==
  IF a[3].t # "char" THEN Halt(m, "wild")
  ELSE Indexed(m, a, LAMBDA i : R(Void, [m EXCEPT !.heap[a[1].a].s[i] = a[3].c]))

StringEq(m, name, a) ==
  LET s == Cell(m, a[1]).s
      t == Cell(m, a[2]).s
  IN  IF ~ StringIn(m, a[1]) \/ ~ StringIn(m, a[2]) THEN Halt(m, "wild")
      ELSE R(Bool(IF name = "string=?" THEN StrCmpIsZero(s, t) ELSE StrCaseCmpIsZero(s, t)), m)

(* The object string-length and string-copyt make has the type that was    *)
(* left in its block.                                                      *)
StringLength(m, a) == IF StringIn(m, a[1]) THEN R(Junk, m) ELSE Halt(m, "wild")
StringCopy(m, a)   == R(IF StringIn(m, a[1]) THEN Junk ELSE Void, m)

-----------------------------------------------------------------------------
(* port.c, read.c, env.c. No output port is ever made; char-ready? is      *)
(* always true.                                                            *)
PortP(m, name, a) ==
  CASE name = "input-port?"  -> R(Bool(Is(m, a[1], "input_port")), m)
    [] name = "output-port?" -> R(False, m)
    [] name = "current-input-port" -> R([t |-> "input_port"], m)
CharReadyP(m) == R(True, m)
EnvOf(m, name) == R(IF name = "null-environment" THEN Null ELSE [t |-> "env"], m)

-----------------------------------------------------------------------------
(* What looks at no object its arguments point to. *)
Holds == {"cons", "list", "null?", "boolean?", "true?", "not"}
Writes == {"set-car!", "set-cdr!"}

(* The primitive called name. reverse returns a pointer it never sets, and *)
(* what is not listed has nothing but return scheme_void for a body.       *)
Called(m, name, a) ==
  CASE name = "cons"  -> MakePair(m, a[1], a[2])
    [] name = "car"   -> R(Car(m, a[1]), m)
    [] name = "cdr"   -> R(Cdr(m, a[1]), m)
    [] name \in Writes /\ ~ HasFields(m, a[1]) -> Halt(m, "wild")
    [] name = "set-car!" /\ HasFields(m, a[1]) -> R(Void, SetCar(m, a[1], a[2]))
    [] name = "set-cdr!" /\ HasFields(m, a[1]) -> R(Void, SetCdr(m, a[1], a[2]))
    [] name = "null?"  -> R(Bool(a[1] = Null), m)
    [] name = "list?"  -> ListP(m, a[1])
    [] name = "list"   -> ListOf(m, a)
    [] name = "length" -> Length(m, a[1])
    [] name = "append" -> AppendAll(m, a)
    [] name = "reverse" -> R(Junk, m)
    [] name = "+" -> Addition(m, a)
    [] name = "-" -> Subtraction(m, a)
    [] name = "*" -> Multiplication(m, a)
    [] name = "/" -> Divison(m, a)
    [] name \in {"number?", "integer?", "real?", "rational?", "exact?", "inexact?"} ->
         NumbP(m, name, a)
    [] name \in {"boolean?", "true?", "not"} -> BoolP(m, name, a)
    [] name = "make-string" -> MakeStringOf(m, a)
    [] name = "string"      -> StringOf(m, a)
    [] name = "string?"     -> R(Bool(StringIn(m, a[1])), m)
    [] name = "string-ref"  -> StringRef(m, a)
    [] name = "string-set!" -> StringSet(m, a)
    [] name \in {"string=?", "string-ci=?"} -> StringEq(m, name, a)
    [] name = "string-length" -> StringLength(m, a)
    [] name = "string-copyt"  -> StringCopy(m, a)
    [] name \in {"input-port?", "output-port?", "current-input-port"} -> PortP(m, name, a)
    [] name = "char-ready?"   -> CharReadyP(m)
    [] name \in {"null-environment", "interaction-environment", "scheme-report-environment"} ->
         EnvOf(m, name)
    [] OTHER -> R(Void, m)

Call(m, name, a) ==
  IF \E i \in DOMAIN a : a[i] = Junk /\ name \notin Holds /\ ~ (name \in Writes /\ i = 2)
    THEN Halt(m, "wild")
    ELSE Called(m, name, a)

=============================================================================
