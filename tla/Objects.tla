------------------------------- MODULE Objects -------------------------------
(***************************************************************************)
(* The objects of the interpreter, kscm/scheme/scheme.h, in a memory as    *)
(* SymbolTable has it.                                                     *)
(***************************************************************************)
EXTENDS Integers, Sequences, Numerals, SymbolTable

(* enum Scheme_types: what an object of the heap, or what a value that is  *)
(* none, can be. Of the numbers only integers are ever made.               *)
CellTypes  == {"env", "string", "symbol", "null", "pair", "vector", "expr"}
ValueTypes == {"ref", "junk", "prim", "cpd", "char", "integer", "bool", "env", "input_port"}

Int32(n) == [t |-> "integer", n |-> n]
Char(c)  == [t |-> "char", c |-> c]
Bool(b)  == [t |-> "bool", b |-> b]

(* The constants. scheme_null and scheme_void are cells like others, with  *)
(* a type and fields that can be written.                                  *)
Null == Ref(1)
Void == Ref(2)
True == Bool(TRUE)
False == Bool(FALSE)

(* A pointer, or the type of an object, that nothing was written to.       *)
Junk == [t |-> "junk"]

(* What follows is not in the text of the program: a jump through a word   *)
(* that is no function, the use of a pointer nothing was written to, a     *)
(* division by zero ("wild"), or nothing at all ("loops").                 *)
Halt(m, how) == R(Junk, [m EXCEPT !.halt = how])

Wrap(n) == ((n + 2 ^ (Bits - 1)) % (2 ^ Bits)) - 2 ^ (Bits - 1)

-----------------------------------------------------------------------------
(* The accessors take an object for the type they expect: fields of one    *)
(* that has none are words of something else.                              *)
HasFields(m, v) == v = Null \/ IsPair(m, v)
Car(m, v) == IF HasFields(m, v) THEN Cell(m, v).car ELSE Junk
Cdr(m, v) == IF HasFields(m, v) THEN Cell(m, v).cdr ELSE Junk

(* The cells of a list up to what is no pair; a list that comes back to    *)
(* itself has no such end.                                                 *)
Endless == [t |-> "endless"]
RECURSIVE Walk(_, _, _)
Walk(m, v, n) ==
  IF ~ IsPair(m, v) THEN [es |-> << >>, tail |-> v]
  ELSE IF n = 0 THEN [es |-> << >>, tail |-> Endless]
  ELSE LET w == Walk(m, Cdr(m, v), n - 1)
       IN  [w EXCEPT !.es = <<Car(m, v)>> \o @]
Elements(m, v) == Walk(m, v, Len(m.heap))

(* Fresh cells that hold the values of s, the last with cdr last. *)
RECURSIVE Chain(_, _, _)
Chain(m, s, last) ==
  IF s = << >> THEN R(last, m)
  ELSE LET r == Chain(m, Tail(s), last) IN MakePair(r.m, Head(s), r.v)

(* The operation F on each of xs in turn. *)
Each(F(_, _), m, xs) ==
  LET upto[i \in 0 .. Len(xs)] ==
        IF i = 0 THEN R(<< >>, m)
        ELSE LET p == upto[i - 1]
                 r == F(p.m, xs[i])
             IN  R(Append(p.v, r.v), r.m)
  IN  upto[Len(xs)]

-----------------------------------------------------------------------------
(* The memory before scheme_init: zeroed, so that scheme_void, whose type  *)
(* scheme_init_proc would set, which nothing calls, is an environment.     *)
Memory ==
  [heap   |-> <<[t |-> "null", car |-> Junk, cdr |-> Junk], [t |-> "env"]>>,
   frames |-> << >>,
   table  |-> NoSymbols,
   halt   |-> "no"]

=============================================================================
