----------------------------- MODULE SymbolTable -----------------------------
(***************************************************************************)
(* The memory of the interpreter and its symbol table,                     *)
(* kscm/scheme/symbol.c.                                                   *)
(*                                                                         *)
(* A value is a number, a character or another object nothing can change,  *)
(* or a reference to a cell of the heap. A machine m is the memory of the  *)
(* interpreter: the heap, the frames of env.c, the chains of the symbol    *)
(* table, and whether the program has left what its text says of it. An    *)
(* operation takes a machine and gives back [v |-> its result, m |-> the   *)
(* machine afterwards].                                                    *)
(***************************************************************************)
EXTENDS Integers, Sequences

CONSTANTS
  Buckets,    (* SYMBOL_HTABLE_SIZE                                         *)
  Hash(_)     (* _hash_symbol: the bucket of a name, in 0 .. Buckets - 1    *)

Ref(a)   == [t |-> "ref", a |-> a]
R(v, m) == [v |-> v, m |-> m]

-----------------------------------------------------------------------------
TypeOf(m, v) == IF v.t = "ref" THEN m.heap[v.a].t ELSE v.t
Cell(m, v)   == m.heap[v.a]
Is(m, v, type) == TypeOf(m, v) = type        (* SCHEME_...P *)
IsPair(m, v) == Is(m, v, "pair")
IsSymbol(m, v) == Is(m, v, "symbol")

(* scheme_alloc_obj without USE_GC. *)
Alloc(m, cell) == R(Ref(Len(m.heap) + 1), [m EXCEPT !.heap = Append(@, cell)])

Pair(a, d)    == [t |-> "pair", car |-> a, cdr |-> d]
MakePair(m, a, d) == Alloc(m, Pair(a, d))
SetCar(m, v, x) == [m EXCEPT !.heap[v.a].car = x]
SetCdr(m, v, x) == [m EXCEPT !.heap[v.a].cdr = x]

-----------------------------------------------------------------------------
Spelling(m, v) == Cell(m, v).name

(* Mutant: the name is looked for at the head of its chain only. *)
HeadOnlySymbol(m, name) ==
  LET chain == m.table[Hash(name)]
      r     == Alloc(m, [t |-> "symbol", name |-> name])
  IN  IF chain # << >> /\ Spelling(m, chain[1]) = name THEN R(chain[1], m)
      ELSE R(r.v, [r.m EXCEPT !.table[Hash(name)] = <<r.v>> \o @])

(* scheme_make_symbol: the symbol of the chain that is spelled like this,  *)
(* or a new one at its head.                                               *)
MakeSymbol(m, name) ==
  LET chain == m.table[Hash(name)]
      found == {i \in DOMAIN chain : Spelling(m, chain[i]) = name}
      r     == Alloc(m, [t |-> "symbol", name |-> name])
  IN  IF found # {} THEN R(chain[CHOOSE i \in found : \A j \in found : i <= j], m)
      ELSE R(r.v, [r.m EXCEPT !.table[Hash(name)] = <<r.v>> \o @])

NoSymbols == [b \in 0 .. Buckets - 1 |-> << >>]

(* The symbols in the chains. They are what variables are compared by (by  *)
(* address, SAME_OBJ in env.c): no two are spelled alike, each is in the   *)
(* chain where its name is looked for, and every other symbol is a copy of *)
(* one of them (numb.c copies the first argument of - and /, whatever it   *)
(* is).                                                                    *)
InChain(m, b) == {m.table[b][i] : i \in DOMAIN m.table[b]}
Entered(m)  == UNION {InChain(m, b) : b \in DOMAIN m.table}
InternedIn(m) ==
  /\ \A v \in Entered(m) : IsSymbol(m, v)
  /\ \A v, w \in Entered(m) : Spelling(m, v) = Spelling(m, w) => v = w
  /\ \A b \in DOMAIN m.table : \A v \in InChain(m, b) : Hash(Spelling(m, v)) = b
  /\ \A a \in DOMAIN m.heap :
       IsSymbol(m, Ref(a)) => \E v \in Entered(m) : Spelling(m, v) = Spelling(m, Ref(a))

=============================================================================
