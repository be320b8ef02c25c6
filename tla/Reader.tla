------------------------------- MODULE Reader -------------------------------
(***************************************************************************)
(* From the tokens of an expression to objects and back: the builder of    *)
(* kscm/scheme/read.c, and what kscm/scheme/display.c prints of an object, *)
(* as the tokens a reader would find in it. Module Lexer has the way from  *)
(* characters to tokens.                                                   *)
(***************************************************************************)
EXTENDS Objects

Tok(type)  == [type |-> type]
Open       == Tok("left_par")
OpenVector == Tok("left_sharpar")
Close      == Tok("right_par")
Quote      == Tok("quote")
Point      == Tok("point")
Name(s)    == [type |-> "symbol", name |-> s]
Number(ds) == [type |-> "number", ds |-> ds]     (* its digits *)
End        == Tok("end")             (* type -1, behind the last token      *)

At(ts, i) == IF i <= Len(ts) THEN ts[i].type ELSE "end"
AtEnd(ts, i) == At(ts, i) \in {"end", "right_par"}

(* What is built of the tokens up to i: an object, and the next token.     *)
Built(v, m, i) == [v |-> v, m |-> m, i |-> i]

(* _token_to_obj *)
TokenToObj(m, k) ==
  CASE k.type = "symbol" -> MakeSymbol(m, k.name)
    [] k.type = "true"   -> R(True, m)
    [] k.type = "false"  -> R(False, m)
    [] k.type = "number" -> R(Int32(Atoi(k.ds)), m)
    [] k.type = "char"   -> R(Char(k.c), m)
    [] k.type = "string" -> Alloc(m, [t |-> "string", s |-> k.s])
    [] OTHER             -> R(Void, m)

RECURSIVE Element(_, _, _, _), Fill(_, _, _, _), CreateList(_, _, _, _, _, _)

(* Mutant: a ')' ends an element at any depth. *)
CountCloses(ts, i) ==
  LET count[j \in i .. Len(ts) + 1, par \in -1 .. Len(ts), n \in 0 .. Len(ts)] ==
        IF par < 0 \/ j > Len(ts) THEN n
        ELSE IF ts[j].type \in {"left_par", "left_sharpar"} THEN count[j + 1, par + 1, n]
        ELSE IF ts[j].type = "right_par"
               THEN count[j + 1, par - 1, IF par >= 1 THEN n + 1 ELSE n]
        ELSE count[j + 1, par, IF par = 0 THEN n + 1 ELSE n]
  IN  count[i, 0, 0]

(* _create_vector: the elements are counted first, by a look at the        *)
(* parentheses alone. What is written behind the block that was allocated  *)
(* for them is not a part of the vector.                                   *)
CountElements(ts, i) ==
  LET count[j \in i .. Len(ts) + 1, par \in -1 .. Len(ts), n \in 0 .. Len(ts)] ==
        IF par < 0 \/ j > Len(ts) THEN n
        ELSE IF ts[j].type \in {"left_par", "left_sharpar"} THEN count[j + 1, par + 1, n]
        ELSE IF ts[j].type = "right_par"
               THEN count[j + 1, par - 1, IF par = 1 THEN n + 1 ELSE n]
        ELSE count[j + 1, par, IF par = 0 THEN n + 1 ELSE n]
  IN  count[i, 0, 0]

VectorOf(len, b) ==
  LET r == Alloc(b.m, [t |-> "vector",
                       buf |-> [k \in 1 .. len |-> IF k <= Len(b.v) THEN b.v[k] ELSE Junk]])
  IN  Built(r.v, IF Len(b.v) > len THEN [r.m EXCEPT !.halt = "wild"] ELSE r.m, b.i)

CreateVector(m, ts, i) == VectorOf(CountElements(ts, i), Fill(m, ts, i, << >>))

Filled(e, ts, es) == Fill(e.m, ts, e.i, Append(es, e.v))
Fill(m, ts, i, es) ==
  IF AtEnd(ts, i) THEN Built(es, m, i + 1) ELSE Filled(Element(m, ts, i, FALSE), ts, es)

(* _create_list, with list l so far and its last cell q, or what follows   *)
(* the point.                                                              *)
Linked(car, ts, l, q, issexp) ==
  LET p == IF issexp THEN car ELSE MakePair(car.m, car.v, Null)
  IN  IF (l = Null /\ issexp) \/ (l # Null /\ ~ IsPair(p.m, q)) THEN Built(Void, p.m, car.i)
      ELSE CreateList(IF l = Null THEN p.m ELSE SetCdr(p.m, q, p.v), ts, car.i,
                      IF l = Null THEN p.v ELSE l, p.v, issexp)
CreateList(m, ts, i, l, q, issexp) ==
  IF AtEnd(ts, i) THEN Built(l, m, i + 1)
  ELSE IF At(ts, i) # "point" THEN Linked(Element(m, ts, i, TRUE), ts, l, q, issexp)
  ELSE IF issexp THEN Built(Void, m, i + 1)
  ELSE CreateList(m, ts, i + 1, l, q, TRUE)

(* _create_quoted *)
Quoted(text) ==
  LET sym == MakeSymbol(text.m, "quote")
      qt  == Chain(sym.m, <<sym.v, text.v>>, Null)
  IN  Built(qt.v, qt.m, text.i)
CreateQuoted(m, ts, i) ==
  IF At(ts, i) = "right_par" THEN Built(Void, m, i)
  ELSE Quoted(IF i > Len(ts) THEN Built(Void, m, i + 1) ELSE Element(m, ts, i, TRUE))

(* An element of a list or a vector; a vector has no case for a quote.     *)
Atom(m, ts, i) == LET r == TokenToObj(m, ts[i]) IN Built(r.v, r.m, i + 1)
Element(m, ts, i, inList) ==
  CASE At(ts, i) = "left_par"     -> CreateList(m, ts, i + 1, Null, Null, FALSE)
    [] At(ts, i) = "left_sharpar" -> CreateVector(m, ts, i + 1)
    [] At(ts, i) = "quote" /\ inList -> CreateQuoted(m, ts, i + 1)
    [] OTHER -> Atom(m, ts, i)

(* read, for the tokens of one expression. *)
Read(m, ts) ==
  IF ts = << >> \/ At(ts, 1) = "right_par" THEN Built(Void, m, 1) ELSE Element(m, ts, 1, TRUE)

-----------------------------------------------------------------------------
(* scheme_obj_to_string. %d prints an integer, FormatD.                    *)
(* An empty vector loses its '('. A list without end fills the buffer, and *)
(* what is behind it.                                                      *)
Opaque(what)  == [type |-> "opaque", what |-> what]
Overrun == Tok("overrun")
Wild    == Tok("wild")

RECURSIVE Join(_)
Join(ss) == IF ss = << >> THEN << >> ELSE Head(ss) \o Join(Tail(ss))

RECURSIVE ObjToString(_, _, _)

Printed(m, es, deep) == Join([k \in DOMAIN es |-> ObjToString(m, es[k], deep)])

(* scheme_list_to_string *)
ListToString(m, v, deep) ==
  LET list == Elements(m, v)
  IN  IF list.tail = Endless THEN <<Overrun>>
      ELSE <<Open>> \o Printed(m, list.es, deep) \o
           (IF list.tail = Null THEN << >>
            ELSE <<Point>> \o ObjToString(m, list.tail, deep)) \o <<Close>>

(* scheme_vector_to_string *)
VectorToString(m, v, deep) ==
  LET es == Cell(m, v).buf
  IN  IF es = << >> THEN <<Opaque("#)")>> ELSE <<OpenVector>> \o Printed(m, es, deep) \o <<Close>>

ObjToString(m, v, deep) ==
  LET type == TypeOf(m, v)
  IN  IF deep = 0 THEN <<Overrun>>
      ELSE CASE type = "char"    -> <<[type |-> "char", c |-> v.c]>>
             [] type = "integer" -> <<Number(FormatD(v.n))>>
             [] type = "string"  -> <<[type |-> "string", s |-> Cell(m, v).s]>>
             [] type = "symbol"  -> <<Name(Spelling(m, v))>>
             [] type = "null"    -> <<Open, Close>>
             [] type = "bool"    -> <<Tok(IF v.b THEN "true" ELSE "false")>>
             [] type = "vector"  -> VectorToString(m, v, deep - 1)
             [] type = "pair"    -> ListToString(m, v, deep - 1)
             [] type \in {"env", "prim", "cpd"} -> <<Opaque(type)>>
             [] type = "junk" -> <<Wild>>
             [] OTHER -> << >>

Show(m, v) ==
  IF TypeOf(m, v) = "input_port" THEN <<Opaque("port")>> ELSE ObjToString(m, v, Len(m.heap))

=============================================================================
