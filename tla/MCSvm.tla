-------------------------------- MODULE MCSvm --------------------------------
(* A small instance of Svm, and what its programs mean. *)
EXTENDS Svm, Compiler, TLC

(* The value of an expression by the rules of the language, in a state of  *)
(* its variables, with what it displays; operands go from right to left.   *)
(* Procedures here have no parameters.                                     *)
S(v, g, o) == [v |-> v, g |-> g, o |-> o]
Truth(s)   == s.v # False

RECURSIVE Meaning(_, _)
Set(x, s) == S(s.v, (x :> s.v) @@ s.g, s.o)

RECURSIVE InOrder(_, _)
InOrder(es, s) == IF es = << >> THEN s ELSE InOrder(Tail(es), Meaning(Head(es), s))

(* The operands from the first of es on, then as a sequence of values. *)
RECURSIVE Operands(_, _, _)
Operands(es, s, vs) ==
  IF es = << >> THEN S(vs, s.g, s.o)
  ELSE LET r == Meaning(Head(es), s) IN Operands(Tail(es), r, <<r.v>> \o vs)

(* The first of es whose truth is t decides, or the last does. *)
RECURSIVE Decide(_, _, _)
Decide(es, s, t) ==
  LET r == Meaning(Head(es), s)
  IN  IF Len(es) = 1 \/ Truth(r) = t THEN r ELSE Decide(Tail(es), r, t)

RECURSIVE Clauses(_, _)
Clauses(cs, s) ==
  IF cs = << >> THEN S(Void, s.g, s.o)
  ELSE LET r == Meaning(Head(cs).test, s)
       IN  IF Truth(r) THEN InOrder(Head(cs).es, r) ELSE Clauses(Tail(cs), r)

Applied(f, a) ==
  CASE f = "car"     -> S(a.v[1].car, a.g, a.o)
    [] f = "cdr"     -> S(a.v[1].cdr, a.g, a.o)
    [] f = "+"       -> S(AddValue(a.v), a.g, a.o)
    [] f = "display" -> S(a.v[1], a.g,
                          IF a.v[1].t = "integer" THEN Append(a.o, a.v[1].n) ELSE a.o)
    [] OTHER         -> InOrder(a.g[f].body, a)

Meaning(e, s) ==
  CASE e.e = "var"    -> S(s.g[e.x], s.g, s.o)
    [] e.e = "const"  -> S(IF e.d.t = "integer" THEN Num(Wrapped(e.d.n)) ELSE e.d, s.g, s.o)
    [] e.e = "call"   -> Applied(e.f.x, Operands(e.args, s, << >>))
    [] e.e \in {"defvar", "assign"} -> Set(e.x, Meaning(e.a, s))
    [] e.e = "defun"  -> S(s.v, (e.x :> [t |-> "procedure", body |-> e.body]) @@ s.g, s.o)
    [] e.e = "if"     -> LET p == Meaning(e.p, s) IN Meaning(IF Truth(p) THEN e.a ELSE e.b, p)
    [] e.e = "cond"   -> Clauses(e.cs, s)
    [] e.e = "and"    -> IF e.es = << >> THEN S(True, s.g, s.o) ELSE Decide(e.es, s, FALSE)
    [] e.e = "or"     -> IF e.es = << >> THEN S(False, s.g, s.o) ELSE Decide(e.es, s, TRUE)

-----------------------------------------------------------------------------
One == Const(Num(1))
P   == Const(Pair(Num(2), False))
F   == Const(False)
a   == Var("a")
car(x)  == Call(Var("car"), <<x>>)
Plus(x, y) == Call(Var("+"), <<x, y>>)
f == Call(Var("f"), << >>)
Show(x) == Call(Var("display"), <<x>>)

(* The expressions with one form, over some atoms, and with one in another.*)
Simple(X) == {And(<<x, y>>) : x, y \in X} \cup {Or(<<x, y>>) : x, y \in X}
             \cup {Cond(<<Clause(x, <<y>>), Clause(y, << >>)>>) : x, y \in X}
             \cup {If(x, y, z) : x, y, z \in X}
Atoms == {F, a, f, car(P), Show(One)}
Nested ==
  LET X == {F, f, Show(One), And(<<f, F>>), Or(<<F, car(P)>>), If(a, f, F),
            Cond(<<Clause(F, <<One>>), Else(<<f, car(P)>>)>>), Cond(<<Clause(F, <<f>>)>>)}
  IN  Simple(X)

Start == <<Defvar("a", Const(Num(3))), Defun("f", << >>, <<car(P), Const(Num(5))>>)>>

(* Programs with sums, assignments and procedures that call a procedure,   *)
(* that have parameters or refer to what they do not find.                 *)
More == {
  <<Plus(One, Const(Num(9)))>>, <<Plus(Plus(One, One), One)>>, <<Call(Var("+"), << >>)>>,
  <<Assign("a", car(P)), Show(a), a>>, <<If(Plus(One, F), a, f)>>,
  <<Defvar("b", Plus(a, One)), Show(Var("b"))>>,
  <<Defun("g", << >>, <<Defun("h", << >>, <<F>>), Call(Var("h"), << >>)>>), Call(Var("g"), << >>)>>,
  <<Defun("g", <<"x">>, <<Var("x")>>), Call(Var("g"), <<One>>), a>>,
  <<Defun("g", <<"x", "y">>, <<If(Var("x"), Var("y"), a)>>), Call(Var("g"), <<F, One>>)>>,
  <<Defun("g", <<"x">>, <<car(Var("x"))>>), car(Call(Var("g"), <<P>>))>>,
  <<Defun("g", << >>, <<f>>), Call(Var("g"), << >>)>>, <<Call(Var("g"), << >>)>>,
  <<And(<<f, f, f>>), Or(<<F, Show(f), f>>), f>>, <<car(One)>>, <<Call(One, << >>)>>,
  <<Other("lambda")>>, <<Call(Var("cons"), <<One, One>>)>>, <<Call(Var("car"), <<P, One, One, One>>)>> }

(* A procedure finds no other by its name, which is in an enclosing frame; *)
(* it can call what it was given. g is given itself, and calls it last,    *)
(* not last, with or without an operand, behind a sum, as often as t says  *)
(* (which is where f was), or by its name.                                 *)
Recursive ==
  LET x       == Var("x")
      again   == Call(x, << >>)
      with(e) == Call(x, <<e>>)
      t       == Var("t")
      Once(e) == <<Defvar("t", t), If(t, Cond(<<Else(<<Assign("t", F), e>>)>>), F)>>
      bodies  == {
        <<again>>, <<F, If(F, F, again)>>, <<Or(<<F, again>>)>>, <<Cond(<<Else(<<F, again>>)>>)>>,
        <<with(x)>>, <<If(x, with(x), again)>>, <<with(F)>>, <<And(<<x, with(x)>>)>>,
        <<again, F>>, <<car(again)>>, <<Show(again)>>, <<Defvar("y", again)>>,
        <<And(<<again, F>>)>>, <<Or(<<again, F>>)>>, <<Cond(<<Clause(again, << >>)>>)>>,
        <<If(again, F, F)>>, <<with(again)>>, <<And(<<F, again>>)>>,
        <<Call(Var("+"), <<One>>), with(x)>>, Once(again), Once(with(x)), Once(Show(again))}
  IN  {<<Defun("g", <<"x">>, b), Call(Var("g"), <<Var("g")>>)>> : b \in bodies}
        \cup {<<Defun("g", << >>, <<Call(Var("g"), << >>)>>), Call(Var("g"), << >>)>>}

Sources == {Start \o <<e>> : e \in Simple(Atoms) \cup Nested}
              \cup {Start \o p : p \in More \cup Recursive}

(* The points of some code, from its start on. *)
RECURSIVE From(_)
From(X) ==
  LET Y == X \cup UNION {After(x) : x \in X} IN IF Y = X THEN X ELSE From(Y)

(* What the compiler makes of those it does not give up at. *)
Made(es) ==
  LET u == Unit(es)
  IN  [source |-> es, code |-> u.code, globals |-> u.globals, all |-> Instructions(u.code),
       points |-> From({Point(u.code, 0, FALSE)})]
MCPrograms == {Made(es) : es \in {es \in Sources : Accepted(Unit(es).code)}}

MCData == {Num(n) : n \in 1 .. 9} \cup {True, False, Void, Pair(Num(2), False)}

(* A program that ends, and whose procedures have no variables, has the    *)
(* value the language gives it and has displayed what it should.           *)
Plain(p) == \A i \in DOMAIN p :
              p[i].e = "defun" => /\ p[i].params = << >>
                                  /\ \A j \in DOMAIN p[i].body : p[i].body[j].e # "defun"
RightValue ==
  status = "finished" /\ Plain(program.source) =>
    LET s == InOrder(program.source, S(Junk, << >>, << >>)) IN value = s.v /\ out = s.o

(* The calls of procedures a body can end in, and the bodies of a program. *)
RECURSIVE LastCalls(_)
LastCalls(es) ==
  IF es = << >> THEN {}
  ELSE LET e == Last(es)
       IN  CASE e.e = "call"          -> IF IsBuiltin(e.f) THEN {} ELSE {e}
             [] e.e = "if"            -> LastCalls(<<e.a>>) \cup LastCalls(<<e.b>>)
             [] e.e = "cond"          -> UNION {LastCalls(c.es) : c \in Range(e.cs)}
             [] e.e \in {"and", "or"} -> LastCalls(e.es)
             [] OTHER                 -> {}

RECURSIVE Bodies(_)
Bodies(es) == UNION {{e.body} \cup Bodies(e.body) : e \in {e \in Range(es) : e.e = "defun"}}

(* A procedure ends in a call without operands; or, where a sum takes off  *)
(* the stack what is not its own, in any call.                             *)
MayLoop == \E b \in Bodies(program.source) : \E c \in LastCalls(b) : c.args = << >> \/ Sums

(* Nothing else goes on for ever, however it recurs: a call that is not in *)
(* tail position takes memory for its continuation, which nothing gives    *)
(* back, and operands stay on the stack (push_continuation, svm_push,      *)
(* apply_procedure), so that the function the code is in returns in the    *)
(* end, if the program has not come to its last value or a wrong address.  *)
Ends == MayLoop \/ <>(status # "running")

=============================================================================
