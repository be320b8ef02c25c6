------------------------------ MODULE Evaluator ------------------------------
(***************************************************************************)
(* The evaluator: kscm/scheme/eval.c and proc.c. A form is analysed into   *)
(* an expression, whose kind k says which of _eval_funs_ takes it, and the *)
(* expression is evaluated in a frame of env.c.                            *)
(*                                                                         *)
(* Here a frame is what module Scopes says of it, a function from symbols  *)
(* to values and the frame it is enclosed by; Environment has the blocks   *)
(* this is kept in.                                                        *)
(***************************************************************************)
EXTENDS Primitives

(* _analyze_funcs_ *)
Keywords == <<"and", "begin", "case", "cond", "define", "delay", "do", "else", "if",
              "lambda", "let", "letrec", "let*", "or", "quasiquote", "quote", "set!">>
NoKeyword == "none"

LeastOf(S) == CHOOSE i \in S : \A j \in S : i <= j

(* Character k of a name, counted from 0, the NUL at its end included. *)
CharAt(s, k) == IF k < Len(s) THEN SubSeq(s, k + 1, k + 1) ELSE ""

(* _find_keyword: the names from i on and before j have the first k        *)
(* characters of the key. A key that ends here is taken for name i.        *)
RECURSIVE Narrow(_, _, _, _)
Narrow(key, i, j, k) ==
  IF k = Len(key) THEN Keywords[i]
  ELSE LET same(n) == CharAt(Keywords[n], k) = CharAt(key, k)
           hits == {n \in i .. j - 1 : same(n)}
           past(f) == {n \in f + 1 .. Len(Keywords) : ~ same(n)} \cup {Len(Keywords) + 1}
       IN  IF hits = {} THEN NoKeyword
           ELSE Narrow(key, LeastOf(hits), LeastOf(past(LeastOf(hits))), k + 1)

(* Mutant: the names behind the first that fits are given up. *)
RECURSIVE NarrowToOne(_, _, _, _)
NarrowToOne(key, i, j, k) ==
  IF k = Len(key) THEN Keywords[i]
  ELSE LET hits == {n \in i .. j - 1 : CharAt(Keywords[n], k) = CharAt(key, k)}
       IN  IF hits = {} THEN NoKeyword
           ELSE NarrowToOne(key, LeastOf(hits), LeastOf(hits) + 1, k + 1)
FindFirstKeyword(key) == NarrowToOne(key, 1, Len(Keywords) + 1, 0)

FindKeyword(key) == Narrow(key, 1, Len(Keywords) + 1, 0)

-----------------------------------------------------------------------------
(* Expressions. The objects _analyze can return that are none: scheme_void,*)
(* scheme_true, and the uninitialised result of the forms that are not     *)
(* written, for which the compiler returns NULL.                           *)
Expr(k)    == [k |-> k]
Lit(v)     == [k |-> "self", v |-> v]
Illegal    == Expr("void")
Unset      == Expr("null_pointer")
Unsupported == {"case", "delay", "do", "let", "letrec", "let*", "quasiquote"}

Second(m, v) == Car(m, Cdr(m, v))
Body(m, v)   == Cdr(m, Cdr(m, v))

RECURSIVE Analyze(_, _)

(* The list v taken element by element. The type of what comes of it is    *)
(* set on its first cell, or on scheme_null where there is none. A list    *)
(* with another end has cells that are none.                               *)
AnalyzeEach(F(_, _), m, v, made(_)) ==
  LET w == Elements(m, v)
      r == Each(F, m, w.es)
  IN  CASE w.tail = Null    -> R(made(r.v), IF r.v # << >> THEN r.m
                                            ELSE [r.m EXCEPT !.heap[1].t = "expr"])
        [] w.tail = Endless -> Halt(m, "loops")
        [] OTHER            -> Halt(m, "wild")

(* _analyze_sequence *)
AnalyzeSequence(m, v, kind) ==
  AnalyzeEach(Analyze, m, v, LAMBDA es : [k |-> kind, es |-> es])

AnalyzeCond(m, v) ==
  LET clause(n, c) ==
        LET q == Analyze(n, Car(n, c))
            b == AnalyzeSequence(q.m, Cdr(n, c), "sequence")
        IN  IF IsPair(n, c) THEN R([test |-> q.v, body |-> b.v], b.m) ELSE Halt(n, "wild")
  IN  AnalyzeEach(clause, m, Cdr(m, v), LAMBDA cs : [k |-> "cond", clauses |-> cs])

(* Mutant: a procedure is defined under the list of its name and parameters. *)
DefinitionOfList(m, v) ==
  LET b == AnalyzeSequence(m, Body(m, v), "sequence")
  IN  R([k |-> "defun", x |-> Second(m, v), params |-> Null, body |-> b.v], b.m)

AnalyzeDefinition(m, v) ==
  LET p == Second(m, v)
  IN  IF IsSymbol(m, p)
        THEN LET e == Analyze(m, Car(m, Body(m, v)))
             IN  R([k |-> "defvar", x |-> p, e |-> e.v], e.m)
      ELSE IF IsPair(m, p)
        THEN LET b == AnalyzeSequence(m, Body(m, v), "sequence")
             IN  R([k |-> "defun", x |-> Car(m, p), params |-> Cdr(m, p), body |-> b.v], b.m)
      ELSE R(Unset, m)

(* An else is scheme_true, whatever stands behind it. *)
AnalyzeElse == Expr("true")

AnalyzeIf(m, v) ==
  LET w == Elements(m, Cdr(m, v))
      r == Each(Analyze, m, w.es)
  IN  IF Len(w.es) = 0 \/ Len(w.es) > 3 \/ w.tail # Null THEN R(Illegal, r.m)
      ELSE IF \E i \in DOMAIN r.v : r.v[i] = Illegal THEN R(Illegal, r.m)
      ELSE R([k |-> "if", pred |-> r.v[1],
              cseq  |-> IF Len(r.v) > 1 THEN r.v[2] ELSE Unset,
              alter |-> IF Len(r.v) > 2 THEN r.v[3] ELSE Lit(Null)], r.m)

AnalyzeLambda(m, v) ==
  LET b == AnalyzeSequence(m, Body(m, v), "sequence")
  IN  R([k |-> "lambda", params |-> Second(m, v), body |-> b.v], b.m)

AnalyzeAssignment(m, v) ==
  LET e == Analyze(m, Car(m, Body(m, v)))
  IN  IF IsSymbol(m, Second(m, v))
        THEN R([k |-> "assignment", x |-> Second(m, v), e |-> e.v], e.m)
        ELSE R(Illegal, m)

(* The words after the keyword of a form that asks for them. *)
AnalyzeForm(word, m, v) ==
  CASE word \in {"and", "or", "begin"} -> AnalyzeSequence(m, Cdr(m, v), word)
    [] word = "cond"   -> AnalyzeCond(m, v)
    [] word = "define" -> AnalyzeDefinition(m, v)
    [] word = "else"   -> R(AnalyzeElse, m)
    [] word = "if"     -> AnalyzeIf(m, v)
    [] word = "lambda" -> AnalyzeLambda(m, v)
    [] word = "quote"  -> R(Lit(Second(m, v)), m)
    [] word = "set!"   -> AnalyzeAssignment(m, v)
    [] word \in Unsupported -> R(Unset, m)
    [] OTHER           -> AnalyzeSequence(m, v, "application")

Analyze(m, v) ==
  LET type == TypeOf(m, v)
  IN  CASE type \in {"char", "integer", "string", "null", "expr", "vector", "bool"} -> R(Lit(v), m)
        [] type = "symbol" -> R([k |-> "variable", x |-> v], m)
        [] type = "pair" /\ IsSymbol(m, Car(m, v)) ->
             AnalyzeForm(FindKeyword(Spelling(m, Car(m, v))), m, v)
        [] type = "pair" /\ IsPair(m, Car(m, v)) -> AnalyzeForm(NoKeyword, m, v)
        [] OTHER -> R(Illegal, m)

-----------------------------------------------------------------------------
(* env.c *)
RECURSIVE Lookup(_, _, _)
Lookup(m, x, f) ==
  IF f = 0 THEN Void
  ELSE IF x \in DOMAIN m.frames[f].binds THEN m.frames[f].binds[x]
  ELSE Lookup(m, x, m.frames[f].up)

Bind(m, x, v, f) ==
  [m EXCEPT !.frames[f].binds = [y \in DOMAIN @ \cup {x} |-> IF y = x THEN v ELSE @[y]]]

(* The value r of the definition or the assignment comes with the machine. *)
DefineVar(r, x, f) == IF r.m.halt # "no" THEN r ELSE R(x, Bind(r.m, x, r.v, f))

(* Frame f only, not those it is enclosed by. *)
SetVar(r, x, f) ==
  IF r.m.halt # "no" \/ x \notin DOMAIN r.m.frames[f].binds THEN R(Void, r.m)
  ELSE R(r.m.frames[f].binds[x], Bind(r.m, x, r.v, f))

(* Missing arguments are what the fields of scheme_null point to; those    *)
(* for which there is no parameter are not looked at.                      *)
ExtendEnv(m, params, args, up) ==
  LET w    == Elements(m, params)
      n    == Len(w.es)
      arg(x) == LET i == LeastOf({i \in 1 .. n : w.es[i] = x})
                IN  IF i <= Len(args) THEN args[i] ELSE Junk
      given == [x \in {w.es[i] : i \in 1 .. n} |-> arg(x)]
      more  == IF n > Len(args) THEN R(Junk, m)
               ELSE Chain(m, SubSeq(args, n + 1, Len(args)), Null)
      frame(b) == [binds |-> b, up |-> up]
  IN  IF IsSymbol(m, w.tail) /\ w.tail \notin DOMAIN given
        THEN [more.m EXCEPT !.frames = Append(@, frame(
                [x \in DOMAIN given \cup {w.tail} |-> IF x = w.tail THEN more.v ELSE given[x]]))]
        ELSE [m EXCEPT !.frames = Append(@, frame(given))]

-----------------------------------------------------------------------------
RECURSIVE Eval(_, _, _), EvalSequence(_, _, _), EvalCond(_, _, _), Until(_, _, _, _)

(* scheme_apply_prim_proc. An upper bound of 0 is none. *)
ApplyPrimProc(m, p, args) ==
  IF (p.maxa > 0 /\ Len(args) > p.maxa) \/ Len(args) < p.mina THEN R(Void, m)
  ELSE Call(m, p.name, args)

(* Mutant: a procedure is called in a frame that lies in its caller's. *)
EvalBody(m, es) == EvalSequence(m, es, Len(m.frames))
ApplyDynamic(m, p, args, f) == EvalBody(ExtendEnv(m, p.params, args, f), p.body)

(* The frame a procedure is called in lies in the one it was made in. *)
ApplyCompound(m, p, args, f) == EvalBody(ExtendEnv(m, p.params, args, p.env), p.body)

(* scheme_apply; f, the frame of the caller, makes no difference. *)
Apply(m, p, args, f) ==
  CASE m.halt # "no"  -> R(Junk, m)
    [] p.t = "prim" -> ApplyPrimProc(m, p, args)
    [] p.t = "cpd"  -> ApplyCompound(m, p, args, f)
    [] p.t = "junk" -> Halt(m, "wild")
    [] OTHER        -> R(Void, m)

MakeProcedure(params, body, f) == [t |-> "cpd", params |-> params, body |-> body.es, env |-> f]

(* _eval_and and _eval_or: the first that decides, and a truth value.      *)
Decided(r, rest, f, decides) ==
  IF (r.v # False) = decides THEN R(Bool(decides), r.m) ELSE Until(r.m, rest, f, decides)
Until(m, es, f, decides) ==
  IF es = << >> THEN R(Bool(~ decides), m)
  ELSE Decided(Eval(m, Head(es), f), Tail(es), f, decides)

(* Mutant: the null list, too, is taken for false. *)
NullIsFalse(p, e) == IF p.v \notin {False, Null} THEN e.cseq ELSE e.alter

(* _eval_if *)
Branch(p, e) == IF p.v # False THEN e.cseq ELSE e.alter
EvalIf(p, e, f) == Eval(p.m, Branch(p, e), f)

(* _eval_cond: each test by itself; that of an else is not evaluated.      *)
Clause(p, cs, f) ==
  IF p.v # False THEN EvalSequence(p.m, Head(cs).body.es, f) ELSE EvalCond(p.m, Tail(cs), f)
EvalCond(m, cs, f) ==
  IF cs = << >> THEN R(Void, m)
  ELSE Clause(IF Head(cs).test = AnalyzeElse THEN R(True, m) ELSE Eval(m, Head(cs).test, f), cs, f)

(* _eval_application: the operator, then the operands from left to right.  *)
Applied(p, args, f) == Apply(args.m, p.v, args.v, f)
EvalList(m, es, f)  == Each(LAMBDA n, e : Eval(n, e, f), m, es)
WithOperator(p, es, f) ==
  IF p.v = Void \/ p.m.halt # "no" THEN p ELSE Applied(p, EvalList(p.m, es, f), f)
EvalApplication(m, es, f) == WithOperator(Eval(m, Head(es), f), Tail(es), f)

After(r, rest, f) == IF rest = << >> THEN r ELSE EvalSequence(r.m, rest, f)
EvalSequence(m, es, f) ==
  IF es = << >> THEN R(Null, m) ELSE After(Eval(m, Head(es), f), Tail(es), f)

(* The function _eval_funs_ has for an expression. What stands before it   *)
(* is NULL for the type of scheme_true, and the address of no function for *)
(* that of scheme_void.                                                    *)
EvalFun(m, e, f) ==
  CASE e.k = "self"       -> R(e.v, m)
    [] e.k = "variable"   -> R(Lookup(m, e.x, f), m)
    [] e.k = "assignment" -> SetVar(Eval(m, e.e, f), e.x, f)
    [] e.k = "defvar"     -> DefineVar(Eval(m, e.e, f), e.x, f)
    [] e.k = "defun"      -> DefineVar(R(MakeProcedure(e.params, e.body, f), m), e.x, f)
    [] e.k = "if"         -> EvalIf(Eval(m, e.pred, f), e, f)
    [] e.k = "lambda"     -> R(MakeProcedure(e.params, e.body, f), m)
    [] e.k = "cond"       -> EvalCond(m, e.clauses, f)
    [] e.k = "application" -> EvalApplication(m, e.es, f)
    [] e.k \in {"begin", "sequence"} -> EvalSequence(m, e.es, f)
    [] e.k \in {"and", "or"} -> Until(m, e.es, f, e.k = "or")
    [] e.k = "true"       -> R(Void, m)
    [] OTHER              -> Halt(m, "wild")

(* scheme_eval of an expression. One that has no parts is scheme_null,     *)
(* whichever form it was written as.                                       *)
IsNull(e) == \/ e.k \in {"and", "or", "begin", "sequence"} /\ e.es = << >>
             \/ e.k = "cond" /\ e.clauses = << >>
Eval(m, e, f) ==
  IF m.halt # "no" THEN R(Junk, m)
  ELSE IF IsNull(e) THEN R(Null, m)
  ELSE EvalFun(m, e, f)

(* scheme_eval of an object; scheme_null is not analysed. *)
EvalAnalyzed(e) == IF e.m.halt # "no" THEN R(Junk, e.m) ELSE EvalFun(e.m, e.v, 1)
EvalObject(o) == IF o.v = Null THEN R(Null, o.m) ELSE EvalAnalyzed(Analyze(o.m, o.v))

=============================================================================
