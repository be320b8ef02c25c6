------------------------------ MODULE Compiler ------------------------------
(***************************************************************************)
(* scm2c, the compiler of tools/compiler/src: from an expression, as       *)
(* Parser.y has it, to code of the virtual machine (Compiler.hs), and the  *)
(* places of its variables (Convert.hs). Module Svm runs the code.         *)
(***************************************************************************)
EXTENDS Integers, Sequences, SequencesExt, SvmCode

(* Exptype.hs. *)
Var(x)        == [e |-> "var", x |-> x]
Const(d)      == [e |-> "const", d |-> d]
Call(f, args) == [e |-> "call", f |-> f, args |-> Reverse(args)]   (* Operands Expr0 { $2 : $1 } *)
Defvar(x, a)  == [e |-> "defvar", x |-> x, a |-> a]
Defun(x, params, body) == [e |-> "defun", x |-> x, params |-> params, body |-> body]
Assign(x, a)  == [e |-> "assign", x |-> x, a |-> a]
If(p, a, b)   == [e |-> "if", p |-> p, a |-> a, b |-> b]
Clause(test, es) == [test |-> test, es |-> es]
Else(es)      == Clause(Const(True), es)
Cond(cs)      == [e |-> "cond", cs |-> cs]
And(es)       == [e |-> "and", es |-> es]
Or(es)        == [e |-> "or", es |-> es]
Other(what)   == [e |-> what]        (* lambda, a rest parameter, let, case *)

(* Builtin.hs. *)
Builtins == {"car", "cdr", "cons", "+", "-", "*", "/", "display"}
IsBuiltin(f) == f.e = "var" /\ f.x \in Builtins

-----------------------------------------------------------------------------
(* What a piece of the compiler returns: code, and the next label. *)
C(c, n) == [c |-> c, n |-> n]

(* Each code of cs, and what follows it. *)
Joined(cs, after) == FlattenSeq([i \in DOMAIN cs |-> cs[i] \o after])

RECURSIVE Compile(_, _, _)

(* Mutant: every expression of a body in tail position is. *)
AllTailSeq(istail, es, n) ==
  LET upto[i \in 0 .. Len(es)] ==
        IF i = 0 THEN C(<< >>, n)
        ELSE LET p == upto[i - 1]
                 r == Compile(istail, es[i], p.n)
             IN  C(Append(p.c, r.c), r.n)
  IN  upto[Len(es)]

(* compileSeq: only the last expression is in tail position. *)
CompileSeq(istail, es, n) ==
  LET upto[i \in 0 .. Len(es)] ==
        IF i = 0 THEN C(<< >>, n)
        ELSE LET p == upto[i - 1]
                 r == Compile(istail /\ i = Len(es), es[i], p.n)
             IN  C(Append(p.c, r.c), r.n)
  IN  upto[Len(es)]

(* A call that is not in tail position returns to a label of its own. The  *)
(* label is taken whether or not the function is one of the builtins.      *)
ProcCall(istail, l, operands, operator, args, f) ==
  LET pushes == Joined(operands, <<Op("Push")>>)
  IN  IF IsBuiltin(f)
        THEN pushes \o <<CallBuiltin(f.x, Len(args)), MoveSp(Len(args))>>
        ELSE (IF istail THEN << >> ELSE <<PushCont(l)>>) \o pushes \o operator
             \o <<Op("Apply")>> \o (IF istail THEN << >> ELSE <<Label(l)>>)
Operator(istail, l, r, e) ==
  LET o == Compile(FALSE, e.f, r.n)
  IN  C(ProcCall(istail, l, r.c, o.c, e.args, e.f), IF IsBuiltin(e.f) THEN r.n ELSE o.n)
(* Mutant: a call that is not the last takes no label of its own. *)
SharedLabelCall(istail, e, n) == Operator(istail, n, CompileSeq(FALSE, e.args, n), e)

CompileCall(istail, e, n) ==
  Operator(istail, n, CompileSeq(FALSE, e.args, IF istail THEN n ELSE n + 1), e)

CompileDefun(e, r) ==
  LET header == FlattenSeq([i \in DOMAIN e.params |-> <<AccStack(i - 1), Bind(e.params[i])>>])
  IN  C(<<MakeClosure(e.params, header \o r.c \o <<Op("LeaveProc")>>), NewBind(e.x)>>, r.n)

(* and, or: out at the first that decides; the last test is removed again. *)
Deciding(test, r) ==
  LET all == Joined(r.c, <<test>>)
  IN  C(SubSeq(all, 1, Len(all) - 1) \o <<Label(r.n)>>, r.n + 1)
CompileAnd(r) == Deciding(IfFalse(<<Goto(r.n)>>, << >>), r)
CompileOr(r)  == Deciding(IfTrue(<<Goto(r.n)>>, << >>), r)

(* cond: each clause leaves for the label behind the last. *)
CompileCond(istail, cs, n) ==
  LET upto[i \in 0 .. Len(cs)] ==
        IF i = 0 THEN C(<< >>, n + 1)
        ELSE LET p == upto[i - 1]
                 t == Compile(FALSE, cs[i].test, p.n)
                 a == CompileSeq(istail, cs[i].es, t.n)
             IN  C(p.c \o t.c \o <<IfTrue(FlattenSeq(a.c) \o <<Goto(n)>>, << >>)>>, a.n)
      r == upto[Len(cs)]
  IN  C(r.c \o <<Fetch(Void), Label(n)>>, r.n)

CompileIf(istail, e, n) ==
  LET t == Compile(FALSE, e.p, n)
      a == Compile(istail, e.a, t.n)
      b == Compile(istail, e.b, a.n)
  IN  C(t.c \o <<IfTrue(a.c, b.c)>>, b.n)

(* compileExprM *)
Then(r, code) == C(r.c \o code, r.n)
Sequence(r)   == C(FlattenSeq(r.c), r.n)
Compile(istail, e, n) ==
  CASE e.e = "var"    -> C(<<LookupVar(e.x)>>, n)
    [] e.e = "const"  -> C(<<Fetch(e.d)>>, n)
    [] e.e = "call"   -> CompileCall(istail, e, n)
    [] e.e = "defvar" -> Then(Compile(FALSE, e.a, n), <<NewBind(e.x)>>)
    [] e.e = "assign" -> Then(Compile(FALSE, e.a, n), <<Bind(e.x)>>)
    [] e.e = "defun"  -> CompileDefun(e, Sequence(CompileSeq(TRUE, e.body, n)))
    [] e.e = "if"     -> CompileIf(istail, e, n)
    [] e.e = "cond"   -> CompileCond(istail, e.cs, n)
    [] e.e = "and"    -> IF e.es = << >> THEN C(<<Fetch(True)>>, n)
                         ELSE CompileAnd(CompileSeq(istail, e.es, n))
    [] e.e = "or"     -> IF e.es = << >> THEN C(<<Fetch(False)>>, n)
                         ELSE CompileOr(CompileSeq(istail, e.es, n))
    [] OTHER          -> C(<<Error>>, n)

-----------------------------------------------------------------------------
(* Convert.hs. An environment is the sequence of its frames, the innermost *)
(* first, each the sequence of its variables; a place is [level, offset].  *)
NewBinds(code) ==
  LET new == SelectSeq(code, LAMBDA i : "new" \in DOMAIN i) IN [k \in DOMAIN new |-> new[k].x]

Levels(x, env) == {l \in DOMAIN env : x \in Range(env[l])}
Place(x, env) ==
  LET l == Min(Levels(x, env))
  IN  [level |-> l - 1, offset |-> Min({k \in DOMAIN env[l] : env[l][k] = x}) - 1]

(* instr2c: a variable becomes its place; definitions and assignments are  *)
(* to variables of the innermost frame. The library has no function for    *)
(* some of the builtins.                                                   *)
Linked == {"car", "cdr", "+", "display"}
RECURSIVE Convert(_, _)
Convert(code, env) ==
  LET instr2c(i) ==
        CASE i.op \in {"LookupVar", "Bind"} ->
               IF Levels(i.x, IF i.op = "Bind" THEN <<env[1]>> ELSE env) = {} THEN Error
               ELSE [op |-> i.op, at |-> Place(i.x, env)]
          [] i.op = "If" -> [i EXCEPT !.a = Convert(@, env), !.b = Convert(@, env)]
          [] i.op = "MakeClosure" ->
               [i EXCEPT !.body = Convert(@, <<i.params \o NewBinds(i.body)>> \o env)]
          [] i.op = "CallBuiltin" /\ i.f \notin Linked -> Error
          [] OTHER -> i
  IN  [k \in DOMAIN code |-> instr2c(code[k])]

Return == -1          (* the label scheme_return *)

(* convert: the code of a program, and the variables it defines. *)
Unit(es) ==
  LET code == FlattenSeq(CompileSeq(TRUE, es, 0).c)
  IN  [code    |-> <<PushCont(Return)>> \o Convert(code, <<NewBinds(code)>>) \o <<Label(Return)>>,
       globals |-> Len(NewBinds(code))]

(* All instructions of some code, those in branches and procedures too. *)
RECURSIVE Instructions(_)
Instructions(code) ==
  FlattenSeq([k \in DOMAIN code |->
    LET i == code[k]
    IN  CASE i.op = "If"          -> <<i>> \o Instructions(i.a) \o Instructions(i.b)
          [] i.op = "MakeClosure" -> <<i>> \o Instructions(i.body)
          [] OTHER                -> <<i>>])

Accepted(code) == Error \notin Range(Instructions(code))

=============================================================================
