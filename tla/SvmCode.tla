------------------------------- MODULE SvmCode -------------------------------
(***************************************************************************)
(* What scm2c makes of a program and the virtual machine runs: data, as    *)
(* Exptype.hs has them, and the instructions of SVM.hs.                    *)
(***************************************************************************)
EXTENDS Integers

(* Exptype.hs. A datum is a constant of the program. *)
Num(n)    == [t |-> "integer", n |-> n]
Pair(a, d) == [t |-> "pair", car |-> a, cdr |-> d]
True      == [t |-> "true"]
False     == [t |-> "false"]
Void      == [t |-> "void"]

(* SVM.hs: an instruction, with its operands. *)
Op(op)          == [op |-> op]
Fetch(d)        == [op |-> "FetchConst", d |-> d]
LookupVar(x)    == [op |-> "LookupVar", x |-> x]
Bind(x)         == [op |-> "Bind", x |-> x]          (* NewBind and ReBind *)
NewBind(x)      == [op |-> "Bind", x |-> x, new |-> TRUE]
Label(l)        == [op |-> "Label", l |-> l]
Goto(l)         == [op |-> "Goto", l |-> l]
PushCont(l)     == [op |-> "PushCont", l |-> l]
MoveSp(n)       == [op |-> "MoveSp", n |-> n]
AccStack(i)     == [op |-> "AccStack", i |-> i]
IfTrue(a, b)    == [op |-> "If", when |-> TRUE, a |-> a, b |-> b]
IfFalse(a, b)   == [op |-> "If", when |-> FALSE, a |-> a, b |-> b]
CallBuiltin(f, argc) == [op |-> "CallBuiltin", f |-> f, argc |-> argc]
MakeClosure(params, body) == [op |-> "MakeClosure", params |-> params, body |-> body]
Error           == Op("error")       (* no code: the compiler gives up      *)

=============================================================================
