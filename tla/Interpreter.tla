----------------------------- MODULE Interpreter -----------------------------
(***************************************************************************)
(* A session with the interpreter, main of kscm/start.c: it is initialised,*)
(* tries itself on (+ 1 2), and then reads, evaluates and prints for ever. *)
(***************************************************************************)
EXTENDS Evaluator

CONSTANTS
  Texts,       (* what is typed: the tokens of one expression each          *)
  MaxTyped     (* bound: the expressions typed in a session                 *)

ASSUME InterpreterAssumption ==
  /\ Bits \in Nat \ {0} /\ Buckets \in Nat \ {0} /\ MaxTyped \in Nat
  /\ \A ts \in Texts : \A i \in DOMAIN ts : "type" \in DOMAIN ts[i]

VARIABLES
  m,       (* the memory of the interpreter                                *)
  pc,      (* what main does next                                          *)
  exp,     (* the expression, then its value                               *)
  buf,     (* the text of the last value                                   *)
  typed    (* the texts typed so far                                       *)

vars == <<m, pc, exp, buf, typed>>

(* scheme_init: scheme_register_primitive defines, in the global frame,    *)
(* one name after the other, none of them twice.                           *)
InputPort == "*scheme-current-input-port*"

(* scheme_make_prim_proc, of an entry of Registered. *)
Prim(r) == [t |-> "prim", name |-> r[1], mina |-> r[2], maxa |-> r[3]]

(* scheme_register_primitive: from symbols, cells of the heap, to what     *)
(* they name.                                                              *)
Globals(named) == [binds |-> named, up |-> 0]

Booted ==
  LET n       == Len(Registered)
      name(i) == IF i <= n THEN Registered[i][1] ELSE InputPort
      symbol(i) == Ref(Len(Memory.heap) + i)
      value(x) == LET i == x.a - Len(Memory.heap) IN IF i <= n THEN Prim(Registered[i]) ELSE [t |-> "input_port"]
      newest  == [i \in 1 .. n + 1 |-> n + 2 - i]
  IN  [Memory EXCEPT
        !.heap   = @ \o [i \in 1 .. n + 1 |-> [t |-> "symbol", name |-> name(i)]],
        !.frames = <<Globals([x \in {symbol(i) : i \in 1 .. n + 1} |-> value(x)])>>,
        !.table  = [b \in DOMAIN @ |->
          LET chain == SelectSeq(newest, LAMBDA i : Hash(name(i)) = b)
          IN  [k \in DOMAIN chain |-> symbol(chain[k])]]]

SelfTest == <<Open, Name("+"), Number(<<1>>), Number(<<2>>), Close>>

Init ==
  /\ pc = "read" /\ typed = << >>
  /\ \E r \in {EvalObject(Read(Booted, SelfTest))} :
       m = r.m /\ exp = r.v /\ buf = Show(r.m, r.v)

(* scheme_read. An illegal expression is not evaluated. *)
ReadText(ts) ==
  /\ pc = "read" /\ Len(typed) < MaxTyped
  /\ typed' = Append(typed, ts)
  /\ \E r \in {Read(m, ts)} :
       /\ m' = r.m /\ exp' = r.v
       /\ pc' = IF r.m.halt # "no" THEN "halted" ELSE IF r.v = Void THEN "read" ELSE "eval"
  /\ UNCHANGED buf

Evaluate ==
  /\ pc = "eval"
  /\ \E r \in {EvalObject(R(exp, m))} :
       /\ m' = r.m /\ exp' = r.v
       /\ pc' = IF r.m.halt = "no" THEN "print" ELSE "halted"
  /\ UNCHANGED <<buf, typed>>

(* Where scheme_obj_to_string writes nothing, the text is the last one.    *)
PrintValue ==
  LET s == Show(m, exp)
      fits == \A i \in DOMAIN s : s[i] \notin {Overrun, Wild}
  IN  /\ pc = "print"
      /\ pc' = IF fits THEN "read" ELSE "halted"
      /\ buf' = IF s = << >> THEN buf ELSE s
      /\ UNCHANGED <<m, exp, typed>>

Next == (\E ts \in Texts : ReadText(ts)) \/ Evaluate \/ PrintValue

Spec == Init /\ [][Next]_vars

-----------------------------------------------------------------------------
Names(ts) == {ts[i].name : i \in {j \in DOMAIN ts : ts[j].type = "symbol"}}
Symbols   == {a \in DOMAIN m.heap : m.heap[a].t = "symbol"}

(* What the interpreter, as it is now, would answer to a text. *)
Shown(r) == IF r.m.halt = "no" THEN Show(r.m, r.v) ELSE <<Tok(r.m.halt)>>
Answer(ts) ==
  Shown(EvalObject(Read(m, ts)))

(* Every reference is to a cell, every symbol a variable has is one, and   *)
(* every frame is enclosed by an older one.                                *)
IsValue(v) == v.t \in ValueTypes /\ (v.t = "ref" => v.a \in DOMAIN m.heap)
TypeOK ==
  /\ pc \in {"read", "eval", "print", "halted"}
  /\ m.halt \in {"no", "wild", "loops"}
  /\ IsValue(exp)
  /\ \A a \in DOMAIN m.heap :
       /\ m.heap[a].t \in CellTypes
       /\ m.heap[a].t = "pair" => IsValue(m.heap[a].car) /\ IsValue(m.heap[a].cdr)
  /\ \A f \in DOMAIN m.frames :
       /\ m.frames[f].up < f
       /\ \A x \in DOMAIN m.frames[f].binds : x.a \in Symbols /\ IsValue(m.frames[f].binds[x])

(* Two symbols of the table are never spelled alike and each is where it   *)
(* is looked for (scheme_make_symbol), and no variable is a symbol that    *)
(* is not in it: variables can be compared by address (SAME_OBJ, env.c).   *)
Interned ==
  /\ InternedIn(m)
  /\ \A f \in DOMAIN m.frames : DOMAIN m.frames[f].binds \subseteq Entered(m)

(* _find_keyword takes no name for a keyword but the keyword itself and,   *)
(* which it does, a name the keyword begins with: no primitive and no      *)
(* other variable is out of the reach of a call.                           *)
Begins(s, k) == Len(s) < Len(k) /\ SubSeq(k, 1, Len(s)) = s
KeywordsOnly ==
  \A a \in Symbols :
    LET s == m.heap[a].name
        isKeyword == \E i \in DOMAIN Keywords : s = Keywords[i]
    IN  (\E i \in DOMAIN Keywords : Begins(s, Keywords[i]))
        \/ FindKeyword(s) = (IF isKeyword THEN s ELSE NoKeyword)

(* An evaluation that calls nothing that writes adds cells and frames and  *)
(* changes none there is: neither the lists it is given (append copies)    *)
(* nor the variables of its caller (scheme_extend_env).                    *)
Writing == {"define", "set!", "set-car!", "set-cdr!", "string-set!"}
Quiet   == \A i \in DOMAIN typed : Names(typed[i]) \cap (Writing \ {"define"}) = {}
OnlyAllocates ==
  [][ pc = "eval" /\ Quiet /\ Names(typed[Len(typed)]) \cap Writing = {}
        /\ m'.heap[1] = m.heap[1]
      => /\ SubSeq(m'.heap, 1, Len(m.heap)) = m.heap
         /\ SubSeq(m'.frames, 1, Len(m.frames)) = m.frames ]_vars

=============================================================================
