---------------------------------- MODULE Svm ----------------------------------
(***************************************************************************)
(* The virtual machine the compiled program runs on: the macros of         *)
(* tools/compiler/include/svm.h, with the builtins, the allocation of      *)
(* continuations and the initialisation of tools/compiler/lib.             *)
(*                                                                         *)
(* pc is the code that is still to run, up to the end of the function; a   *)
(* jump is always forward. The stack grows from its base, its top first;   *)
(* over is by how much the top has been moved past the base.               *)
(***************************************************************************)
EXTENDS Integers, Sequences, SequencesExt, SvmCode

CONSTANTS
  Programs,      (* what the compiler made: the code, all instructions in   *)
                 (* it, the number of variables and the points of the code  *)
  Data,          (* the constants of the programs, and their parts          *)
  StackSize,     (* STACK_SIZE                                              *)
  Conts,         (* how many continuations there is memory for              *)
  IntBits        (* the width of an integer in a word, 31 of 32             *)

VARIABLES program, pc, value, cont, free, stack, over, binds, out, status

vars == <<program, pc, value, cont, free, stack, over, binds, out, status>>
regs == <<program, value, cont, free, stack, over, binds, out>>

(* A word nothing was written to, and what is at a wrong address. *)
Junk == [t |-> "junk"]
Wrapped(n) == ((n + 2 ^ (IntBits - 1)) % (2 ^ IntBits)) - 2 ^ (IntBits - 1)

(* scheme_init_all, svm_init and mod_init. The variables are not set. *)
Init ==
  /\ program \in Programs
  /\ pc = program.code
  /\ value = Junk                    \* NULL
  /\ cont = << >> /\ free = Conts /\ stack = << >> /\ over = 0 /\ out = << >>
  /\ binds = [i \in 1 .. program.globals |-> Junk]
  /\ status = "running"

(* The code behind a label. *)
Behind(code, l) == SubSeq(code, Min({i \in DOMAIN code : code[i] = Label(l)}) + 1, Len(code))

At(op)   == status = "running" /\ pc # << >> /\ Head(pc).op = op
NextPc   == pc' = Tail(pc) /\ UNCHANGED status
Load(v)  == value' = v /\ UNCHANGED <<program, cont, free, stack, over, binds, out>>
Stop(how) == status' = how /\ UNCHANGED pc /\ UNCHANGED regs

FetchConst ==
  /\ At("FetchConst")
  /\ LET d == Head(pc).d IN Load(IF d.t = "integer" THEN Num(Wrapped(d.n)) ELSE d)
  /\ NextPc

(* LOOKUP_VAR. There is one environment, the global one: a procedure is    *)
(* compiled for a frame of its own, which nothing makes, and the frame     *)
(* that encloses the global one is at NULL. BIND_VAR.                      *)
InFrame(at) == at.level = 0 /\ at.offset < Len(binds)
Lookup ==
  /\ At("LookupVar")
  /\ LET at == Head(pc).at
     IN  IF InFrame(at) THEN Load(binds[at.offset + 1]) /\ NextPc ELSE Stop("wild")

BindVar ==
  /\ At("Bind")
  /\ LET at == Head(pc).at
     IN  IF InFrame(at)
           THEN /\ binds' = [binds EXCEPT ![at.offset + 1] = value]
                /\ UNCHANGED <<program, value, cont, free, stack, over, out>> /\ NextPc
           ELSE Stop("wild")

(* Mutant: the limit is looked at after the word has been written. *)
LatePush ==
  /\ At("Push")
  /\ IF Len(stack) > StackSize THEN Stop("returned")
     ELSE /\ stack' = <<value>> \o stack
          /\ UNCHANGED <<program, value, cont, free, over, binds, out>> /\ NextPc

(* svm_push. A full stack ends the C function that runs, and so the run.   *)
Push ==
  /\ At("Push")
  /\ CASE Len(stack) = StackSize -> Stop("returned")
       [] over > 0               -> Stop("wild")
       [] OTHER -> /\ stack' = <<value>> \o stack
                   /\ UNCHANGED <<program, value, cont, free, over, binds, out>> /\ NextPc

(* MOVESP, and the same in builtin_add. *)
Popped(n) == /\ stack' = IF n >= Len(stack) THEN << >> ELSE SubSeq(stack, n + 1, Len(stack))
             /\ over' = IF n > Len(stack) THEN over + n - Len(stack) ELSE over

(* Mutant: one word too many is popped. *)
PopMore ==
  /\ At("MoveSp") /\ Popped(Head(pc).n + 1)
  /\ UNCHANGED <<program, value, cont, free, binds, out>> /\ NextPc

Pop ==
  /\ At("MoveSp") /\ Popped(Head(pc).n)
  /\ UNCHANGED <<program, value, cont, free, binds, out>> /\ NextPc

(* ACCESS_STACK asserts that the offset is not behind the base. *)
Access ==
  /\ At("AccStack")
  /\ IF Head(pc).i >= Len(stack) - over THEN Stop("aborted")
     ELSE Load(stack[Head(pc).i + 1]) /\ NextPc

Branch ==
  /\ At("If")
  /\ pc' = (IF (value # False) = Head(pc).when THEN Head(pc).a ELSE Head(pc).b) \o Tail(pc)
  /\ UNCHANGED regs /\ UNCHANGED status

Jump ==
  /\ At("Goto")
  /\ pc' = Behind(Tail(pc), Head(pc).l)
  /\ UNCHANGED regs /\ UNCHANGED status

Pass == At("Label") /\ NextPc /\ UNCHANGED regs

(* gc_alloc_obj gives out memory once and takes none back. *)
NoMemory == free = 0
Taken    == free' = free - 1

(* What a continuation holds. Its environment, its template and its stack  *)
(* are those there are.                                                    *)
Continuation(code) == [pc |-> code]

(* push_continuation. Without memory the C function returns. *)
SaveCont ==
  /\ At("PushCont")
  /\ IF NoMemory THEN Stop("returned")
     ELSE /\ cont' = <<Continuation(Behind(pc, Head(pc).l))>> \o cont
          /\ Taken
          /\ UNCHANGED <<program, value, stack, over, binds, out>> /\ NextPc

(* A procedure is a constant of the program that holds the environment it  *)
(* was last made in, which is the global one. apply_procedure asks nothing *)
(* of what it jumps to, and pushes nothing: the arguments stay on the      *)
(* stack when the procedure has returned.                                  *)
Close ==
  /\ At("MakeClosure")
  /\ Load([t |-> "closure", body |-> Head(pc).body]) /\ NextPc

Apply ==
  /\ At("Apply")
  /\ IF value.t # "closure" THEN Stop("wild")
     ELSE pc' = value.body /\ UNCHANGED regs /\ UNCHANGED status

(* resume_continuation. The stack stays as it is. *)
Leave ==
  /\ At("LeaveProc")
  /\ IF cont = << >> THEN Stop("wild")
     ELSE /\ pc' = Head(cont).pc /\ cont' = Tail(cont)
          /\ UNCHANGED <<program, value, free, stack, over, binds, out, status>>

(* The builtins. Arguments are at the top of the stack, except for display,*)
(* which shows the value; builtin_add pops them, and MOVESP once more. The *)
(* sum of words that are no integers is odd, too.                          *)
Calls(fs) == At("CallBuiltin") /\ Head(pc).f \in fs
Arguments == SubSeq(stack, 1, Head(pc).argc)
Sum(vs)   == FoldLeft(LAMBDA n, v : n + v.n, 0, vs)
AddValue(vs) == IF \A i \in DOMAIN vs : vs[i].t = "integer" THEN Num(Wrapped(Sum(vs))) ELSE Junk

CarCdr ==
  /\ Calls({"car", "cdr"})
  /\ IF stack = << >> \/ Head(stack).t # "pair" THEN Stop("wild")
     ELSE Load(IF Head(pc).f = "car" THEN Head(stack).car ELSE Head(stack).cdr) /\ NextPc

Add ==
  /\ Calls({"+"})
  /\ value' = AddValue(Arguments) /\ Popped(Head(pc).argc)
  /\ UNCHANGED <<program, cont, free, binds, out>> /\ NextPc

Display ==
  /\ Calls({"display"})
  /\ out' = IF value.t = "integer" THEN Append(out, value.n) ELSE out
  /\ UNCHANGED <<program, value, cont, free, stack, over, binds>> /\ NextPc

Finish == status = "running" /\ pc = << >> /\ Stop("finished")

Next ==
  \/ FetchConst \/ Lookup \/ BindVar \/ Push \/ Pop \/ Access \/ Branch \/ Jump \/ Pass
  \/ SaveCont \/ Close \/ Apply \/ Leave \/ CarCdr \/ Add \/ Display \/ Finish

(* The processor goes on. *)
Spec == Init /\ [][Next]_vars /\ WF_vars(Next)

-----------------------------------------------------------------------------
(* Where a program can be: the code that is left, how many of the words on *)
(* the stack it may take, those pushed since the procedure, or the call    *)
(* that is being prepared, began, and whether that has a caller, a         *)
(* continuation to leave to. After the instruction at a point come those   *)
(* of After. A program is fit if it takes no more, and calls and leaves    *)
(* only with a caller.                                                     *)
Point(code, height, caller) == [code |-> code, height |-> height, caller |-> caller]

After(x) ==
  LET i  == Head(x.code)
      on == Tail(x.code)
      h  == x.height
      c  == x.caller
  IN  IF x.code = << >> \/ i.op \in {"Apply", "LeaveProc"} THEN {}
      ELSE IF i.op = "Push"        THEN {Point(on, h + 1, c)}
      ELSE IF i.op = "MoveSp"      THEN {Point(on, h - i.n, c)}
      ELSE IF i.op = "If"          THEN {Point(i.a \o on, h, c), Point(i.b \o on, h, c)}
      ELSE IF i.op = "Goto"        THEN {Point(Behind(on, i.l), h, c)}
      ELSE IF i.op = "PushCont"    THEN {Point(on, 0, TRUE), Point(Behind(x.code, i.l), h, c)}
      ELSE IF i.op = "MakeClosure" THEN {Point(on, h, c), Point(i.body, 0, TRUE)}
      ELSE {Point(on, h, c)}

Fit(x) ==
  /\ x.height \in Nat /\ x.caller \in BOOLEAN
  /\ x.code # << >> =>
       LET i == Head(x.code)
       IN  /\ i.op = "FetchConst"              => i.d \in Data
           /\ i.op \in {"LookupVar", "Bind"}   => i.at.offset \in Nat
           /\ i.op = "MoveSp"                  => i.n \in 0 .. x.height
           /\ i.op = "CallBuiltin"             => i.argc \in Nat
           /\ i.op = "AccStack"                => i.i \in Nat
           /\ i.op \in {"Apply", "LeaveProc"}  => x.caller

(* What the compiler makes: the points of a program follow from its start. *)
ASSUME SvmAssumption ==
  /\ StackSize \in Nat /\ Conts \in Nat /\ IntBits \in Nat \ {0}
  /\ \A d \in Data : d.t # "closure" /\ (d.t = "pair" => d.car \in Data /\ d.cdr \in Data)
  /\ \A p \in Programs :
       /\ p.globals \in Nat
       /\ Point(p.code, 0, FALSE) \in p.points
       /\ \A x \in p.points : Fit(x) /\ x.code \in Seq(Range(p.all)) /\ After(x) \subseteq p.points

-----------------------------------------------------------------------------
(* The stack stays in its array (svm_push looks at the limit first), and   *)
(* there are never more continuations than memory was taken for.           *)
TypeOK ==
  /\ status \in {"running", "finished", "returned", "aborted", "wild"}
  /\ Len(stack) <= StackSize /\ over \in Nat /\ free \in 0 .. Conts /\ Len(cont) <= Conts - free
  /\ DOMAIN binds = 1 .. program.globals

(* What is pushed is popped, and no more than that: the top of the stack   *)
(* is never moved past the base, which *(g_svm.stack_top++) does not check,*)
(* except by the sum, whose arguments are popped twice.                    *)
Sums == \E i \in Range(program.all) : i.op = "CallBuiltin" /\ i.f = "+" /\ i.argc > 0
StackWithin == over > 0 => Sums

(* A label names one place in the file the assembler reads, and that comes *)
(* after what jumps or returns to it.                                      *)
LabelsUnique ==
  LET code == program.all
      labels == {i \in DOMAIN code : code[i].op = "Label"}
  IN  /\ \A i, j \in labels : code[i].l = code[j].l => i = j
      /\ \A i \in DOMAIN code : code[i].op \in {"Goto", "PushCont"} =>
           \E j \in labels : i < j /\ code[j].l = code[i].l

=============================================================================
