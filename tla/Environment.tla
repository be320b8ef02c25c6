----------------------------- MODULE Environment -----------------------------
(***************************************************************************)
(* The environments of the interpreter, kscm/scheme/env.c: frames that     *)
(* keep their bindings in a block of slots, are searched from the          *)
(* innermost to the global one, and get a larger block when they are full. *)
(*                                                                         *)
(* Frames are numbered in the order of their creation; the block of a      *)
(* frame is a piece of memory of the allocator, which may hand a freed     *)
(* block to the next that asks.                                            *)
(***************************************************************************)
EXTENDS Integers, Sequences

CONSTANTS
  Vars,         (* the symbols                                             *)
  Vals,         (* the values of expressions                               *)
  Wild,         (* what SCHEME_CAR finds past the end of a list            *)
  Void,         (* scheme_void                                             *)
  Junk,         (* a slot nothing was written to                           *)
  Blocks,       (* the blocks the allocator can give                       *)
  NoVar,        (* no symbol: a parameter list without a rest parameter    *)
  Slots,        (* BINDING_SLOTS_SIZE: 32                                  *)
  GlobalSlots,  (* the slots of the global frame: 128                      *)
  MaxFrames,    (* bound: the frames of a behaviour                        *)
  ParamLists,   (* bound: the parameter lists procedures are made with     *)
  ArgLists      (* bound: the argument lists they are applied to           *)

NoBlock == -1

FrameIds == 0 .. MaxFrames - 1
Global == 0
NoFrame == -1    (* scheme_null, as the enclosing frame of the global one *)

(* A rest parameter is bound to what is left of the argument list.         *)
Values == Vals \cup {Wild} \cup Seq(Vals)
Slot == [var : Vars, val : Values]

ASSUME EnvironmentAssumption ==
  /\ Slots \in Nat \ {0} /\ GlobalSlots \in Nat /\ MaxFrames \in Nat \ {0}
  /\ ParamLists \subseteq Seq(Vars) /\ ArgLists \subseteq Seq(Vals)
  /\ NoVar \notin Vars
  /\ Void \notin Values
  /\ Junk \notin Slot
  /\ Blocks # {} /\ NoBlock \notin Blocks

VARIABLES
  frames,  (* how many frames there are                              *)
  encl,    (* the frame each one is enclosed by                      *)
  cnt,     (* bind_cnt                                               *)
  max,     (* max_bind                                               *)
  block,   (* binds                                                  *)
  mem,     (* the slots of each block                                *)
  given,   (* the blocks the allocator has given and not got back    *)
  failed,  (* the last call returned scheme_void                     *)
  lost     (* a NULL of the allocator was written through            *)

vars == <<frames, encl, cnt, max, block, mem, given, failed, lost>>

Made == 0 .. frames - 1

-----------------------------------------------------------------------------
(* The slots of frame f that bind x. *)
SlotsOf(f, x) ==
  {i \in DOMAIN mem[block[f]] :
     i < cnt[f] /\ mem[block[f]][i] # Junk /\ mem[block[f]][i].var = x}

Binds(f, x) == SlotsOf(f, x) # {}

First(S) == CHOOSE i \in S : \A j \in S : i <= j

FirstSlot(f, x) == First(SlotsOf(f, x))

Value(f, x) == mem[block[f]][FirstSlot(f, x)].val

(* scheme_lookup_var *)
Lookup(x, f) ==
  LET look[g \in Made] ==
        IF Binds(g, x) THEN Value(g, x)
        ELSE IF encl[g] = NoFrame THEN Void ELSE look[encl[g]]
  IN  look[f]

-----------------------------------------------------------------------------
(* scheme_init_env. The primitives it registers are defined like any       *)
(* other variable.                                                         *)
Init ==
  /\ frames = 1
  /\ encl = [f \in FrameIds |-> NoFrame]
  /\ cnt = [f \in FrameIds |-> 0]
  /\ max = [f \in FrameIds |-> IF f = Global THEN GlobalSlots ELSE 0]
  /\ \E b \in Blocks :
       /\ block = [f \in FrameIds |-> IF f = Global THEN b ELSE NoBlock]
       /\ mem = [c \in Blocks |->
                   IF c = b THEN [i \in 0 .. GlobalSlots - 1 |-> Junk] ELSE << >>]
       /\ given = {b}
  /\ failed = FALSE
  /\ lost = FALSE

(* The value bound to parameter i, counted from 0: the walk along the      *)
(* arguments does not look at their end.                                   *)
Argument(args, i) == IF i < Len(args) THEN args[i + 1] ELSE Wild

RestOf(args, i) == IF i <= Len(args) THEN SubSeq(args, i + 1, Len(args)) ELSE Wild

RoundUp(k) == ((k + Slots - 1) \div Slots) * Slots

(* SCHEME_SET_ENV_ENCLOSING *)
EnclosedByItself(f, base) == encl' = [encl EXCEPT ![f] = f]

EnclosedBy(f, base) == encl' = [encl EXCEPT ![f] = base]

(* scheme_extend_env, for a procedure made in frame base. *)
ExtendEnv(params, rest, args, base) ==
  LET f     == frames
      n     == Len(params)
      count == IF rest = NoVar THEN n ELSE n + 1
  IN  /\ frames < MaxFrames
      /\ frames' = frames + 1
      /\ EnclosedBy(f, base)
      /\ cnt' = [cnt EXCEPT ![f] = count]
      /\ max' = [max EXCEPT ![f] = RoundUp(count)]
      /\ \E b \in Blocks \ given :
           /\ given' = given \cup {b}
           /\ block' = [block EXCEPT ![f] = b]
           /\ mem' = [mem EXCEPT ![b] = [i \in 0 .. RoundUp(count) - 1 |->
                        IF i < n THEN [var |-> params[i + 1], val |-> Argument(args, i)]
                        ELSE IF i < count THEN [var |-> rest, val |-> RestOf(args, n)]
                        ELSE Junk]]
      /\ failed' = FALSE
      /\ UNCHANGED lost

(* The bindings or the frame are not to be had. Whichever it is, a NULL is *)
(* written through: kfree, which gets both pointers back, takes NULL for a *)
(* block, and nothing looks whether there is a frame.                      *)
ExtendEnvFailed ==
  /\ lost' = TRUE
  /\ UNCHANGED <<frames, encl, cnt, max, block, mem, given, failed>>

(* scheme_define_var of a variable frame f binds. *)
Redefine(f, x, v) ==
  /\ Binds(f, x)
  /\ mem' = [mem EXCEPT ![block[f]][FirstSlot(f, x)].val = v]
  /\ failed' = FALSE
  /\ UNCHANGED <<frames, encl, cnt, max, block, given, lost>>

(* scheme_define_var of a new one, with a slot left. *)
UncountedDefineInPlace(f, x, v) ==
  /\ ~ Binds(f, x) /\ cnt[f] # max[f]
  /\ mem' = [mem EXCEPT ![block[f]][cnt[f]] = [var |-> x, val |-> v]]
  /\ failed' = FALSE
  /\ UNCHANGED <<frames, encl, cnt, max, block, given, lost>>

DefineInPlace(f, x, v) ==
  /\ ~ Binds(f, x) /\ cnt[f] # max[f]
  /\ mem' = [mem EXCEPT ![block[f]][cnt[f]] = [var |-> x, val |-> v]]
  /\ cnt' = [cnt EXCEPT ![f] = @ + 1]
  /\ failed' = FALSE
  /\ UNCHANGED <<frames, encl, max, block, given, lost>>

(* The larger block: the bindings are copied, and the new one follows.     *)
SmallMoved(f, s) ==
  [i \in 0 .. max[f] - 1 |->
     IF i < cnt[f] THEN mem[block[f]][i] ELSE IF i = cnt[f] THEN s ELSE Junk]

ShortMoved(f, s) ==
  [i \in 0 .. max[f] + Slots - 1 |->
     IF i < cnt[f] - 1 THEN mem[block[f]][i] ELSE IF i = cnt[f] THEN s ELSE Junk]

Moved(f, s) ==
  [i \in 0 .. max[f] + Slots - 1 |->
     IF i < cnt[f] THEN mem[block[f]][i] ELSE IF i = cnt[f] THEN s ELSE Junk]

(* The frame is full: its bindings move, and its old block goes back.      *)
StaleDefineGrowing(f, x, v) ==
  /\ ~ Binds(f, x) /\ cnt[f] = max[f]
  /\ \E b \in Blocks \ given :
       /\ given' = (given \cup {b}) \ {block[f]}
       /\ mem' = [mem EXCEPT ![b] = Moved(f, [var |-> x, val |-> v])]
  /\ max' = [max EXCEPT ![f] = @ + Slots]
  /\ cnt' = [cnt EXCEPT ![f] = @ + 1]
  /\ failed' = FALSE
  /\ UNCHANGED <<frames, encl, block, lost>>

DefineGrowing(f, x, v) ==
  /\ ~ Binds(f, x) /\ cnt[f] = max[f]
  /\ \E b \in Blocks \ given :
       /\ given' = (given \cup {b}) \ {block[f]}
       /\ block' = [block EXCEPT ![f] = b]
       /\ mem' = [mem EXCEPT ![b] = Moved(f, [var |-> x, val |-> v])]
  /\ max' = [max EXCEPT ![f] = @ + Slots]
  /\ cnt' = [cnt EXCEPT ![f] = @ + 1]
  /\ failed' = FALSE
  /\ UNCHANGED <<frames, encl, lost>>

(* The larger block is not to be had, and nothing looks: the bindings are  *)
(* copied to address 0, into the page directory.                           *)
DefineFailed(f, x) ==
  /\ ~ Binds(f, x) /\ cnt[f] = max[f]
  /\ lost' = TRUE
  /\ UNCHANGED <<frames, encl, cnt, max, block, mem, given, failed>>

DefineVar(f, x, v) ==
  Redefine(f, x, v) \/ DefineInPlace(f, x, v) \/ DefineGrowing(f, x, v)

(* scheme_set_var looks at frame f only. *)
SetBound(f, x, v) ==
  /\ Binds(f, x)
  /\ mem' = [mem EXCEPT ![block[f]][FirstSlot(f, x)].val = v]
  /\ failed' = FALSE
  /\ UNCHANGED <<frames, encl, cnt, max, block, given, lost>>

SetUnbound(f, x) ==
  /\ ~ Binds(f, x)
  /\ failed' = TRUE
  /\ UNCHANGED <<frames, encl, cnt, max, block, mem, given, lost>>

SetVar(f, x) == SetUnbound(f, x) \/ \E v \in Vals : SetBound(f, x, v)

(* Nothing is said of an interpreter that wrote over the page directory.   *)
Next ==
  /\ ~ lost
  /\ \/ \E params \in ParamLists, rest \in Vars \cup {NoVar}, args \in ArgLists, base \in Made :
          ExtendEnv(params, rest, args, base)
     \/ ExtendEnvFailed
     \/ \E f \in Made, x \in Vars :
          \/ \E v \in Vals : DefineVar(f, x, v)
          \/ DefineFailed(f, x)
          \/ SetVar(f, x)

Spec == Init /\ [][Next]_vars

-----------------------------------------------------------------------------
(***************************************************************************)
(* The types of the state. A frame is enclosed by an older one, so that    *)
(* scheme_lookup_var ends.                                                 *)
(***************************************************************************)
TypeOK ==
  /\ frames \in 1 .. MaxFrames
  /\ encl \in [FrameIds -> FrameIds \cup {NoFrame}]
  /\ cnt \in [FrameIds -> Nat] /\ max \in [FrameIds -> Nat]
  /\ block \in [FrameIds -> Blocks \cup {NoBlock}]
  /\ DOMAIN mem = Blocks /\ given \subseteq Blocks
  /\ failed \in BOOLEAN /\ lost \in BOOLEAN
  /\ \A f \in Made : encl[f] \in -1 .. f - 1 /\ block[f] \in Blocks

(***************************************************************************)
(* bind_cnt, max_bind and the block of a frame, which scheme_extend_env    *)
(* and the growth in scheme_define_var set in different orders, agree: the *)
(* block has max_bind slots and the first bind_cnt of them were written.   *)
(***************************************************************************)
SlotsFit ==
  \A f \in Made :
    /\ cnt[f] <= max[f]
    /\ DOMAIN mem[block[f]] = 0 .. max[f] - 1
    /\ \A i \in 0 .. cnt[f] - 1 : mem[block[f]][i] \in Slot

(***************************************************************************)
(* No frame is left with a block that went back to the allocator, or that  *)
(* the allocator gave to another frame since, and none is forgotten.       *)
(***************************************************************************)
BlocksHeld ==
  /\ given = {block[f] : f \in Made}
  /\ \A f, g \in Made : block[f] = block[g] => f = g

(***************************************************************************)
(* A variable that was just defined in a frame is what lookups from that   *)
(* frame find, whether the frame had it, had room for it, or had to move.  *)
(***************************************************************************)
DefinedIsFound ==
  [][\A f \in Made, x \in Vars, v \in Vals :
       DefineVar(f, x, v) => Lookup(x, f)' = v]_vars

(***************************************************************************)
(* env.c:397 says of scheme_set_var that the variable is unbound when it   *)
(* returns scheme_void.                                                    *)
(***************************************************************************)
VoidMeansUnbound ==
  [][\A f \in Made, x \in Vars : SetVar(f, x) /\ failed' => Lookup(x, f) = Void]_vars

(***************************************************************************)
(* The frames implement the scopes of Scopes: the copy to a larger block,  *)
(* the reuse of blocks and the walks along slots touch one variable of one *)
(* scope, and arguments of any number bind the parameters of one scope.    *)
(***************************************************************************)
Local(f, x) == IF f \in Made /\ Binds(f, x) THEN Value(f, x) ELSE Void

Scoping == INSTANCE Scopes WITH
  Vals <- Values,
  Unbound <- Void,
  ScopeIds <- FrameIds,
  made <- Made,
  binds <- [f \in FrameIds |-> [x \in Vars |-> Local(f, x)]],
  outer <- [f \in FrameIds |-> IF encl[f] = NoFrame THEN Global ELSE encl[f]]

ImplementsScopes == Scoping!Spec

=============================================================================
