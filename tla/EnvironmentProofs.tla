-------------------------- MODULE EnvironmentProofs --------------------------
(***************************************************************************)
(* Proofs about Environment, for all numbers of slots, frames, variables   *)
(* and values. TypeOK, SlotsFit and BlocksHeld together are inductive: a   *)
(* write through binds of one frame stays in its block because the slots   *)
(* fit, and out of the other frames because the blocks are held.           *)
(* The last part is about SymbolTable, which makes the variables that      *)
(* frames are searched for, for any hash and any names.                    *)
(***************************************************************************)
EXTENDS Environment, SymbolTable, WellFoundedInduction, TLAPS

IInv == TypeOK /\ SlotsFit /\ BlocksHeld

(* What is known of a frame. *)
LEMMA MadeFrames ==
  ASSUME IInv, NEW f \in Made
  PROVE  /\ f \in FrameIds /\ block[f] \in Blocks
         /\ cnt[f] \in Nat /\ max[f] \in Nat /\ cnt[f] <= max[f]
         /\ DOMAIN mem[block[f]] = 0 .. max[f] - 1
         /\ \A i \in 0 .. cnt[f] - 1 : mem[block[f]][i] \in Slot
<1>1. frames \in 1 .. MaxFrames /\ MaxFrames \in Nat
  BY EnvironmentAssumption DEF IInv, TypeOK
<1>2. f \in FrameIds
  BY <1>1 DEF Made, FrameIds
<1>3. QED
  BY <1>2 DEF IInv, TypeOK, SlotsFit

-----------------------------------------------------------------------------
(* The walk along the slots of a frame finds the first one that binds the  *)
(* variable.                                                               *)
Below == OpToRel(<, Nat)

LEMMA LeastOne ==
  ASSUME NEW S, S \subseteq Nat, S # {}
  PROVE  \E i \in S : \A j \in S : i <= j
<1>1. IsWellFoundedOn(Below, Nat)
  BY NatLessThanWellFounded, Zenon DEF Below
<1>2. \A a, b \in Nat : a < b => <<a, b>> \in Below
  BY DEF OpToRel, Below
<1>3. PICK i \in S : \A j \in S : ~ (<<j, i>> \in Below)
  BY <1>1, WFMin
<1>4. \A j \in S : i <= j
  <2> TAKE j \in S
  <2>1. ~ (j < i)
    BY <1>2, <1>3
  <2>2. QED
    BY <2>1
<1>5. QED
  BY <1>4

LEMMA FirstIsLeast ==
  ASSUME NEW S, S \subseteq Nat, S # {}
  PROVE  First(S) \in S
  BY LeastOne DEF First

(* The first of one slot. *)
LEMMA FirstOfOne == ASSUME NEW i \in Nat PROVE First({i}) = i
  BY FirstIsLeast

LEMMA SlotFound ==
  ASSUME IInv, NEW f \in Made, NEW x, Binds(f, x)
  PROVE  /\ FirstSlot(f, x) \in 0 .. cnt[f] - 1
         /\ FirstSlot(f, x) \in 0 .. max[f] - 1
         /\ mem[block[f]][FirstSlot(f, x)] \in Slot
         /\ mem[block[f]][FirstSlot(f, x)].var = x
<1>1. /\ cnt[f] \in Nat /\ max[f] \in Nat /\ cnt[f] <= max[f]
      /\ DOMAIN mem[block[f]] = 0 .. max[f] - 1
      /\ \A i \in 0 .. cnt[f] - 1 : mem[block[f]][i] \in Slot
  BY MadeFrames
<1>2. SlotsOf(f, x) \subseteq 0 .. cnt[f] - 1 /\ SlotsOf(f, x) \subseteq Nat
  BY <1>1 DEF SlotsOf
<1>3. FirstSlot(f, x) \in SlotsOf(f, x)
  BY <1>2, FirstIsLeast DEF FirstSlot, Binds
<1>4. QED
  BY <1>1, <1>2, <1>3 DEF SlotsOf

(* BINDING_SLOTS_SIZE times the rounded quotient is room enough.           *)
LEMMA RoundUpFits == \A k \in Nat : RoundUp(k) \in Nat /\ k <= RoundUp(k)
  BY EnvironmentAssumption, SMTT(60) DEF RoundUp

(* What a parameter is bound to is a value, however many arguments.        *)
LEMMA ArgumentsAreValues ==
  ASSUME NEW args \in ArgLists, NEW i \in Nat
  PROVE  Argument(args, i) \in Values /\ RestOf(args, i) \in Values
<1>1. args \in Seq(Vals)
  BY EnvironmentAssumption
<1>2. i < Len(args) => args[i + 1] \in Vals
  BY <1>1
<1>3. i <= Len(args) => SubSeq(args, i + 1, Len(args)) \in Seq(Vals)
  BY <1>1
<1>4. QED
  BY <1>2, <1>3 DEF Argument, RestOf, Values

-----------------------------------------------------------------------------
LEMMA InitIInv == Init => IInv
<1> SUFFICES ASSUME Init PROVE IInv
  OBVIOUS
<1>1. Made = {Global} /\ Global \in FrameIds
  BY EnvironmentAssumption DEF Init, Made, FrameIds, Global
<1>2. PICK b \in Blocks :
        /\ block = [f \in FrameIds |-> IF f = Global THEN b ELSE NoBlock]
        /\ mem = [c \in Blocks |->
                    IF c = b THEN [i \in 0 .. GlobalSlots - 1 |-> Junk] ELSE << >>]
        /\ given = {b}
  BY DEF Init
<1>3. block[Global] = b /\ cnt[Global] = 0 /\ max[Global] = GlobalSlots
  BY <1>1, <1>2 DEF Init
<1>4. mem[b] = [i \in 0 .. GlobalSlots - 1 |-> Junk]
  BY <1>2
<1>5. TypeOK
  <2>1. frames \in 1 .. MaxFrames /\ encl \in [FrameIds -> FrameIds \cup {NoFrame}]
    BY EnvironmentAssumption DEF Init
  <2>2. cnt \in [FrameIds -> Nat] /\ max \in [FrameIds -> Nat]
    BY EnvironmentAssumption DEF Init
  <2>3. \A f \in Made : encl[f] \in -1 .. f - 1 /\ block[f] \in Blocks
    BY <1>1, <1>3 DEF Init, Global, NoFrame
  <2>4. /\ block \in [FrameIds -> Blocks \cup {NoBlock}] /\ DOMAIN mem = Blocks
        /\ given \subseteq Blocks /\ failed \in BOOLEAN /\ lost \in BOOLEAN
    BY <1>2 DEF Init
  <2>5. QED
    BY <2>1, <2>2, <2>3, <2>4 DEF TypeOK
<1>6. SlotsFit
  BY <1>1, <1>3, <1>4, EnvironmentAssumption DEF SlotsFit
<1>7. BlocksHeld
  BY <1>1, <1>2, <1>3 DEF BlocksHeld
<1>8. QED
  BY <1>5, <1>6, <1>7 DEF IInv

(* A store into slot i of frame f, with i a slot it had or the next one.   *)
LEMMA StoreIInv ==
  ASSUME IInv, NEW f \in Made, NEW i \in 0 .. max[f] - 1, NEW s \in Slot,
         mem' = [mem EXCEPT ![block[f]] = [mem[block[f]] EXCEPT ![i] = s]],
         cnt' = cnt \/ (i = cnt[f] /\ cnt' = [cnt EXCEPT ![f] = @ + 1]),
         UNCHANGED <<frames, encl, max, block, given, lost>>, failed' \in BOOLEAN
  PROVE  IInv'
<1>1. TypeOK'
  <2>1. cnt' \in [FrameIds -> Nat]
    BY MadeFrames DEF IInv, TypeOK
  <2>2. DOMAIN mem' = Blocks
    BY DEF IInv, TypeOK
  <2>3. QED
    BY <2>1, <2>2 DEF IInv, TypeOK, Made
<1>2. Made' = Made
  BY DEF Made
<1>3. ASSUME NEW g \in Made
      PROVE  /\ cnt'[g] <= max[g]
             /\ DOMAIN mem'[block[g]] = 0 .. max[g] - 1
             /\ \A j \in 0 .. cnt'[g] - 1 : mem'[block[g]][j] \in Slot
  <2>1. CASE g = f
    <3>1. mem'[block[f]] = [mem[block[f]] EXCEPT ![i] = s]
      BY MadeFrames DEF IInv, TypeOK
    <3>2. cnt'[f] = cnt[f] \/ (i = cnt[f] /\ cnt'[f] = cnt[f] + 1)
      BY MadeFrames DEF IInv, TypeOK
    <3>3. QED
      BY <2>1, <3>1, <3>2, MadeFrames
  <2>2. CASE g # f
    <3>1. block[g] # block[f]
      BY <2>2 DEF IInv, BlocksHeld
    <3>2. mem'[block[g]] = mem[block[g]] /\ cnt'[g] = cnt[g]
      BY <2>2, <3>1, MadeFrames DEF IInv, TypeOK
    <3>3. QED
      BY <3>2, MadeFrames
  <2>3. QED
    BY <2>1, <2>2
<1>4. SlotsFit'
  BY <1>2, <1>3 DEF SlotsFit
<1>5. BlocksHeld'
  BY <1>2 DEF IInv, BlocksHeld
<1>6. QED
  BY <1>1, <1>4, <1>5 DEF IInv

(* A fresh block b for frame f, filled by m: a frame that is made, or one  *)
(* that moves and gives its old block back.                                *)
LEMMA FreshIInv ==
  ASSUME IInv, NEW f \in FrameIds, NEW b \in Blocks \ given,
         NEW n \in Nat, NEW k \in Nat, k <= n, NEW m,
         DOMAIN m = 0 .. n - 1, \A j \in 0 .. k - 1 : m[j] \in Slot,
         block' = [block EXCEPT ![f] = b], mem' = [mem EXCEPT ![b] = m],
         cnt' = [cnt EXCEPT ![f] = k], max' = [max EXCEPT ![f] = n],
         \/ /\ f \in Made /\ frames' = frames /\ encl' = encl
            /\ given' = (given \cup {b}) \ {block[f]}
         \/ /\ f = frames /\ frames' = frames + 1 /\ given' = given \cup {b}
            /\ \E base \in Made : encl' = [encl EXCEPT ![f] = base],
         failed' = FALSE, lost' = lost
  PROVE  IInv'
<1>1. frames \in 1 .. MaxFrames /\ MaxFrames \in Nat
  BY EnvironmentAssumption DEF IInv, TypeOK
<1>2. Made' = Made \cup {f} /\ Made \subseteq FrameIds /\ frames' \in 1 .. MaxFrames
  BY <1>1 DEF Made, FrameIds
<1>3. f \notin Made => f = frames
  OBVIOUS
<1>4. /\ block'[f] = b /\ \A g \in Made \ {f} : block'[g] = block[g] /\ block[g] # b
      /\ \A g \in Made \ {f} : cnt'[g] = cnt[g] /\ max'[g] = max[g]
      /\ cnt'[f] = k /\ max'[f] = n
  BY <1>2 DEF IInv, TypeOK, BlocksHeld
<1>5. mem'[b] = m /\ \A g \in Made \ {f} : mem'[block'[g]] = mem[block[g]]
  BY <1>4, MadeFrames DEF IInv, TypeOK
<1>6. TypeOK'
  <2>1. /\ cnt' \in [FrameIds -> Nat] /\ max' \in [FrameIds -> Nat]
        /\ block' \in [FrameIds -> Blocks \cup {NoBlock}]
        /\ DOMAIN mem' = Blocks /\ given' \subseteq Blocks
        /\ failed' \in BOOLEAN /\ lost' \in BOOLEAN
    BY DEF IInv, TypeOK
  <2>2. \A g \in Made' : block'[g] \in Blocks
    BY <1>2, <1>4, MadeFrames
  <2>3. encl' \in [FrameIds -> FrameIds \cup {NoFrame}] /\ \A g \in Made' : encl'[g] \in -1 .. g - 1
    <3>1. CASE encl' = encl /\ f \in Made
      BY <3>1, <1>2 DEF IInv, TypeOK
    <3>2. CASE f = frames /\ \E base \in Made : encl' = [encl EXCEPT ![f] = base]
      <4>1. PICK base \in Made : encl' = [encl EXCEPT ![f] = base]
        BY <3>2
      <4>2. encl' \in [FrameIds -> FrameIds \cup {NoFrame}]
        BY <4>1, <1>2 DEF IInv, TypeOK
      <4>3. encl'[f] = base /\ \A g \in Made : encl'[g] = encl[g]
        BY <4>1, <3>2, <1>1, <1>2 DEF IInv, TypeOK, Made
      <4>4. base \in -1 .. f - 1
        BY <3>2, <1>1 DEF Made
      <4>5. QED
        BY <4>2, <4>3, <4>4, <1>2 DEF IInv, TypeOK
    <3>3. QED
      BY <3>1, <3>2
  <2>4. QED
    BY <1>2, <2>1, <2>2, <2>3 DEF TypeOK
<1>7. SlotsFit'
  <2>1. SUFFICES ASSUME NEW g \in Made'
                 PROVE  /\ cnt'[g] <= max'[g]
                        /\ DOMAIN mem'[block'[g]] = 0 .. max'[g] - 1
                        /\ \A j \in 0 .. cnt'[g] - 1 : mem'[block'[g]][j] \in Slot
    BY DEF SlotsFit
  <2>2. CASE g = f
    BY <2>2, <1>4, <1>5
  <2>3. CASE g \in Made \ {f}
    <3>1. cnt'[g] = cnt[g] /\ max'[g] = max[g] /\ mem'[block'[g]] = mem[block[g]]
      BY <2>3, <1>4, <1>5
    <3>2. QED
      BY <2>3, <3>1, MadeFrames
  <2>4. QED
    BY <2>2, <2>3, <1>2
<1>8. BlocksHeld'
  <2>1. given' = {block'[g] : g \in Made'}
    <3>1. CASE f \in Made /\ given' = (given \cup {b}) \ {block[f]}
      BY <3>1, <1>2, <1>4 DEF IInv, BlocksHeld
    <3>2. CASE f = frames /\ given' = given \cup {b}
      <4>1. f \notin Made
        BY <3>2, <1>1 DEF Made
      <4>2. QED
        BY <3>2, <4>1, <1>2, <1>4 DEF IInv, BlocksHeld
    <3>3. QED
      BY <3>1, <3>2
  <2>2. \A g, h \in Made' : block'[g] = block'[h] => g = h
    BY <1>2, <1>4 DEF IInv, BlocksHeld
  <2>3. QED
    BY <2>1, <2>2 DEF BlocksHeld
<1>9. QED
  BY <1>6, <1>7, <1>8 DEF IInv

-----------------------------------------------------------------------------
(* A procedure is entered. *)
LEMMA ExtendEnvIInv ==
  ASSUME IInv, NEW params \in ParamLists, NEW rest \in Vars \cup {NoVar},
         NEW args \in ArgLists, NEW base \in Made, ExtendEnv(params, rest, args, base)
  PROVE  IInv'
<1> DEFINE n == Len(params)
           count == IF rest = NoVar THEN n ELSE n + 1
           m == [i \in 0 .. RoundUp(count) - 1 |->
                   IF i < n THEN [var |-> params[i + 1], val |-> Argument(args, i)]
                   ELSE IF i < count THEN [var |-> rest, val |-> RestOf(args, n)]
                   ELSE Junk]
<1>1. /\ params \in Seq(Vars) /\ n \in Nat /\ count \in Nat
      /\ \A i \in 0 .. n - 1 : params[i + 1] \in Vars
  BY EnvironmentAssumption
<1>2. RoundUp(count) \in Nat /\ count <= RoundUp(count)
  BY <1>1, RoundUpFits
<1>3. PICK b \in Blocks \ given :
        given' = given \cup {b} /\ block' = [block EXCEPT ![frames] = b]
        /\ mem' = [mem EXCEPT ![b] = m]
  BY DEF ExtendEnv
<1>4. \A i \in 0 .. count - 1 : m[i] \in Slot
  <2>1. SUFFICES ASSUME NEW i \in 0 .. count - 1 PROVE m[i] \in Slot
    OBVIOUS
  <2>2. i \in Nat /\ i \in 0 .. RoundUp(count) - 1
    BY <1>1, <1>2
  <2>3. CASE i < n
    <3>1. m[i] = [var |-> params[i + 1], val |-> Argument(args, i)]
      BY <2>2, <2>3
    <3>2. params[i + 1] \in Vars /\ Argument(args, i) \in Values
      BY <1>1, <2>2, <2>3, ArgumentsAreValues
    <3>3. QED
      BY <3>1, <3>2 DEF Slot
  <2>4. CASE ~ (i < n)
    <3>1. rest \in Vars /\ m[i] = [var |-> rest, val |-> RestOf(args, n)]
      BY <1>1, <2>2, <2>4
    <3>2. RestOf(args, n) \in Values
      BY <1>1, ArgumentsAreValues
    <3>3. QED
      BY <3>1, <3>2 DEF Slot
  <2>5. QED
    BY <2>3, <2>4
<1>5. frames \in FrameIds /\ DOMAIN m = 0 .. RoundUp(count) - 1
  BY EnvironmentAssumption DEF IInv, TypeOK, ExtendEnv, FrameIds
<1>6. /\ cnt' = [cnt EXCEPT ![frames] = count] /\ max' = [max EXCEPT ![frames] = RoundUp(count)]
      /\ frames' = frames + 1 /\ encl' = [encl EXCEPT ![frames] = base]
      /\ failed' = FALSE /\ lost' = lost
  BY DEF ExtendEnv, EnclosedBy
<1> HIDE DEF m, count
<1>7. QED
  BY <1>1, <1>2, <1>3, <1>4, <1>5, <1>6, FreshIInv

(* The old block of a frame that grows makes way for a larger one. *)
LEMMA DefineGrowingIInv ==
  ASSUME IInv, NEW f \in Made, NEW x \in Vars, NEW v \in Vals, DefineGrowing(f, x, v)
  PROVE  IInv'
<1> DEFINE s == [var |-> x, val |-> v]
           m == Moved(f, s)
<1>1. cnt[f] \in Nat /\ max[f] \in Nat /\ cnt[f] = max[f] /\ Slots \in Nat \ {0}
  BY MadeFrames, EnvironmentAssumption DEF DefineGrowing
<1>2. PICK b \in Blocks \ given :
        given' = (given \cup {b}) \ {block[f]} /\ block' = [block EXCEPT ![f] = b]
        /\ mem' = [mem EXCEPT ![b] = m]
  BY DEF DefineGrowing
<1>3. DOMAIN m = 0 .. (max[f] + Slots) - 1
  BY <1>1 DEF Moved
<1>4. \A j \in 0 .. cnt[f] : m[j] \in Slot
  <2>1. s \in Slot
    BY DEF Slot, Values
  <2>2. \A j \in 0 .. cnt[f] : m[j] = IF j < cnt[f] THEN mem[block[f]][j] ELSE s
    BY <1>1 DEF Moved
  <2>3. \A j \in 0 .. cnt[f] - 1 : mem[block[f]][j] \in Slot
    BY MadeFrames
  <2> HIDE DEF m, s
  <2>4. \A j \in 0 .. cnt[f] : j < cnt[f] => j \in 0 .. cnt[f] - 1
    BY <1>1
  <2>5. QED
    BY <2>1, <2>2, <2>3, <2>4
<1>5. /\ cnt' = [cnt EXCEPT ![f] = cnt[f] + 1] /\ max' = [max EXCEPT ![f] = max[f] + Slots]
      /\ frames' = frames /\ encl' = encl /\ failed' = FALSE /\ lost' = lost
  BY DEF DefineGrowing
<1>6. /\ f \in FrameIds /\ max[f] + Slots \in Nat /\ cnt[f] + 1 \in Nat
      /\ cnt[f] + 1 <= max[f] + Slots /\ \A j \in 0 .. (cnt[f] + 1) - 1 : m[j] \in Slot
  BY <1>1, <1>4, MadeFrames
<1> HIDE DEF m
<1>7. QED
  BY <1>2, <1>3, <1>5, <1>6, FreshIInv

(* The stores of define and set! into a binding that is there. *)
LEMMA OverwriteIInv ==
  ASSUME IInv, NEW f \in Made, NEW x \in Vars, NEW v \in Vals, Binds(f, x),
         mem' = [mem EXCEPT ![block[f]][FirstSlot(f, x)].val = v],
         failed' = FALSE, UNCHANGED <<frames, encl, cnt, max, block, given, lost>>
  PROVE  IInv'
<1> DEFINE k == FirstSlot(f, x)
           s == [mem[block[f]][k] EXCEPT !.val = v]
<1>1. s \in Slot /\ k \in 0 .. max[f] - 1
  BY SlotFound DEF Slot, Values
<1>2. mem' = [mem EXCEPT ![block[f]] = [mem[block[f]] EXCEPT ![k] = s]]
  OBVIOUS
<1> HIDE DEF k, s
<1>3. QED
  BY <1>1, <1>2, StoreIInv

LEMMA DefineInPlaceIInv ==
  ASSUME IInv, NEW f \in Made, NEW x \in Vars, NEW v \in Vals, DefineInPlace(f, x, v)
  PROVE  IInv'
<1> DEFINE s == [var |-> x, val |-> v]
<1>1. s \in Slot /\ cnt[f] \in 0 .. max[f] - 1
  BY MadeFrames DEF DefineInPlace, Slot, Values
<1>2. mem' = [mem EXCEPT ![block[f]] = [mem[block[f]] EXCEPT ![cnt[f]] = s]]
  BY DEF DefineInPlace
<1>3. /\ cnt' = [cnt EXCEPT ![f] = @ + 1] /\ failed' = FALSE
      /\ UNCHANGED <<frames, encl, max, block, given, lost>>
  BY DEF DefineInPlace
<1> HIDE DEF s
<1>4. QED
  BY <1>1, <1>2, <1>3, StoreIInv

(* Every step keeps the invariant. *)
LEMMA Inductive == IInv /\ [Next]_vars => IInv'
<1> SUFFICES ASSUME IInv, [Next]_vars PROVE IInv'
  OBVIOUS
<1>1. ASSUME NEW params \in ParamLists, NEW rest \in Vars \cup {NoVar},
             NEW args \in ArgLists, NEW base \in Made, ExtendEnv(params, rest, args, base)
      PROVE  IInv'
  BY <1>1, ExtendEnvIInv
<1>2. CASE ExtendEnvFailed
  BY <1>2 DEF ExtendEnvFailed, IInv, TypeOK, SlotsFit, BlocksHeld, Made
<1>3. ASSUME NEW f \in Made, NEW x \in Vars, NEW v \in Vals, Redefine(f, x, v) \/ SetBound(f, x, v)
      PROVE  IInv'
  BY <1>3, OverwriteIInv DEF Redefine, SetBound
<1>4. ASSUME NEW f \in Made, NEW x \in Vars, NEW v \in Vals, DefineInPlace(f, x, v)
      PROVE  IInv'
  BY <1>4, DefineInPlaceIInv
<1>5. ASSUME NEW f \in Made, NEW x \in Vars, NEW v \in Vals, DefineGrowing(f, x, v)
      PROVE  IInv'
  BY <1>5, DefineGrowingIInv
<1>6. ASSUME NEW f \in Made, NEW x \in Vars, DefineFailed(f, x) \/ SetUnbound(f, x)
      PROVE  IInv'
  <2>1. UNCHANGED <<frames, encl, cnt, max, block, mem, given>>
    BY <1>6 DEF DefineFailed, SetUnbound
  <2>2. failed' \in BOOLEAN /\ lost' \in BOOLEAN
    BY <1>6 DEF DefineFailed, SetUnbound, IInv, TypeOK
  <2>3. QED
    BY <2>1, <2>2 DEF IInv, TypeOK, SlotsFit, BlocksHeld, Made
<1>7. CASE UNCHANGED vars
  BY <1>7 DEF vars, IInv, TypeOK, SlotsFit, BlocksHeld, Made
<1>8. ASSUME NEW f \in Made, NEW x \in Vars,
             (\E v \in Vals : DefineVar(f, x, v)) \/ SetVar(f, x)
      PROVE  IInv'
  BY <1>8, <1>3, <1>4, <1>5, <1>6 DEF DefineVar, SetVar
<1>9. CASE Next
  <2>1. CASE \E params \in ParamLists, rest \in Vars \cup {NoVar}, args \in ArgLists, base \in Made :
               ExtendEnv(params, rest, args, base)
    BY <2>1, <1>1
  <2>2. CASE \E f \in Made, x \in Vars :
               \/ \E v \in Vals : DefineVar(f, x, v)
               \/ DefineFailed(f, x)
               \/ SetVar(f, x)
    BY <2>2, <1>6, <1>8
  <2>3. QED
    BY <1>9, <2>1, <2>2, <1>2 DEF Next
<1>10. QED
  BY <1>7, <1>9

LEMMA AlwaysIInv == Spec => []IInv
  BY InitIInv, Inductive, PTL DEF Spec

(***************************************************************************)
(* The state keeps its types, and a frame is enclosed by an older one, so  *)
(* that the walk of scheme_lookup_var (env.c:289) ends at the global frame. *)
(***************************************************************************)
THEOREM TypeCorrect == Spec => []TypeOK
  BY AlwaysIInv, PTL DEF IInv

(***************************************************************************)
(* Whatever is defined and however often a frame grows, bind_cnt never     *)
(* passes max_bind and the walks of env.c (290, 357, 389) read slots that  *)
(* were written.                                                           *)
(***************************************************************************)
THEOREM SlotsStayFit == Spec => []SlotsFit
  BY AlwaysIInv, PTL DEF IInv

(***************************************************************************)
(* No frame uses a block that the growth in scheme_define_var freed        *)
(* (env.c:369), even when the allocator gives it again at once.            *)
(***************************************************************************)
THEOREM BlocksStayHeld == Spec => []BlocksHeld
  BY AlwaysIInv, PTL DEF IInv

-----------------------------------------------------------------------------
(* What frame f binds is made of its first cnt[f] slots. *)
LEMMA SlotsOfCounted ==
  IInv => \A f \in Made, x \in Vars :
            SlotsOf(f, x) = {i \in 0 .. cnt[f] - 1 : mem[block[f]][i].var = x}
  BY MadeFrames, EnvironmentAssumption DEF SlotsOf

LEMMA SlotsOfCountedNext ==
  (IInv => \A f \in Made, x \in Vars :
            SlotsOf(f, x) = {i \in 0 .. cnt[f] - 1 : mem[block[f]][i].var = x})'
  BY SlotsOfCounted, PTL

LEMMA LocalIsValue ==
  IInv => \A f \in FrameIds, x \in Vars :
            /\ Local(f, x) \in Values \cup {Void}
            /\ f \in Made /\ Binds(f, x) => Local(f, x) \in Values
  BY SlotFound DEF Local, Value, Slot

LEMMA LocalIsValueNext ==
  (IInv => \A f \in FrameIds, x \in Vars :
            /\ Local(f, x) \in Values \cup {Void}
            /\ f \in Made /\ Binds(f, x) => Local(f, x) \in Values)'
  BY LocalIsValue, PTL

(* Frame g was left alone. *)
LEMMA LocalKept ==
  ASSUME IInv, NEW g \in Made, NEW x, g \in Made',
         cnt'[g] = cnt[g], block'[g] = block[g], mem'[block[g]] = mem[block[g]]
  PROVE  Local(g, x)' = Local(g, x)
  BY DEF Local, Binds, Value, FirstSlot, SlotsOf

(* Slot k of frame f, one that binds x or the next one, now binds x, and   *)
(* the others of the frame are as they were, wherever its block is.        *)
LEMMA StoreBinds ==
  ASSUME IInv, IInv', NEW f \in Made, NEW x \in Vars,
         NEW k \in 0 .. cnt[f], k < cnt[f] => mem[block[f]][k].var = x,
         cnt'[f] = (IF k = cnt[f] THEN cnt[f] + 1 ELSE cnt[f]),
         mem'[block'[f]][k].var = x,
         \A i \in 0 .. cnt[f] - 1 : i # k => mem'[block'[f]][i] = mem[block[f]][i],
         \A g \in Made \ {f} : /\ cnt'[g] = cnt[g] /\ block'[g] = block[g]
                               /\ mem'[block[g]] = mem[block[g]],
         frames' = frames, encl' = encl
  PROVE  Scoping!Next
<1>1. Made' = Made /\ f \in FrameIds /\ cnt[f] \in Nat
  BY MadeFrames DEF Made
<1>2. \A y \in Vars :
        /\ SlotsOf(f, y) = {i \in 0 .. cnt[f] - 1 : mem[block[f]][i].var = y}
        /\ SlotsOf(f, y)' = {i \in 0 .. cnt'[f] - 1 : mem'[block'[f]][i].var = y}
  <2>1. \A y \in Vars : SlotsOf(f, y) = {i \in 0 .. cnt[f] - 1 : mem[block[f]][i].var = y}
    BY SlotsOfCounted
  <2>2. QED
    BY <2>1, <1>1, SlotsOfCountedNext
<1>3. Local(f, x)' \in Values
  <2>1. k \in SlotsOf(f, x)'
    BY <1>1, <1>2
  <2>2. Binds(f, x)'
    BY <2>1 DEF Binds
  <2>3. QED
    BY <1>1, <2>2, LocalIsValueNext
<1>4. ASSUME NEW y \in Vars, y # x PROVE Local(f, y)' = Local(f, y)
  <2>1. k \notin SlotsOf(f, y) /\ k \notin SlotsOf(f, y)'
    BY <1>1, <1>2, <1>4
  <2>2. \A i \in 0 .. cnt[f] - 1 : i \in SlotsOf(f, y)' <=> i \in SlotsOf(f, y)
    BY <1>1, <1>2, <2>1
  <2>3. SlotsOf(f, y)' = SlotsOf(f, y)
    <3>1. SlotsOf(f, y) \subseteq 0 .. cnt[f] - 1 /\ SlotsOf(f, y)' \subseteq 0 .. cnt'[f] - 1
      BY <1>2
    <3>2. SlotsOf(f, y)' \subseteq 0 .. cnt[f] - 1
      BY <3>1, <2>1, <1>1
    <3>3. QED
      BY <3>1, <3>2, <2>2
  <2>4. Binds(f, y)' <=> Binds(f, y)
    BY <2>3 DEF Binds
  <2>5. CASE Binds(f, y)
    <3>1. FirstSlot(f, y)' = FirstSlot(f, y)
      BY <2>3 DEF FirstSlot
    <3>2. FirstSlot(f, y) \in SlotsOf(f, y)
      BY <2>5, <1>2, FirstIsLeast DEF Binds, FirstSlot
    <3>3. Value(f, y)' = Value(f, y)
      BY <3>1, <3>2, <2>1, <1>1, <1>2 DEF Value
    <3>4. QED
      BY <2>4, <2>5, <3>3, <1>1 DEF Local
  <2>6. QED
    BY <2>4, <2>5, <1>1 DEF Local
<1>5. \A g \in Made \ {f}, y \in Vars : Local(g, y)' = Local(g, y)
  BY <1>1, LocalKept
<1>6. \A g \in FrameIds \ Made, y \in Vars : Local(g, y)' = Local(g, y)
  BY <1>1 DEF Local
<1>7. Scoping!Bind(f, x)
  <2> DEFINE B == [g \in FrameIds |-> [y \in Vars |-> Local(g, y)]]
  <2>1. \A g \in FrameIds, y \in Vars : g # f \/ y # x => B'[g][y] = B[g][y]
    BY <1>4, <1>5, <1>6
  <2>2. B'[f][x] \in Values
    BY <1>1, <1>3
  <2>3. B' = [B EXCEPT ![f][x] = B'[f][x]]
    <3>1. B' = [g \in FrameIds |-> [y \in Vars |-> Local(g, y)']]
      OBVIOUS
    <3>2. [B EXCEPT ![f][x] = B'[f][x]]
            = [g \in FrameIds |-> [y \in Vars |-> IF g = f /\ y = x THEN B'[f][x] ELSE B[g][y]]]
      OBVIOUS
    <3>3. QED
      BY <3>1, <3>2, <2>1, <1>1
  <2>4. Made' = Made /\ [g \in FrameIds |-> IF encl[g] = NoFrame THEN Global ELSE encl[g]]'
                      = [g \in FrameIds |-> IF encl[g] = NoFrame THEN Global ELSE encl[g]]
    BY <1>1
  <2>5. QED
    BY <2>2, <2>3, <2>4 DEF Scoping!Bind
<1>8. QED
  BY <1>1, <1>7 DEF Scoping!Next

(* define and set! of a variable frame f binds. *)
LEMMA OverwriteBinds ==
  ASSUME IInv, IInv', NEW f \in Made, NEW x \in Vars, NEW v \in Vals, Binds(f, x),
         mem' = [mem EXCEPT ![block[f]][FirstSlot(f, x)].val = v],
         UNCHANGED <<frames, encl, cnt, max, block, given, lost>>
  PROVE  Scoping!Next
<1> DEFINE k == FirstSlot(f, x)
<1>1. k \in 0 .. cnt[f] - 1 /\ k \in DOMAIN mem[block[f]] /\ mem[block[f]][k] \in Slot
      /\ mem[block[f]][k].var = x
  BY SlotFound, MadeFrames
<1>2. mem'[block[f]] = [mem[block[f]] EXCEPT ![k] = [mem[block[f]][k] EXCEPT !.val = v]]
  BY MadeFrames DEF IInv, TypeOK
<1>3. \A g \in Made \ {f} : mem'[block[g]] = mem[block[g]]
  BY MadeFrames DEF IInv, TypeOK, BlocksHeld
<1> HIDE DEF k
<1>4. mem'[block[f]][k].var = x /\ \A i \in 0 .. cnt[f] - 1 : i # k => mem'[block[f]][i] = mem[block[f]][i]
  <2> DEFINE b == mem[block[f]]
  <2>1. DOMAIN b = 0 .. max[f] - 1 /\ cnt[f] \in Nat /\ max[f] \in Nat /\ cnt[f] <= max[f]
    BY MadeFrames
  <2>2. k \in DOMAIN b /\ b[k] \in Slot /\ b[k].var = x
        /\ mem'[block[f]] = [b EXCEPT ![k] = [b[k] EXCEPT !.val = v]]
    BY <1>1, <1>2
  <2> HIDE DEF b
  <2>3. mem'[block[f]][k] = [b[k] EXCEPT !.val = v]
        /\ \A i \in DOMAIN b : i # k => mem'[block[f]][i] = b[i]
    BY <2>2
  <2>4. mem'[block[f]][k].var = x
    BY <2>2, <2>3 DEF Slot
  <2>5. \A i \in 0 .. cnt[f] - 1 : i \in DOMAIN b
    BY <2>1
  <2>6. QED
    BY <2>3, <2>4, <2>5 DEF b
<1>5. k \in 0 .. cnt[f] /\ k # cnt[f] /\ cnt[f] \in Nat
  BY <1>1, MadeFrames
<1>6. QED
  BY SMTT(20), <1>1, <1>3, <1>4, <1>5, StoreBinds

LEMMA DefineInPlaceBinds ==
  ASSUME IInv, IInv', NEW f \in Made, NEW x \in Vars, NEW v \in Vals, DefineInPlace(f, x, v)
  PROVE  Scoping!Next
<1>1. /\ mem' = [mem EXCEPT ![block[f]] = [mem[block[f]] EXCEPT ![cnt[f]] = [var |-> x, val |-> v]]]
      /\ cnt' = [cnt EXCEPT ![f] = cnt[f] + 1] /\ cnt[f] # max[f]
      /\ UNCHANGED <<frames, encl, max, block, given, lost>>
  BY DEF DefineInPlace
<1>2. mem'[block[f]] = [mem[block[f]] EXCEPT ![cnt[f]] = [var |-> x, val |-> v]]
  BY <1>1, MadeFrames DEF IInv, TypeOK
<1>3. \A g \in Made \ {f} : mem'[block[g]] = mem[block[g]] /\ cnt'[g] = cnt[g]
  BY <1>1, MadeFrames DEF IInv, TypeOK, BlocksHeld
<1>4. cnt[f] \in 0 .. max[f] - 1 /\ cnt[f] \in 0 .. cnt[f] /\ cnt'[f] = cnt[f] + 1
  BY <1>1, MadeFrames DEF IInv, TypeOK
<1>5. mem'[block[f]][cnt[f]].var = x
      /\ \A i \in 0 .. cnt[f] - 1 : i # cnt[f] => mem'[block[f]][i] = mem[block[f]][i]
  BY <1>2, <1>4, MadeFrames
<1>6. QED
  BY SMTT(20), <1>1, <1>3, <1>4, <1>5, StoreBinds

LEMMA DefineGrowingBinds ==
  ASSUME IInv, IInv', NEW f \in Made, NEW x \in Vars, NEW v \in Vals, DefineGrowing(f, x, v)
  PROVE  Scoping!Next
<1> DEFINE s == [var |-> x, val |-> v]
<1>1. PICK b \in Blocks \ given :
        block' = [block EXCEPT ![f] = b] /\ mem' = [mem EXCEPT ![b] = Moved(f, s)]
  BY DEF DefineGrowing
<1>2. cnt' = [cnt EXCEPT ![f] = cnt[f] + 1] /\ frames' = frames /\ encl' = encl /\ cnt[f] = max[f]
  BY DEF DefineGrowing
<1>3. block'[f] = b /\ mem'[b] = Moved(f, s)
  BY <1>1, MadeFrames DEF IInv, TypeOK
<1>4. \A g \in Made \ {f} : /\ mem'[block[g]] = mem[block[g]]
                            /\ cnt'[g] = cnt[g] /\ block'[g] = block[g]
  BY <1>1, <1>2, MadeFrames DEF IInv, TypeOK, BlocksHeld
<1>5. cnt[f] \in 0 .. cnt[f] /\ cnt'[f] = cnt[f] + 1 /\ cnt[f] \in 0 .. max[f] + Slots - 1
  BY <1>2, MadeFrames, EnvironmentAssumption DEF IInv, TypeOK
<1>6. mem'[b][cnt[f]].var = x /\ \A i \in 0 .. cnt[f] - 1 : mem'[b][i] = mem[block[f]][i]
  BY <1>2, <1>3, <1>5, MadeFrames, EnvironmentAssumption DEF Moved
<1>7. QED
  BY <1>2, <1>3, <1>4, <1>5, <1>6, StoreBinds

(* The scope that is entered is new, and its block is no other's. *)
LEMMA ExtendEnvEnters ==
  ASSUME IInv, IInv', NEW params, NEW rest, NEW args, NEW base \in Made,
         ExtendEnv(params, rest, args, base)
  PROVE  Scoping!Next
<1> DEFINE f == frames
           B == [g \in FrameIds |-> [y \in Vars |-> Local(g, y)]]
           O == [g \in FrameIds |-> IF encl[g] = NoFrame THEN Global ELSE encl[g]]
<1>1. /\ f \in FrameIds \ Made /\ Made' = Made \cup {f} /\ Made \subseteq FrameIds
      /\ base \in Nat
  <2>1. frames \in 1 .. MaxFrames /\ MaxFrames \in Nat /\ f < MaxFrames /\ frames' = f + 1
    BY EnvironmentAssumption DEF ExtendEnv, IInv, TypeOK
  <2>2. QED
    BY <2>1 DEF Made, FrameIds
<1>2. PICK b \in Blocks \ given :
        /\ block' = [block EXCEPT ![f] = b] /\ \E m : mem' = [mem EXCEPT ![b] = m]
        /\ \E k : cnt' = [cnt EXCEPT ![f] = k]
  BY DEF ExtendEnv
<1>3. \A g \in Made : /\ mem'[block[g]] = mem[block[g]]
                      /\ cnt'[g] = cnt[g] /\ block'[g] = block[g]
  <2>1. \A g \in Made : g # f /\ block[g] \in Blocks /\ block[g] # b
    BY <1>1, MadeFrames DEF IInv, BlocksHeld
  <2>2. QED
    BY <1>1, <1>2, <2>1 DEF IInv, TypeOK
<1>4. \A g \in Made, y \in Vars : Local(g, y)' = Local(g, y)
  BY <1>1, <1>3, LocalKept
<1>5. \A g \in FrameIds \ Made', y \in Vars : Local(g, y)' = Local(g, y)
  BY <1>1 DEF Local
<1>6. B'[f] \in [Vars -> Values \cup {Void}]
  BY <1>1, LocalIsValueNext
<1>7. B' = [B EXCEPT ![f] = B'[f]]
  <2>1. \A g \in FrameIds : g # f => B'[g] = B[g]
    BY <1>1, <1>4, <1>5
  <2>2. B' = [g \in FrameIds |-> B'[g]] /\ B = [g \in FrameIds |-> B[g]]
    OBVIOUS
  <2> HIDE DEF B
  <2>3. QED
    BY <2>1, <2>2
<1>8. O' = [O EXCEPT ![f] = base]
  <2>1. encl' = [encl EXCEPT ![f] = base]
    BY DEF ExtendEnv, EnclosedBy
  <2>2. encl'[f] = base /\ base # NoFrame
    BY <1>1, <2>1 DEF IInv, TypeOK, NoFrame
  <2>3. QED
    BY <1>1, <2>1, <2>2 DEF IInv, TypeOK
<1>9. Scoping!Enter(f, base)
  BY <1>1, <1>6, <1>7, <1>8 DEF Scoping!Enter
<1>10. QED
  BY <1>1, <1>9 DEF Scoping!Next

LEMMA InitScopes == Init => Scoping!Init
<1> SUFFICES ASSUME Init PROVE Scoping!Init
  OBVIOUS
<1>1. Made = {Global} /\ Global \in FrameIds
  BY EnvironmentAssumption DEF Init, Made, FrameIds, Global
<1>2. \A x : ~ Binds(Global, x)
  <2>1. IInv /\ cnt[Global] = 0
    BY <1>1, InitIInv DEF Init
  <2>2. QED
    BY <2>1, <1>1, MadeFrames DEF Binds, SlotsOf
<1>3. [f \in FrameIds |-> [x \in Vars |-> Local(f, x)]] = [f \in FrameIds |-> [x \in Vars |-> Void]]
  BY <1>1, <1>2 DEF Local
<1>4. [f \in FrameIds |-> IF encl[f] = NoFrame THEN Global ELSE encl[f]] = [f \in FrameIds |-> Global]
  BY DEF Init
<1>5. QED
  BY <1>1, <1>3, <1>4 DEF Scoping!Init

(* What no binding is made by leaves the scopes as they are. *)
LEMMA ScopesKept ==
  ASSUME UNCHANGED <<frames, encl, cnt, block, mem>>
  PROVE  UNCHANGED Scoping!svars
  BY DEF Scoping!svars, Local, Binds, Value, FirstSlot, SlotsOf, Made

(***************************************************************************)
(* Environment implements Scopes: for all parameter and argument lists,    *)
(* scheme_extend_env makes one fresh scope within the one the procedure    *)
(* was made in, and define and set! change one variable of one scope,      *)
(* whatever block a frame moves to.                                        *)
(***************************************************************************)
THEOREM EnvironmentImplementsScopes == Spec => ImplementsScopes
<1>1. IInv /\ IInv' /\ [Next]_vars => [Scoping!Next]_(Scoping!svars)
  <2> SUFFICES ASSUME IInv, IInv', [Next]_vars PROVE [Scoping!Next]_(Scoping!svars)
    OBVIOUS
  <2>1. ASSUME NEW params \in ParamLists, NEW rest \in Vars \cup {NoVar},
               NEW args \in ArgLists, NEW base \in Made, ExtendEnv(params, rest, args, base)
        PROVE  Scoping!Next
    BY <2>1, ExtendEnvEnters
  <2>2. ASSUME NEW f \in Made, NEW x \in Vars, NEW v \in Vals,
               DefineVar(f, x, v) \/ SetBound(f, x, v)
        PROVE  Scoping!Next
    BY <2>2, OverwriteBinds, DefineInPlaceBinds, DefineGrowingBinds
       DEF DefineVar, Redefine, SetBound
  <2>3. ASSUME ExtendEnvFailed \/ UNCHANGED vars
               \/ \E f \in Made, x \in Vars : DefineFailed(f, x) \/ SetUnbound(f, x)
        PROVE  UNCHANGED Scoping!svars
    <3>1. UNCHANGED <<frames, encl, cnt, block, mem>>
      BY <2>3 DEF ExtendEnvFailed, DefineFailed, SetUnbound, vars
    <3>2. QED
      BY <3>1, ScopesKept
  <2>4. CASE \E f \in Made, x \in Vars :
               (\E v \in Vals : DefineVar(f, x, v)) \/ DefineFailed(f, x) \/ SetVar(f, x)
    BY <2>2, <2>3, <2>4 DEF SetVar
  <2>5. CASE \E params \in ParamLists, rest \in Vars \cup {NoVar}, args \in ArgLists, base \in Made :
               ExtendEnv(params, rest, args, base)
    BY <2>1, <2>5
  <2>6. QED
    BY <2>3, <2>4, <2>5 DEF Next
<1>2. QED
  BY <1>1, AlwaysIInv, InitScopes, PTL DEF Spec, Scoping!Spec, ImplementsScopes

-----------------------------------------------------------------------------
(* scheme_lookup_var, from frame g on, where h is what it finds further out. *)
Step(x, h, g) ==
  IF Binds(g, x) THEN Value(g, x) ELSE IF encl[g] = NoFrame THEN Void ELSE h[encl[g]]

(* A function that follows the walk in the frames before frame n. *)
Follows(x, h, n) == h = [g \in 0 .. n - 1 |-> Step(x, h, g)]

(* What is found from the frames before frame n decides what is found from *)
(* frame n, as that is enclosed by one of them or by none.                 *)
LEMMA FollowsOn ==
  ASSUME IInv, NEW x, NEW n \in Made, NEW h, Follows(x, h, n)
  PROVE  \E k : Follows(x, k, n + 1)
<1> DEFINE k == [g \in 0 .. n |-> Step(x, h, g)]
<1>1. n \in Nat /\ \A g \in 0 .. n : g \in Made /\ encl[g] \in -1 .. g - 1
  BY EnvironmentAssumption DEF IInv, TypeOK, Made
<1>2. \A g \in 0 .. n - 1 : k[g] = h[g]
  BY <1>1 DEF Follows
<1>3. \A g \in 0 .. n : Step(x, k, g) = Step(x, h, g)
  <2> SUFFICES ASSUME NEW g \in 0 .. n PROVE Step(x, k, g) = Step(x, h, g)
    OBVIOUS
  <2>1. encl[g] = NoFrame \/ encl[g] \in 0 .. n - 1
    BY <1>1 DEF NoFrame
  <2>2. encl[g] = NoFrame \/ k[encl[g]] = h[encl[g]]
    BY <2>1, <1>2
  <2> HIDE DEF k
  <2>3. QED
    BY <2>2 DEF Step
<1>4. k = [g \in 0 .. n |-> Step(x, k, g)]
  <2>1. \A g \in 0 .. n : k[g] = Step(x, k, g)
    BY <1>3
  <2>2. k = [g \in 0 .. n |-> k[g]]
    OBVIOUS
  <2> HIDE DEF k
  <2>3. QED
    BY <2>1, <2>2
<1> HIDE DEF k
<1>5. 0 .. (n + 1) - 1 = 0 .. n
  BY <1>1
<1>6. QED
  BY <1>4, <1>5 DEF Follows

LEMMA SomeFollows ==
  ASSUME IInv, NEW x
  PROVE  \A n \in 0 .. frames : \E h : Follows(x, h, n)
<1> DEFINE none == {n \in 0 .. frames : ~ \E h : Follows(x, h, n)}
<1>1. frames \in Nat /\ none \subseteq Nat
  BY EnvironmentAssumption DEF IInv, TypeOK
<1>2. Follows(x, [g \in 0 .. 0 - 1 |-> Void], 0)
  BY DEF Follows
<1>3. SUFFICES ASSUME none # {} PROVE FALSE
  OBVIOUS
<1>4. PICK n \in none : \A j \in none : n <= j
  BY <1>1, <1>3, LeastOne
<1>5. n \in 1 .. frames
  BY <1>1, <1>2, <1>4
<1>6. n - 1 \in Made /\ n - 1 \in 0 .. frames /\ n - 1 \notin none
  BY <1>1, <1>4, <1>5 DEF Made
<1>7. PICK h : Follows(x, h, n - 1)
  BY <1>6
<1>8. \E k : Follows(x, k, (n - 1) + 1)
  BY <1>6, <1>7, FollowsOn
<1>9. (n - 1) + 1 = n
  BY <1>5, <1>1
<1>10. QED
  BY <1>4, <1>8, <1>9

(* scheme_lookup_var does what its text says. *)
LEMMA LookupSteps ==
  ASSUME IInv, NEW x, NEW f \in Made
  PROVE  Lookup(x, f) = IF Binds(f, x) THEN Value(f, x)
                        ELSE IF encl[f] = NoFrame THEN Void ELSE Lookup(x, encl[f])
<1> DEFINE look == CHOOSE h : h = [g \in Made |-> IF Binds(g, x) THEN Value(g, x)
                                     ELSE IF encl[g] = NoFrame THEN Void ELSE h[encl[g]]]
<1>1. \A g : Lookup(x, g) = look[g]
  BY DEF Lookup
<1>2. \E h : h = [g \in Made |-> Step(x, h, g)]
  <2>1. frames \in 0 .. frames
    BY EnvironmentAssumption DEF IInv, TypeOK
  <2>2. PICK h : Follows(x, h, frames)
    BY <2>1, SomeFollows
  <2>3. QED
    BY <2>2 DEF Follows, Made
<1>3. look = [g \in Made |-> Step(x, look, g)]
  BY <1>2 DEF Step
<1> HIDE DEF look
<1>4. look[f] = Step(x, look, f)
  BY <1>3
<1>5. QED
  BY <1>1, <1>4 DEF Step

LEMMA FoundWhereBound ==
  IInv => \A f \in Made, x \in Vars : Binds(f, x) => Lookup(x, f) = Value(f, x)
  BY LookupSteps

LEMMA FoundWhereBoundNext ==
  (IInv => \A f \in Made, x \in Vars : Binds(f, x) => Lookup(x, f) = Value(f, x))'
  BY FoundWhereBound, PTL

(* A variable that is new to frame f gets the slot after the counted ones. *)
LEMMA NewSlotFound ==
  ASSUME IInv, IInv', NEW f \in Made, NEW x \in Vars, NEW v, ~ Binds(f, x),
         frames' = frames, cnt'[f] = cnt[f] + 1,
         mem'[block'[f]][cnt[f]] = [var |-> x, val |-> v],
         \A i \in 0 .. cnt[f] - 1 : mem'[block'[f]][i] = mem[block[f]][i]
  PROVE  Lookup(x, f)' = v
<1> DEFINE k == cnt[f]
<1>1. f \in Made' /\ k \in Nat
  BY MadeFrames DEF Made
<1>2. \A i \in 0 .. k - 1 : mem[block[f]][i].var # x
  BY SlotsOfCounted DEF Binds
<1>3. SlotsOf(f, x)' = {i \in 0 .. k : mem'[block'[f]][i].var = x}
  <2>1. 0 .. cnt'[f] - 1 = 0 .. k
    BY <1>1
  <2>2. QED
    BY <1>1, <2>1, SlotsOfCountedNext
<1>4. SlotsOf(f, x)' = {k}
  BY <1>1, <1>2, <1>3
<1>5. FirstSlot(f, x)' = k
  BY <1>1, <1>4, FirstOfOne DEF FirstSlot
<1>6. Binds(f, x)' /\ Value(f, x)' = v
  BY <1>4, <1>5 DEF Binds, Value
<1>7. QED
  BY <1>1, <1>6, FoundWhereBoundNext

(* A variable that frame f binds keeps its slot. *)
LEMMA RedefineFound ==
  ASSUME IInv, IInv', NEW f \in Made, NEW x \in Vars, NEW v \in Vals, Redefine(f, x, v)
  PROVE  Lookup(x, f)' = v
<1> DEFINE k == FirstSlot(f, x)
<1>1. k \in 0 .. cnt[f] - 1 /\ k \in DOMAIN mem[block[f]] /\ mem[block[f]][k] \in Slot
  BY SlotFound, MadeFrames DEF Redefine
<1>2. mem'[block[f]] = [mem[block[f]] EXCEPT ![k] = [mem[block[f]][k] EXCEPT !.val = v]]
  BY MadeFrames DEF Redefine, IInv, TypeOK
<1>3. UNCHANGED <<frames, cnt, block>> /\ f \in Made' /\ Binds(f, x)
  BY DEF Redefine, Made
<1> HIDE DEF k
<1>4. \A i \in 0 .. cnt[f] - 1 : mem'[block[f]][i].var = mem[block[f]][i].var
  BY <1>1, <1>2, MadeFrames DEF Slot
<1>5. SlotsOf(f, x)' = SlotsOf(f, x)
  <2>1. /\ SlotsOf(f, x) = {i \in 0 .. cnt[f] - 1 : mem[block[f]][i].var = x}
        /\ SlotsOf(f, x)' = {i \in 0 .. cnt[f] - 1 : mem'[block[f]][i].var = x}
    BY <1>3, SlotsOfCounted, SlotsOfCountedNext
  <2>2. QED
    BY <2>1, <1>4
<1>6. FirstSlot(f, x)' = k
  BY <1>5 DEF FirstSlot, k
<1>7. Binds(f, x)' /\ Value(f, x)' = v
  BY <1>1, <1>2, <1>3, <1>5, <1>6 DEF Binds, Value, Slot
<1>8. QED
  BY <1>3, <1>7, FoundWhereBoundNext

LEMMA DefineInPlaceFound ==
  ASSUME IInv, IInv', NEW f \in Made, NEW x \in Vars, NEW v \in Vals, DefineInPlace(f, x, v)
  PROVE  Lookup(x, f)' = v
<1> DEFINE s == [var |-> x, val |-> v]
<1>1. /\ mem' = [mem EXCEPT ![block[f]] = [mem[block[f]] EXCEPT ![cnt[f]] = s]]
      /\ cnt' = [cnt EXCEPT ![f] = cnt[f] + 1] /\ cnt[f] # max[f] /\ ~ Binds(f, x)
      /\ frames' = frames /\ block' = block
  BY DEF DefineInPlace
<1>2. mem'[block[f]] = [mem[block[f]] EXCEPT ![cnt[f]] = s]
  BY <1>1, MadeFrames DEF IInv, TypeOK
<1>3. cnt[f] \in 0 .. max[f] - 1 /\ cnt'[f] = cnt[f] + 1
  BY <1>1, MadeFrames DEF IInv, TypeOK
<1>4. mem'[block[f]][cnt[f]] = s
      /\ \A i \in 0 .. cnt[f] - 1 : mem'[block[f]][i] = mem[block[f]][i]
  BY SMTT(20), <1>2, <1>3, MadeFrames
<1>5. QED
  BY <1>1, <1>3, <1>4, NewSlotFound

LEMMA DefineGrowingFound ==
  ASSUME IInv, IInv', NEW f \in Made, NEW x \in Vars, NEW v \in Vals, DefineGrowing(f, x, v)
  PROVE  Lookup(x, f)' = v
<1> DEFINE s == [var |-> x, val |-> v]
<1>1. PICK b \in Blocks \ given :
        block' = [block EXCEPT ![f] = b] /\ mem' = [mem EXCEPT ![b] = Moved(f, s)]
  BY DEF DefineGrowing
<1>2. cnt' = [cnt EXCEPT ![f] = cnt[f] + 1] /\ frames' = frames
      /\ cnt[f] = max[f] /\ ~ Binds(f, x)
  BY DEF DefineGrowing
<1>3. block'[f] = b /\ mem'[b] = Moved(f, s)
  BY <1>1, MadeFrames DEF IInv, TypeOK
<1>4. cnt[f] \in Nat /\ cnt'[f] = cnt[f] + 1 /\ cnt[f] \in 0 .. max[f] + Slots - 1
  BY <1>2, MadeFrames, EnvironmentAssumption DEF IInv, TypeOK
<1>5. mem'[b][cnt[f]] = s /\ \A i \in 0 .. cnt[f] - 1 : mem'[b][i] = mem[block[f]][i]
  BY <1>2, <1>3, <1>4, MadeFrames, EnvironmentAssumption DEF Moved
<1>6. QED
  BY <1>2, <1>3, <1>4, <1>5, NewSlotFound

(***************************************************************************)
(* scheme_define_var (env.c:351): whether the frame binds the variable, has*)
(* a slot left for it, or has to move to a larger block, what              *)
(* scheme_lookup_var (env.c:283) finds from that frame afterwards is the   *)
(* value of the definition. No older binding of the frame hides it, and    *)
(* none is left behind in the old block.                                   *)
(***************************************************************************)
THEOREM DefinedStaysFound == Spec => DefinedIsFound
<1>1. IInv /\ IInv' /\ [Next]_vars =>
        [\A f \in Made, x \in Vars, v \in Vals : DefineVar(f, x, v) => Lookup(x, f)' = v]_vars
  BY RedefineFound, DefineInPlaceFound, DefineGrowingFound DEF DefineVar
<1>2. QED
  BY <1>1, AlwaysIInv, PTL DEF Spec, DefinedIsFound

-----------------------------------------------------------------------------
(***************************************************************************)
(* The symbol table. Variables are compared by address, so that a name     *)
(* has to be the same symbol every time scheme_make_symbol is called.      *)
(***************************************************************************)
Refs(n) == {Ref(a) : a \in 1 .. n}

(* A memory whose table refers to cells of its heap. *)
IsMemory(m) ==
  /\ m = [heap |-> m.heap, frames |-> m.frames, table |-> m.table, halt |-> m.halt]
  /\ \E S : m.heap \in Seq(S)
  /\ m.table \in [0 .. Buckets - 1 -> Seq(Refs(Len(m.heap)))]

LEMMA HeapFacts ==
  ASSUME NEW m, IsMemory(m)
  PROVE  /\ Len(m.heap) \in Nat /\ DOMAIN m.heap = 1 .. Len(m.heap)
         /\ DOMAIN m.table = 0 .. Buckets - 1
         /\ \A b \in DOMAIN m.table : m.table[b] \in Seq(Refs(Len(m.heap)))
         /\ \A v \in Entered(m) : \E a \in DOMAIN m.heap : v = Ref(a)
<1>1. PICK S : m.heap \in Seq(S)
  BY DEF IsMemory
<1>2. Len(m.heap) \in Nat /\ DOMAIN m.heap = 1 .. Len(m.heap)
  BY <1>1
<1> DEFINE N == Refs(Len(m.heap))
<1>3. m.table \in [0 .. Buckets - 1 -> Seq(N)]
  BY DEF IsMemory
<1> HIDE DEF N
<1>4. DOMAIN m.table = 0 .. Buckets - 1 /\ \A b \in DOMAIN m.table : m.table[b] \in Seq(N)
  BY <1>3
<1>5. ASSUME NEW v \in Entered(m) PROVE v \in N
  <2>1. PICK b \in DOMAIN m.table : v \in InChain(m, b)
    BY <1>5 DEF Entered
  <2>2. PICK i \in DOMAIN m.table[b] : v = m.table[b][i]
    BY <2>1 DEF InChain
  <2>3. m.table[b] \in Seq(N)
    BY <1>4
  <2>4. QED
    BY <2>2, <2>3
<1>6. QED
  BY <1>2, <1>4, <1>5 DEF N, Refs

(* A new cell: the others and the table stay. *)
LEMMA AllocFacts ==
  ASSUME NEW m, IsMemory(m), NEW c
  PROVE  LET r == Alloc(m, c)
         IN  /\ IsMemory(r.m) /\ r.v = Ref(Len(m.heap) + 1)
             /\ r.m.table = m.table /\ r.m.frames = m.frames /\ r.m.halt = m.halt
             /\ Len(r.m.heap) = Len(m.heap) + 1 /\ r.m.heap[Len(m.heap) + 1] = c
             /\ \A a \in DOMAIN m.heap : r.m.heap[a] = m.heap[a]
<1> DEFINE h == Append(m.heap, c)
           n == [heap |-> h, frames |-> m.frames, table |-> m.table, halt |-> m.halt]
<1>1. PICK S : m.heap \in Seq(S)
  BY DEF IsMemory
<1> DEFINE T == S \cup {c}
<1>2. m.heap \in Seq(T) /\ c \in T
  BY <1>1
<1> HIDE DEF T
<1>3. /\ h \in Seq(T) /\ Len(h) = Len(m.heap) + 1 /\ h[Len(m.heap) + 1] = c /\ Len(m.heap) \in Nat
      /\ \A a \in 1 .. Len(m.heap) : h[a] = m.heap[a]
  BY <1>2
<1>4. m = [heap |-> m.heap, frames |-> m.frames, table |-> m.table, halt |-> m.halt]
  BY DEF IsMemory
<1>5. [m EXCEPT !.heap = Append(@, c)] = n
  BY <1>4
<1>6. Alloc(m, c).v = Ref(Len(m.heap) + 1) /\ Alloc(m, c).m = n
  BY <1>5 DEF Alloc, R
<1>7. m.table \in [0 .. Buckets - 1 -> Seq(Refs(Len(h)))]
  <2>1. Refs(Len(m.heap)) \subseteq Refs(Len(h))
    BY <1>3 DEF Refs
  <2> DEFINE A == Refs(Len(m.heap))
             B == Refs(Len(h))
  <2>2. m.table \in [0 .. Buckets - 1 -> Seq(A)] /\ A \subseteq B
    BY <2>1 DEF IsMemory
  <2> HIDE DEF A, B
  <2>3. Seq(A) \subseteq Seq(B)
    BY <2>2
  <2>4. m.table \in [0 .. Buckets - 1 -> Seq(B)]
    BY <2>2, <2>3
  <2>5. QED
    BY <2>4 DEF B
<1> HIDE DEF h
<1>8. n.heap = h /\ n.table = m.table /\ n.frames = m.frames /\ n.halt = m.halt
  OBVIOUS
<1>9. IsMemory(n)
  BY <1>3, <1>7, <1>8 DEF IsMemory
<1>10. DOMAIN m.heap = 1 .. Len(m.heap)
  BY HeapFacts
<1> HIDE DEF n
<1>11. QED
  BY <1>3, <1>6, <1>8, <1>9, <1>10

(* What is spelled and entered depends on the heap and the table only. *)
LEMMA SameEntered ==
  ASSUME NEW m, NEW n, n.table = m.table
  PROVE  Entered(n) = Entered(m) /\ \A b : InChain(n, b) = InChain(m, b)
  BY DEF Entered, InChain

LEMMA CellOf ==
  ASSUME NEW m, NEW a
  PROVE  /\ IsSymbol(m, Ref(a)) <=> m.heap[a].t = "symbol"
         /\ Spelling(m, Ref(a)) = m.heap[a].name
  BY DEF IsSymbol, Is, TypeOf, Spelling, Cell, Ref

(* The table stays interned if no cell changes its type, no symbol its     *)
(* name, and a new symbol that is not entered is spelled like one that is. *)
LEMMA StaysInterned ==
  ASSUME NEW m, NEW n, IsMemory(m), IsMemory(n), InternedIn(m), n.table = m.table,
         DOMAIN m.heap \subseteq DOMAIN n.heap,
         \A a \in DOMAIN m.heap : /\ n.heap[a].t = m.heap[a].t
                                  /\ m.heap[a].t = "symbol" => n.heap[a].name = m.heap[a].name,
         \A a \in DOMAIN n.heap \ DOMAIN m.heap :
            n.heap[a].t = "symbol" => \E v \in Entered(m) : Spelling(m, v) = n.heap[a].name
  PROVE  InternedIn(n)
<1>1. Entered(n) = Entered(m) /\ \A b : InChain(n, b) = InChain(m, b)
  BY SameEntered
<1>2. ASSUME NEW v \in Entered(m) PROVE IsSymbol(n, v) /\ Spelling(n, v) = Spelling(m, v)
  <2>1. PICK a \in DOMAIN m.heap : v = Ref(a)
    BY HeapFacts
  <2>2. m.heap[a].t = "symbol"
    BY <2>1, CellOf DEF InternedIn
  <2>3. n.heap[a].t = "symbol" /\ n.heap[a].name = m.heap[a].name
    BY <2>2
  <2>4. QED
    BY <2>1, <2>3, CellOf
<1>3. \A b \in DOMAIN m.table : InChain(m, b) \subseteq Entered(m)
  BY DEF Entered
<1>4. \A v \in Entered(n) : IsSymbol(n, v)
  BY <1>1, <1>2
<1>5. \A v, w \in Entered(n) : Spelling(n, v) = Spelling(n, w) => v = w
  BY <1>1, <1>2 DEF InternedIn
<1>6. ASSUME NEW b \in DOMAIN n.table, NEW v \in InChain(n, b) PROVE Hash(Spelling(n, v)) = b
  <2>1. b \in DOMAIN m.table /\ v \in InChain(m, b) /\ v \in Entered(m)
    BY <1>1, <1>3, <1>6
  <2>2. Spelling(n, v) = Spelling(m, v)
    BY <1>2, <2>1
  <2>3. Hash(Spelling(m, v)) = b
    BY <2>1 DEF InternedIn
  <2>4. QED
    BY <2>2, <2>3
<1>7. ASSUME NEW a \in DOMAIN n.heap, IsSymbol(n, Ref(a))
      PROVE  \E v \in Entered(n) : Spelling(n, v) = Spelling(n, Ref(a))
  <2>1. n.heap[a].t = "symbol" /\ Spelling(n, Ref(a)) = n.heap[a].name
    BY <1>7, CellOf
  <2>2. \E v \in Entered(m) : Spelling(m, v) = n.heap[a].name
    <3>1. CASE a \in DOMAIN m.heap
      <4>1. m.heap[a].t = "symbol" /\ n.heap[a].name = m.heap[a].name
        BY <2>1, <3>1
      <4>2. IsSymbol(m, Ref(a)) /\ Spelling(m, Ref(a)) = m.heap[a].name
        BY <4>1, CellOf
      <4>3. QED
        BY <3>1, <4>1, <4>2 DEF InternedIn
    <3>2. CASE a \notin DOMAIN m.heap
      BY <2>1, <3>2
    <3>3. QED
      BY <3>1, <3>2
  <2>3. PICK v \in Entered(m) : Spelling(m, v) = n.heap[a].name
    BY <2>2
  <2>4. v \in Entered(n) /\ Spelling(n, v) = Spelling(n, Ref(a))
    BY <1>1, <1>2, <2>1, <2>3
  <2>5. QED
    BY <2>4
<1>8. QED
  BY <1>4, <1>5, <1>6, <1>7 DEF InternedIn

(* A store into a field of a cell that is no symbol. *)
LEMMA StoreFacts ==
  ASSUME NEW m, IsMemory(m), NEW a \in DOMAIN m.heap, NEW c
  PROVE  LET n == [m EXCEPT !.heap[a] = c]
         IN  /\ IsMemory(n) /\ n.table = m.table /\ DOMAIN n.heap = DOMAIN m.heap
             /\ n.heap[a] = c /\ \A x \in DOMAIN m.heap : x # a => n.heap[x] = m.heap[x]
<1> DEFINE h == [m.heap EXCEPT ![a] = c]
           n == [heap |-> h, frames |-> m.frames, table |-> m.table, halt |-> m.halt]
<1>1. PICK S : m.heap \in Seq(S)
  BY DEF IsMemory
<1> DEFINE T == S \cup {c}
<1>2. m.heap \in Seq(T) /\ c \in T
  BY <1>1
<1> HIDE DEF T
<1>3. /\ h \in Seq(T) /\ Len(h) = Len(m.heap) /\ DOMAIN h = DOMAIN m.heap
      /\ h[a] = c /\ \A x \in DOMAIN m.heap : x # a => h[x] = m.heap[x]
  BY <1>2
<1>4. m = [heap |-> m.heap, frames |-> m.frames, table |-> m.table, halt |-> m.halt]
  BY DEF IsMemory
<1>5. [m EXCEPT !.heap[a] = c] = n
  BY <1>4
<1> HIDE DEF h
<1>6. n.heap = h /\ n.table = m.table /\ n.frames = m.frames /\ n.halt = m.halt
  OBVIOUS
<1>7. IsMemory(n)
  BY <1>3, <1>6 DEF IsMemory
<1> HIDE DEF n
<1>8. QED
  BY <1>3, <1>5, <1>6, <1>7

LEMMA AllocKeeps ==
  ASSUME NEW m, IsMemory(m), InternedIn(m), NEW c,
         c.t = "symbol" => \E v \in Entered(m) : Spelling(m, v) = c.name
  PROVE  IsMemory(Alloc(m, c).m) /\ InternedIn(Alloc(m, c).m)
<1> DEFINE n == Alloc(m, c).m
           l == Len(m.heap)
<1>1. /\ IsMemory(n) /\ n.table = m.table /\ Len(n.heap) = l + 1 /\ n.heap[l + 1] = c
      /\ \A a \in DOMAIN m.heap : n.heap[a] = m.heap[a]
  BY AllocFacts
<1>2. l \in Nat /\ DOMAIN m.heap = 1 .. l
  BY HeapFacts
<1> HIDE DEF n
<1>3. DOMAIN n.heap = 1 .. l + 1
  BY <1>1, HeapFacts
<1> HIDE DEF l
<1>4. DOMAIN m.heap \subseteq DOMAIN n.heap
  BY <1>2, <1>3
<1>5. \A a \in DOMAIN n.heap \ DOMAIN m.heap : a = l + 1
  BY <1>2, <1>3
<1>6. InternedIn(n)
  BY <1>1, <1>4, <1>5, StaysInterned
<1>7. QED
  BY <1>1, <1>6 DEF n

LEMMA StoreKeeps ==
  ASSUME NEW m, IsMemory(m), InternedIn(m), NEW a \in DOMAIN m.heap, NEW c,
         m.heap[a].t # "symbol", c.t = m.heap[a].t
  PROVE  IsMemory([m EXCEPT !.heap[a] = c]) /\ InternedIn([m EXCEPT !.heap[a] = c])
<1> DEFINE n == [m EXCEPT !.heap[a] = c]
<1>1. /\ IsMemory(n) /\ n.table = m.table /\ DOMAIN n.heap = DOMAIN m.heap
      /\ n.heap[a] = c /\ \A x \in DOMAIN m.heap : x # a => n.heap[x] = m.heap[x]
  BY StoreFacts
<1> HIDE DEF n
<1>2. \A x \in DOMAIN m.heap : /\ n.heap[x].t = m.heap[x].t
                               /\ m.heap[x].t = "symbol" => n.heap[x].name = m.heap[x].name
  <2> SUFFICES ASSUME NEW x \in DOMAIN m.heap
               PROVE  /\ n.heap[x].t = m.heap[x].t
                      /\ m.heap[x].t = "symbol" => n.heap[x].name = m.heap[x].name
    OBVIOUS
  <2>1. CASE x = a
    BY <1>1, <2>1
  <2>2. CASE x # a
    BY <1>1, <2>2
  <2>3. QED
    BY <2>1, <2>2
<1>3. InternedIn(n)
  BY <1>1, <1>2, StaysInterned
<1>4. QED
  BY <1>1, <1>3 DEF n

(* The table is interned before scheme_init makes the first symbol, with   *)
(* scheme_null and scheme_void in the heap, which are none.                *)
THEOREM EmptyTableIsInterned ==
  ASSUME NEW S, NEW heap \in Seq(S), NEW fs, NEW halt,
         \A a \in DOMAIN heap : heap[a].t # "symbol"
  PROVE  LET m == [heap |-> heap, frames |-> fs, table |-> NoSymbols, halt |-> halt]
         IN  IsMemory(m) /\ InternedIn(m)
<1> DEFINE m == [heap |-> heap, frames |-> fs, table |-> NoSymbols, halt |-> halt]
<1>1. m.heap = heap /\ m.frames = fs /\ m.table = NoSymbols /\ m.halt = halt
  OBVIOUS
<1>2. m = [heap |-> m.heap, frames |-> m.frames, table |-> m.table, halt |-> m.halt]
  OBVIOUS
<1> HIDE DEF m
<1>3. << >> \in Seq(Refs(Len(m.heap)))
  OBVIOUS
<1>4. m.table \in [0 .. Buckets - 1 -> Seq(Refs(Len(m.heap)))]
  BY <1>1, <1>3 DEF NoSymbols
<1>5. IsMemory(m)
  BY <1>1, <1>2, <1>4 DEF IsMemory
<1>6. \A b \in DOMAIN m.table : InChain(m, b) = {}
  BY <1>1 DEF InChain, NoSymbols
<1>7. Entered(m) = {}
  BY <1>6 DEF Entered
<1>8. ASSUME NEW a \in DOMAIN m.heap PROVE ~ IsSymbol(m, Ref(a))
  BY <1>1, CellOf
<1>9. InternedIn(m)
  BY <1>6, <1>7, <1>8 DEF InternedIn
<1>10. QED
  BY <1>5, <1>9 DEF m

(* A new pair, the copy that - and / make of their first argument, be it a *)
(* symbol (numb.c:256, numb.c:293), and writing to the car or the cdr of a *)
(* pair or of scheme_null leave the symbol table as it has to be.          *)
THEOREM WritesKeepSymbols ==
  ASSUME NEW m, IsMemory(m), InternedIn(m)
  PROVE  /\ \A x, y : LET n == MakePair(m, x, y).m IN IsMemory(n) /\ InternedIn(n)
         /\ \A a \in DOMAIN m.heap : LET n == Alloc(m, Cell(m, Ref(a))).m IN IsMemory(n) /\ InternedIn(n)
         /\ \A a \in DOMAIN m.heap : \A x :
              (\E t, p, q : t # "symbol" /\ m.heap[a] = [t |-> t, car |-> p, cdr |-> q]) =>
                /\ IsMemory(SetCar(m, Ref(a), x)) /\ InternedIn(SetCar(m, Ref(a), x))
                /\ IsMemory(SetCdr(m, Ref(a), x)) /\ InternedIn(SetCdr(m, Ref(a), x))
<1>1. ASSUME NEW x, NEW y
      PROVE  IsMemory(MakePair(m, x, y).m) /\ InternedIn(MakePair(m, x, y).m)
  <2>1. Pair(x, y).t # "symbol"
    BY DEF Pair
  <2>2. QED
    BY <2>1, AllocKeeps DEF MakePair
<1>2. ASSUME NEW a \in DOMAIN m.heap
      PROVE  IsMemory(Alloc(m, Cell(m, Ref(a))).m) /\ InternedIn(Alloc(m, Cell(m, Ref(a))).m)
  <2> DEFINE c == Cell(m, Ref(a))
  <2>1. c = m.heap[a] /\ Spelling(m, Ref(a)) = m.heap[a].name
    BY CellOf DEF Cell, Ref
  <2>2. c.t = "symbol" => \E v \in Entered(m) : Spelling(m, v) = c.name
    BY <2>1, CellOf DEF InternedIn
  <2> HIDE DEF c
  <2>3. IsMemory(Alloc(m, c).m) /\ InternedIn(Alloc(m, c).m)
    BY <2>2, AllocKeeps
  <2>4. QED
    BY <2>3 DEF c
<1>3. ASSUME NEW a \in DOMAIN m.heap, NEW x, NEW t, NEW p, NEW q,
             t # "symbol", m.heap[a] = [t |-> t, car |-> p, cdr |-> q]
      PROVE  /\ IsMemory(SetCar(m, Ref(a), x)) /\ InternedIn(SetCar(m, Ref(a), x))
             /\ IsMemory(SetCdr(m, Ref(a), x)) /\ InternedIn(SetCdr(m, Ref(a), x))
  <2> DEFINE c == [t |-> t, car |-> x, cdr |-> q]
             d == [t |-> t, car |-> p, cdr |-> x]
  <2>1. /\ m = [heap |-> m.heap, frames |-> m.frames, table |-> m.table, halt |-> m.halt]
        /\ Ref(a).a = a
    BY DEF IsMemory, Ref
  <2>2. SetCar(m, Ref(a), x) = [m EXCEPT !.heap[a] = c] /\ SetCdr(m, Ref(a), x) = [m EXCEPT !.heap[a] = d]
    BY <1>3, <2>1 DEF SetCar, SetCdr
  <2>3. c.t = m.heap[a].t /\ d.t = m.heap[a].t /\ m.heap[a].t # "symbol"
    BY <1>3
  <2> HIDE DEF c, d
  <2>4. QED
    BY <2>2, <2>3, StoreKeeps
<1>4. QED
  BY <1>1, <1>2, <1>3

(* As long as a symbol is in the table, and whatever else has been written *)
(* since it was made, scheme_make_symbol returns it for its name, and      *)
(* changes nothing.                                                        *)
THEOREM SymbolsAreFoundAgain ==
  ASSUME NEW m, IsMemory(m), InternedIn(m), NEW name, Hash(name) \in 0 .. Buckets - 1,
         NEW v \in Entered(m), Spelling(m, v) = name
  PROVE  MakeSymbol(m, name) = R(v, m)
<1> DEFINE chain == m.table[Hash(name)]
           found == {i \in DOMAIN chain : Spelling(m, chain[i]) = name}
<1>1. PICK b \in DOMAIN m.table : v \in InChain(m, b)
  BY DEF Entered
<1>2. b = Hash(name)
  BY <1>1 DEF InternedIn
<1>3. PICK i \in DOMAIN chain : v = chain[i]
  BY <1>1, <1>2 DEF InChain
<1>4. i \in found
  BY <1>3
<1>5. found \subseteq Nat /\ \A j \in found : chain[j] \in Entered(m) /\ Spelling(m, chain[j]) = name
  <2>1. Hash(name) \in DOMAIN m.table /\ chain \in Seq(Refs(Len(m.heap)))
    BY HeapFacts
  <2>2. DOMAIN chain \subseteq Nat
    BY <2>1
  <2>3. \A j \in DOMAIN chain : chain[j] \in Entered(m)
    BY <2>1 DEF Entered, InChain
  <2>4. QED
    BY <2>2, <2>3
<1>6. \A j \in found : chain[j] = v
  BY <1>5 DEF InternedIn
<1> DEFINE first == CHOOSE j \in found : \A k \in found : j <= k
<1>7. first \in found
  <2>1. \E j \in found : \A k \in found : j <= k
    BY <1>4, <1>5, LeastOne
  <2>2. QED
    BY <2>1
<1>8. MakeSymbol(m, name) = R(chain[first], m)
  BY <1>4 DEF MakeSymbol
<1> HIDE DEF first
<1>9. chain[first] = v
  BY <1>6, <1>7
<1>10. QED
  BY <1>8, <1>9

(* The table with a new symbol at the head of its chain.                   *)
Enter(m, v, b) == [m EXCEPT !.table[b] = <<v>> \o @]

(* The references to the cells of a memory, the chains of its table.       *)
Places(m) == Refs(Len(m.heap))
Chains(m) == DOMAIN m.table

LEMMA EnterFacts ==
  ASSUME NEW m, IsMemory(m), NEW v \in Places(m), NEW b \in Chains(m)
  PROVE  LET n == Enter(m, v, b)
         IN  /\ IsMemory(n) /\ n.heap = m.heap /\ n.frames = m.frames
             /\ Entered(n) = Entered(m) \cup {v}
             /\ InChain(n, b) = InChain(m, b) \cup {v}
             /\ \A c \in Chains(m) : c # b => InChain(n, c) = InChain(m, c)
             /\ Chains(n) = Chains(m)
<1> DEFINE new == <<v>> \o m.table[b]
           t == [m.table EXCEPT ![b] = new]
           n == Enter(m, v, b)
           N == Refs(Len(m.heap))
<1>1. m = [heap |-> m.heap, frames |-> m.frames, table |-> m.table, halt |-> m.halt]
  BY DEF IsMemory
<1>2. n = [heap |-> m.heap, frames |-> m.frames, table |-> t, halt |-> m.halt]
  <2>1. n = [m EXCEPT !.table = t]
    BY DEF Enter
  <2> HIDE DEF n, t
  <2>2. QED
    BY <1>1, <2>1
<1> HIDE DEF n
<1>3. m.table \in [0 .. Buckets - 1 -> Seq(N)] /\ v \in N /\ b \in 0 .. Buckets - 1
  BY DEF IsMemory, Places, Chains
<1> HIDE DEF N
<1>4. m.table[b] \in Seq(N)
  BY <1>3
<1>5. /\ new \in Seq(N) /\ Len(new) = Len(m.table[b]) + 1 /\ Len(m.table[b]) \in Nat /\ new[1] = v
      /\ \A i \in 1 .. Len(m.table[b]) : new[i + 1] = m.table[b][i]
  BY <1>3, <1>4
<1>6. {new[i] : i \in DOMAIN new} = {m.table[b][i] : i \in DOMAIN m.table[b]} \cup {v}
  <2>1. DOMAIN new = 1 .. Len(m.table[b]) + 1 /\ DOMAIN m.table[b] = 1 .. Len(m.table[b])
    BY <1>4, <1>5
  <2> HIDE DEF new
  <2>2. ASSUME NEW i \in DOMAIN new PROVE new[i] \in {m.table[b][j] : j \in DOMAIN m.table[b]} \cup {v}
    <3>1. CASE i = 1
      BY <1>5, <3>1
    <3>2. CASE i # 1
      <4>1. i - 1 \in 1 .. Len(m.table[b]) /\ (i - 1) + 1 = i
        BY <1>5, <2>1, <3>2
      <4>2. new[i] = m.table[b][i - 1]
        BY <1>5, <4>1
      <4>3. QED
        BY <2>1, <4>1, <4>2
    <3>3. QED
      BY <3>1, <3>2
  <2>3. ASSUME NEW j \in DOMAIN m.table[b] PROVE m.table[b][j] \in {new[i] : i \in DOMAIN new}
    <3>1. j + 1 \in DOMAIN new /\ new[j + 1] = m.table[b][j]
      BY <1>5, <2>1
    <3>2. QED
      BY <3>1
  <2>4. v \in {new[i] : i \in DOMAIN new}
    BY <1>5, <2>1
  <2>5. QED
    BY <2>2, <2>3, <2>4
<1> HIDE DEF new
<1>7. t \in [0 .. Buckets - 1 -> Seq(N)] /\ t[b] = new
  BY <1>3, <1>5
<1>8. \A c \in DOMAIN m.table : c # b => t[c] = m.table[c]
  BY <1>3
<1>9. DOMAIN t = DOMAIN m.table /\ b \in DOMAIN m.table
  BY <1>3
<1> HIDE DEF t
<1>10. n.heap = m.heap /\ n.frames = m.frames /\ n.table = t /\ n.halt = m.halt
  BY <1>2
<1>11. IsMemory(n)
  <2>1. \E S : m.heap \in Seq(S)
    BY DEF IsMemory
  <2>2. QED
    BY <1>2, <1>7, <1>10, <2>1 DEF IsMemory, N
<1>12. InChain(n, b) = InChain(m, b) \cup {v}
  BY <1>6, <1>7, <1>10 DEF InChain
<1>13. \A c \in Chains(m) : c # b => InChain(n, c) = InChain(m, c)
  BY <1>8, <1>10 DEF InChain, Chains
<1>14. Entered(n) = Entered(m) \cup {v}
  BY <1>9, <1>10, <1>12, <1>13 DEF Entered, Chains
<1>15. QED
  BY <1>9, <1>10, <1>11, <1>12, <1>13, <1>14 DEF n, Chains

(* scheme_make_symbol returns the symbol of the table with that name, one  *)
(* it makes if there is none, and keeps the table interned: the same name  *)
(* gives the same address from then on, another name another one.          *)
THEOREM OneSymbolPerName ==
  ASSUME NEW m, IsMemory(m), InternedIn(m), NEW name, Hash(name) \in 0 .. Buckets - 1
  PROVE  LET r == MakeSymbol(m, name)
         IN  /\ IsMemory(r.m) /\ InternedIn(r.m)
             /\ r.v \in Entered(r.m) /\ Spelling(r.m, r.v) = name
             /\ Entered(m) \subseteq Entered(r.m)
             /\ \A a \in DOMAIN m.heap : r.m.heap[a] = m.heap[a]
             /\ MakeSymbol(r.m, name) = R(r.v, r.m)
<1> DEFINE r == MakeSymbol(m, name)
<1>1. CASE \E v \in Entered(m) : Spelling(m, v) = name
  <2>1. PICK v \in Entered(m) : Spelling(m, v) = name
    BY <1>1
  <2>2. r = R(v, m)
    BY <2>1, SymbolsAreFoundAgain
  <2>3. r.v = v /\ r.m = m
    BY <2>2 DEF R
  <2> HIDE DEF r
  <2>4. MakeSymbol(m, name) = R(r.v, r.m)
    BY <2>2, <2>3 DEF r
  <2>5. QED
    BY <2>1, <2>3, <2>4 DEF r
<1>2. CASE \A v \in Entered(m) : Spelling(m, v) # name
  <2> DEFINE c == [t |-> "symbol", name |-> name]
             new == Alloc(m, c)
             b == Hash(name)
             n == [new.m EXCEPT !.table[b] = <<new.v>> \o @]
             chain == m.table[b]
             l == Len(m.heap)
  <2>1. r = R(new.v, n)
    <3>1. b \in DOMAIN m.table
      BY HeapFacts
    <3>2. \A i \in DOMAIN chain : chain[i] \in Entered(m)
      BY <3>1 DEF Entered, InChain
    <3>3. {i \in DOMAIN chain : Spelling(m, chain[i]) = name} = {}
      BY <1>2, <3>2
    <3> HIDE DEF n, new
    <3>4. QED
      BY <3>3 DEF MakeSymbol, n, new
  <2>2. /\ IsMemory(new.m) /\ new.v = Ref(l + 1)
        /\ new.m.table = m.table /\ Len(new.m.heap) = l + 1 /\ new.m.heap[l + 1] = c
        /\ \A a \in DOMAIN m.heap : new.m.heap[a] = m.heap[a]
    BY AllocFacts
  <2>3. l \in Nat /\ DOMAIN m.heap = 1 .. l
    BY HeapFacts
  <2>4. new.v \in Refs(Len(new.m.heap))
    BY <2>2, <2>3 DEF Refs
  <2>5. Entered(new.m) = Entered(m) /\ \A d : InChain(new.m, d) = InChain(m, d)
    BY <2>2, SameEntered
  <2>6. /\ IsMemory(n) /\ n.heap = new.m.heap
        /\ Entered(n) = Entered(m) \cup {new.v}
        /\ InChain(n, b) = InChain(m, b) \cup {new.v}
        /\ \A d \in DOMAIN m.table : d # b => InChain(n, d) = InChain(m, d)
        /\ DOMAIN n.table = DOMAIN m.table
    <3> DEFINE k == new.m
               u == new.v
    <3>1. IsMemory(k) /\ u \in Places(k) /\ b \in Chains(k)
      BY <2>2, <2>4, HeapFacts DEF Places, Chains
    <3>2. k.table = m.table
      BY <2>2
    <3>3. n = Enter(k, u, b)
      BY DEF Enter
    <3> HIDE DEF k, u, new, n, b
    <3>4. /\ IsMemory(n) /\ n.heap = k.heap
          /\ Entered(n) = Entered(k) \cup {u}
          /\ InChain(n, b) = InChain(k, b) \cup {u}
          /\ \A d \in Chains(k) : d # b => InChain(n, d) = InChain(k, d)
          /\ Chains(n) = Chains(k)
      BY <3>1, <3>3, EnterFacts
    <3>5. QED
      BY <2>5, <3>2, <3>4 DEF k, u, Chains
  <2> DEFINE u == new.v
  <2>7. u = Ref(l + 1) /\ u \in Entered(n)
    BY <2>2, <2>6
  <2> HIDE DEF n, new, c, u
  <2>8. IsSymbol(n, u) /\ Spelling(n, u) = name
    <3>1. n.heap[l + 1] = [t |-> "symbol", name |-> name]
      BY <2>2, <2>6 DEF c
    <3>2. QED
      BY <2>7, <3>1, CellOf
  <2>9. ASSUME NEW a \in DOMAIN m.heap PROVE n.heap[a] = m.heap[a]
    BY <2>2, <2>6
  <2>10. ASSUME NEW v \in Entered(m) PROVE IsSymbol(n, v) /\ Spelling(n, v) = Spelling(m, v)
    <3>1. PICK a \in DOMAIN m.heap : v = Ref(a)
      BY HeapFacts
    <3>2. n.heap[a] = m.heap[a] /\ IsSymbol(m, v)
      BY <2>9, <3>1 DEF InternedIn
    <3>3. QED
      BY <3>1, <3>2, CellOf
  <2>11. \A v \in Entered(n) : v = u \/ v \in Entered(m)
    BY <2>6 DEF u
  <2>12. \A v \in Entered(n) : IsSymbol(n, v)
    BY <2>8, <2>10, <2>11
  <2>13. ASSUME NEW v \in Entered(n), NEW w \in Entered(n), Spelling(n, v) = Spelling(n, w) PROVE v = w
    <3>1. CASE v \in Entered(m) /\ w \in Entered(m)
      BY <2>10, <2>13, <3>1 DEF InternedIn
    <3>2. CASE v = u \/ w = u
      BY <1>2, <2>8, <2>10, <2>11, <2>13, <3>2
    <3>3. QED
      BY <2>11, <3>1, <3>2
  <2>14. ASSUME NEW d \in DOMAIN n.table, NEW v \in InChain(n, d) PROVE Hash(Spelling(n, v)) = d
    <3>1. d \in DOMAIN m.table /\ (v \in InChain(m, d) \/ (v = u /\ d = b))
      BY <2>6, <2>14 DEF u
    <3>2. CASE v \in InChain(m, d)
      <4>1. v \in Entered(m) /\ Hash(Spelling(m, v)) = d
        BY <3>1, <3>2 DEF InternedIn, Entered
      <4>2. Spelling(n, v) = Spelling(m, v)
        BY <2>10, <4>1
      <4>3. QED
        BY <4>1, <4>2
    <3>3. CASE v = u /\ d = b
      BY <2>8, <3>3
    <3>4. QED
      BY <3>1, <3>2, <3>3
  <2>15. ASSUME NEW a \in DOMAIN n.heap, IsSymbol(n, Ref(a))
         PROVE  \E v \in Entered(n) : Spelling(n, v) = Spelling(n, Ref(a))
    <3>1. a \in DOMAIN m.heap \/ a = l + 1
      <4>1. DOMAIN n.heap = 1 .. Len(n.heap) /\ Len(n.heap) = l + 1
        BY <2>2, <2>6, HeapFacts
      <4>2. QED
        BY <2>3, <4>1
    <3>2. CASE a = l + 1
      BY <2>7, <3>2
    <3>3. CASE a \in DOMAIN m.heap
      <4>1. n.heap[a] = m.heap[a]
        BY <2>9, <3>3
      <4>2. IsSymbol(m, Ref(a)) /\ Spelling(n, Ref(a)) = Spelling(m, Ref(a))
        BY <2>15, <4>1, CellOf
      <4>3. PICK v \in Entered(m) : Spelling(m, v) = Spelling(m, Ref(a))
        BY <3>3, <4>2 DEF InternedIn
      <4>4. v \in Entered(n) /\ Spelling(n, v) = Spelling(n, Ref(a))
        BY <2>6, <2>10, <4>2, <4>3
      <4>5. QED
        BY <4>4
    <3>4. QED
      BY <3>1, <3>2, <3>3
  <2>16. InternedIn(n)
    BY <2>12, <2>13, <2>14, <2>15 DEF InternedIn
  <2>17. IsMemory(n) /\ Entered(m) \subseteq Entered(n)
    BY <2>6
  <2>18. r.v = u /\ r.m = n
    BY <2>1 DEF R, u
  <2>19. MakeSymbol(n, name) = R(u, n)
    BY <2>7, <2>8, <2>16, <2>17, SymbolsAreFoundAgain
  <2> HIDE DEF r
  <2>20. QED
    BY <2>7, <2>8, <2>9, <2>16, <2>17, <2>18, <2>19 DEF r
<1>3. QED
  BY <1>1, <1>2

=============================================================================
