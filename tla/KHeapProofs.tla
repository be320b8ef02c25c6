---------------------------- MODULE KHeapProofs ----------------------------
(***************************************************************************)
(* Proofs about KHeap, for every size of a page, number of pages and set   *)
(* of sizes callers ask for.                                               *)
(*                                                                         *)
(* The properties speak of the blocks met from head on. The invariant does *)
(* not: a free block is a header that nobody holds, and the links of these *)
(* go up through the addresses and from the last to head. That the walk    *)
(* from head meets exactly the free blocks follows, by induction over      *)
(* addresses.                                                              *)
(***************************************************************************)
EXTENDS KHeap, WellFoundedInduction, TLAPS

HeapEnd == pages * PageUnits

(* The blocks of the heap, those of the list, the one kfree has to place   *)
(* and those callers hold, and the free ones.                              *)
Blocks == {u \in Units : mem[u].size # Junk}
Free   == {u \in Blocks : u \notin DOMAIN live /\ ~ (pc = "free" /\ u = arg)}

(* No block reaches over the end of the heap. It holds after the marked    *)
(* steps too, and keeps the addresses the allocator works out in the heap. *)
SizesFit == \A u \in Blocks : mem[u].size >= 1 /\ u + mem[u].size <= HeapEnd

ArgTyped ==
  /\ pc = "malloc" => arg \in Sizes
  /\ pc = "free" => arg \in Units

TypeInv == TypeOK /\ SizesFit /\ ArgTyped

(* The blocks of a memory m of n units, apart and without holes.           *)
BlocksOf(m) == {u \in Units : m[u].size # Junk}

Apart(m) == \A u, v \in BlocksOf(m) : u < v => u + m[u].size <= v

Filled(m, n) == \A x \in 0 .. n - 1 : \E u \in BlocksOf(m) : Covers(u, m[u].size, x)

Tiled(m, n) == Apart(m) /\ Filled(m, n)

Held ==
  /\ \A b \in DOMAIN live : b \in Blocks /\ live[b] = mem[b].size
  /\ pc = "free" => arg \in Blocks /\ arg \notin DOMAIN live

(* n is the block after f in a list of the blocks F that starts at h.      *)
Follows(F, h, f, n) ==
  /\ n \in F
  /\ \/ f < n /\ \A g \in F : g <= f \/ g >= n
     \/ n = h /\ \A g \in F : g <= f

(* The links of m go up through F, and from its last block to h, its first. *)
IsRing(F, h, m) ==
  /\ h = NULL => F = {}
  /\ h # NULL => h \in F /\ \A f \in F : h <= f
  /\ \A f \in F : Follows(F, h, f, m[f].next)

Locals ==
  /\ pc # "wild"
  /\ pc = "malloc" => q \in Free /\ p \in Free /\ mem[q].next = p
  /\ pc = "free" => p \in Free

(* What kmalloc has gone past is too small. *)
Searched == pc = "malloc" => \A f \in Free : head < f /\ f <= q => mem[f].size < arg

ListInv == Tiled(mem, HeapEnd) /\ Held /\ IsRing(Free, head, mem) /\ Locals /\ Searched

IInv == TypeInv /\ (~ broken => ListInv)

VisitsFree == ~ broken /\ head # NULL => Visited = Free

-----------------------------------------------------------------------------
LEMMA HeapArithmetic ==
  ASSUME pages \in 1 .. MaxPages
  PROVE  /\ PageUnits \in Nat /\ PageUnits >= 1 /\ MaxPages * PageUnits \in Nat
         /\ HeapEnd \in Nat /\ HeapEnd >= 1 /\ HeapEnd <= MaxPages * PageUnits
         /\ (pages + 1) * PageUnits = HeapEnd + PageUnits
         /\ pages < MaxPages => HeapEnd + PageUnits <= MaxPages * PageUnits
         /\ NewBlock = HeapEnd
<1>1. PageUnits \in Nat /\ PageUnits >= 1 /\ MaxPages \in Nat /\ pages \in Nat /\ pages >= 1 /\ pages <= MaxPages
  BY HeapAssumption
<1>2. pages * PageUnits \in Nat /\ MaxPages * PageUnits \in Nat /\ pages * PageUnits >= 1
  BY <1>1
<1>3. pages * PageUnits <= MaxPages * PageUnits
  BY <1>1
<1>4. (pages + 1) * PageUnits = pages * PageUnits + PageUnits
  BY <1>1
<1>5. pages < MaxPages => (pages + 1) * PageUnits <= MaxPages * PageUnits
  BY <1>1
<1>6. QED
  BY <1>1, <1>2, <1>3, <1>4, <1>5 DEF HeapEnd, NewBlock

(* What the type invariant says of a pointer the loops follow. *)
LEMMA HeaderShape ==
  ASSUME TypeInv, NEW u, IsHeader(u)
  PROVE  /\ u \in Units /\ u \in Blocks
         /\ mem[u].size \in Nat /\ mem[u].size >= 1 /\ u + mem[u].size <= HeapEnd
         /\ mem[u].next \in Units \cup {NULL}
<1>1. pages \in 1 .. MaxPages /\ mem \in [Units -> Word]
  BY DEF TypeInv, TypeOK
<1>2. u \in Units
  BY <1>1, HeapArithmetic DEF IsHeader, Units, HeapEnd
<1>3. mem[u] \in Word
  BY <1>1, <1>2
<1>4. QED
  BY <1>2, <1>3 DEF IsHeader, Word, TypeInv, SizesFit, Blocks

(* Every word of the heap that has a size has one that fits. *)
FitsIn(m, n) ==
  /\ m \in [Units -> Word]
  /\ \A u \in Units : m[u].size # Junk => m[u].size >= 1 /\ u + m[u].size <= n

LEMMA TypeInvMem ==
  /\ TypeInv => FitsIn(mem, HeapEnd)
  /\ TypeOK' /\ FitsIn(mem', HeapEnd') /\ ArgTyped' => TypeInv'
  BY DEF TypeInv, TypeOK, SizesFit, Blocks, FitsIn, HeapEnd

LEMMA JunkTyped == JunkWord \in Word /\ JunkWord.size = Junk /\ Junk # NULL /\ Junk \notin Nat /\ NULL \notin Nat
  BY DEF JunkWord, Word, Junk, NULL

LEMMA BlockShape ==
  ASSUME NEW m, NEW n, FitsIn(m, n), NEW u \in BlocksOf(m)
  PROVE  u \in Units /\ u \in Nat /\ m[u].size \in Nat /\ m[u].size >= 1 /\ u + m[u].size <= n
<1>1. u \in Units /\ u \in Nat /\ m[u] \in Word /\ m[u].size # Junk
  BY HeapAssumption DEF BlocksOf, FitsIn, Units
<1>2. QED
  BY <1>1 DEF FitsIn, Word

LEMMA ScribbleFits ==
  ASSUME NEW m, NEW b, NEW k, NEW n, FitsIn(m, n)
  PROVE  FitsIn(Scribble(m, b, k), n)
  BY JunkTyped DEF FitsIn, Scribble

(* The block b given to the caller of kmalloc. *)
LEMMA GiveTyped ==
  ASSUME TypeInv, NEW b \in Units, NEW n \in Sizes, NEW m, FitsIn(m, HeapEnd), Give(b, n, m),
         UNCHANGED pages, head' \in Units \cup {NULL}, refused' \in BOOLEAN, broken' \in BOOLEAN
  PROVE  TypeInv'
<1>1. FitsIn(mem', HeapEnd')
  BY ScribbleFits DEF Give, HeapEnd
<1>2. DOMAIN live' \subseteq Units /\ \A x \in DOMAIN live' : live'[x] \in Sizes
  BY DEF Give, TypeInv, TypeOK
<1>3. pc' = "idle" /\ arg' = NULL /\ q' = NULL /\ p' = NULL
  BY DEF Give, Return
<1>4. QED
  BY <1>1, <1>2, <1>3, TypeInvMem DEF TypeOK, TypeInv, FitsIn, ArgTyped

(* The words that kmalloc and kfree change. *)
LEMMA NextFits ==
  ASSUME NEW m, NEW n, FitsIn(m, n), NEW u, NEW v \in Units \cup {NULL, Junk}
  PROVE  FitsIn([m EXCEPT ![u].next = v], n)
  BY DEF FitsIn, Word

LEMMA SizeFits ==
  ASSUME NEW m, NEW n, FitsIn(m, n), NEW u \in Units, NEW k \in Nat, k >= 1, u + k <= n
  PROVE  FitsIn([m EXCEPT ![u].size = k], n)
  BY DEF FitsIn, Word

LEMMA WordFits ==
  ASSUME NEW m, NEW n, FitsIn(m, n), NEW u \in Units, NEW w \in Word,
         w.size # Junk => w.size >= 1 /\ u + w.size <= n
  PROVE  FitsIn([m EXCEPT ![u] = w], n)
  BY DEF FitsIn

LEMMA LargerFits ==
  ASSUME NEW m, NEW n \in Nat, NEW k \in Nat, k >= n, FitsIn(m, n)
  PROVE  FitsIn(m, k)
<1> SUFFICES ASSUME NEW u \in Units, m[u].size # Junk PROVE m[u].size >= 1 /\ u + m[u].size <= k
  BY DEF FitsIn
<1>1. m[u].size \in Nat /\ u \in Nat
  BY HeapAssumption DEF FitsIn, Word, Units
<1>2. QED
  BY <1>1 DEF FitsIn

LEMMA InitTypeInv == Init => TypeInv
<1> SUFFICES ASSUME Init PROVE TypeInv
  OBVIOUS
<1>1. pages = 1 /\ pages \in 1 .. MaxPages
  BY HeapAssumption DEF Init
<1>2. HeapEnd = PageUnits /\ 0 \in Units /\ PageUnits \in Nat /\ PageUnits >= 1
  BY <1>1, HeapArithmetic, HeapAssumption DEF HeapEnd, Units
<1>3. \A u \in Units : mem[u] = IF u = 0 THEN [size |-> PageUnits, next |-> 0] ELSE JunkWord
  BY DEF Init
<1>4. mem \in [Units -> Word]
  BY <1>2, JunkTyped DEF Init, Word
<1>5. SizesFit
  BY <1>2, <1>3, JunkTyped DEF SizesFit, Blocks
<1>6. TypeOK
  BY <1>1, <1>2, <1>4 DEF Init, TypeOK
<1>7. QED
  BY <1>5, <1>6 DEF TypeInv, ArgTyped, Init

(* A page that expand_region has added becomes a block of the list. *)
LEMMA NewBlockTyped ==
  ASSUME TypeInv, Expands
  PROVE  /\ NewBlock \in Units /\ pages' \in 1 .. MaxPages /\ refused' \in BOOLEAN
         /\ NewBlock = HeapEnd /\ HeapEnd \in Nat /\ HeapEnd' = HeapEnd + PageUnits
         /\ PageUnits \in Nat /\ PageUnits >= 1
<1>1. pages \in 1 .. MaxPages /\ refused \in BOOLEAN
  BY DEF TypeInv, TypeOK
<1>2. pages < MaxPages /\ pages' = pages + 1 /\ refused' = refused
  BY DEF Expands
<1> DEFINE top == MaxPages * PageUnits
<1>3. /\ pages' \in 1 .. MaxPages
      /\ HeapEnd \in Nat /\ NewBlock = HeapEnd /\ HeapEnd + PageUnits <= top
      /\ PageUnits \in Nat /\ PageUnits >= 1 /\ top \in Nat
  BY <1>1, <1>2, HeapArithmetic, HeapAssumption
<1>4. HeapEnd' = HeapEnd + PageUnits
  BY <1>1, <1>2, HeapArithmetic DEF HeapEnd
<1>5. Units = 0 .. top - 1
  BY DEF Units
<1> HIDE DEF top
<1>6. NewBlock \in Units
  BY <1>3, <1>5
<1>7. QED
  BY <1>1, <1>2, <1>3, <1>4, <1>6

LEMMA NewBlockFits ==
  ASSUME TypeInv, Expands, NEW m, FitsIn(m, HeapEnd), NEW v \in Units
  PROVE  FitsIn([m EXCEPT ![NewBlock] = [size |-> PageUnits, next |-> v]], HeapEnd')
<1>1. [size |-> PageUnits, next |-> v] \in Word
  BY NewBlockTyped DEF Word
<1>2. HeapEnd' \in Nat /\ HeapEnd' >= HeapEnd
  BY NewBlockTyped
<1>3. FitsIn(m, HeapEnd')
  BY <1>2, NewBlockTyped, LargerFits
<1>4. QED
  BY <1>1, <1>2, <1>3, NewBlockTyped, WordFits

LEMMA TakeExactTyped == ASSUME TypeInv, TakeExact PROVE TypeInv'
<1> DEFINE m == [mem EXCEPT ![q].next = mem[p].next]
<1>1. /\ pc = "malloc" /\ IsHeader(p) /\ Give(p, arg, m) /\ UNCHANGED <<pages, refused>>
      /\ head' = (IF q = p THEN NULL ELSE head)
      /\ broken' = (broken \/ (p = head /\ q # p))
  BY DEF TakeExact
<1>2. p \in Units /\ arg \in Sizes /\ head' \in Units \cup {NULL} /\ refused' \in BOOLEAN
  BY <1>1, HeaderShape DEF TypeInv, ArgTyped, TypeOK
<1>3. broken' \in BOOLEAN
  BY <1>1, Zenon
<1>4. FitsIn(m, HeapEnd)
  <2>1. mem[p].next \in Units \cup {NULL, Junk}
    BY <1>1, HeaderShape
  <2>2. QED
    BY <2>1, TypeInvMem, NextFits
<1> HIDE DEF m
<1>5. QED
  BY <1>1, <1>2, <1>3, <1>4, GiveTyped

(* The tail of a block, split off by kmalloc. *)
LEMMA TailShape ==
  ASSUME TypeInv, TakeTail
  PROVE  LET b == p + mem[p].size - arg
             m == [mem EXCEPT ![p].size = mem[p].size - arg, ![b].size = arg]
         IN  /\ pc = "malloc" /\ p \in Blocks /\ p \in Units /\ b \in Units /\ b # p
             /\ arg \in Sizes /\ arg \in Nat /\ arg >= 1 /\ arg < mem[p].size
             /\ FitsIn(m, HeapEnd)
             /\ m[p].size = mem[p].size - arg /\ m[b].size = arg
             /\ \A u \in Units : m[u].next = mem[u].next
             /\ \A u \in Units \ {p, b} : m[u] = mem[u]
             /\ Give(b, arg, m)
             /\ UNCHANGED <<head, pages, refused, broken>>
<1> DEFINE b == p + mem[p].size - arg
           l == [mem EXCEPT ![p].size = mem[p].size - arg]
           m == [mem EXCEPT ![p].size = mem[p].size - arg, ![b].size = arg]
<1>1. /\ pc = "malloc" /\ IsHeader(p) /\ mem[p].size > arg /\ Give(b, arg, m)
      /\ UNCHANGED <<head, pages, refused, broken>>
  BY DEF TakeTail
<1>2. /\ p \in Units /\ p \in Blocks /\ p \in Nat /\ arg \in Sizes /\ arg \in Nat /\ arg >= 1
      /\ mem[p].size \in Nat /\ p + mem[p].size <= HeapEnd /\ HeapEnd \in Nat
      /\ HeapEnd <= MaxPages * PageUnits /\ MaxPages * PageUnits \in Nat
  <2>1. /\ p \in Units /\ p \in Blocks /\ mem[p].size \in Nat /\ p + mem[p].size <= HeapEnd
    BY <1>1, HeaderShape
  <2>2. pages \in 1 .. MaxPages /\ arg \in Sizes
    BY <1>1 DEF TypeInv, ArgTyped, TypeOK
  <2>3. HeapEnd \in Nat /\ HeapEnd <= MaxPages * PageUnits /\ MaxPages * PageUnits \in Nat
    BY <2>2, HeapArithmetic
  <2>4. p \in Nat
    BY <2>1 DEF Units
  <2>5. arg \in Nat /\ arg >= 1
    BY <2>2, HeapAssumption
  <2>6. QED
    BY <2>1, <2>2, <2>3, <2>4, <2>5
<1>3. b \in Units /\ b + arg <= HeapEnd /\ mem[p].size - arg \in Nat /\ mem[p].size - arg >= 1
      /\ p + (mem[p].size - arg) <= HeapEnd /\ b # p
  BY <1>1, <1>2 DEF Units
<1>4. FitsIn(l, HeapEnd)
  BY <1>2, <1>3, TypeInvMem, SizeFits
<1>5. m = [l EXCEPT ![b].size = arg]
  OBVIOUS
<1>6. mem \in [Units -> Word] /\ l \in [Units -> Word]
  BY <1>4 DEF FitsIn, TypeInv, TypeOK
<1>7. l[p].size = mem[p].size - arg /\ l[p].next = mem[p].next
      /\ \A u \in Units \ {p} : l[u] = mem[u]
  BY <1>2, <1>6 DEF Word
<1> HIDE DEF m, l, b
<1>8. FitsIn(m, HeapEnd)
  BY <1>2, <1>3, <1>4, <1>5, SizeFits
<1>9. m[b].size = arg /\ m[b].next = l[b].next /\ \A u \in Units \ {b} : m[u] = l[u]
  BY <1>3, <1>5, <1>6 DEF Word
<1>10. m[p].size = mem[p].size - arg /\ \A u \in Units : m[u].next = mem[u].next
  BY <1>2, <1>3, <1>7, <1>9
<1>11. \A u \in Units \ {p, b} : m[u] = mem[u]
  BY <1>7, <1>9
<1>12. QED
  BY <1>1, <1>2, <1>3, <1>8, <1>9, <1>10, <1>11 DEF m, b

LEMMA TakeTailTyped == ASSUME TypeInv, TakeTail PROVE TypeInv'
<1> DEFINE b == p + mem[p].size - arg
           m == [mem EXCEPT ![p].size = mem[p].size - arg, ![b].size = arg]
<1>1. /\ b \in Units /\ arg \in Sizes /\ FitsIn(m, HeapEnd) /\ Give(b, arg, m)
      /\ UNCHANGED <<head, pages, refused, broken>>
  BY TailShape
<1> HIDE DEF m, b
<1>2. head' \in Units \cup {NULL} /\ refused' \in BOOLEAN /\ broken' \in BOOLEAN
  BY <1>1 DEF TypeInv, TypeOK
<1>3. QED
  BY <1>1, <1>2, GiveTyped

LEMMA StartMallocEmptyTyped ==
  ASSUME TypeInv, NEW n \in Sizes, StartMallocEmpty(n) PROVE TypeInv'
<1>1. /\ Expands /\ pc' = "malloc" /\ arg' = n
      /\ head' = NewBlock /\ q' = NewBlock /\ p' = NewBlock
      /\ mem' = [mem EXCEPT ![NewBlock] = [size |-> PageUnits, next |-> NewBlock]]
      /\ UNCHANGED <<live, broken>>
  BY DEF StartMallocEmpty
<1>2. /\ NewBlock \in Units /\ pages' \in 1 .. MaxPages /\ refused' \in BOOLEAN
      /\ FitsIn(mem', HeapEnd')
  BY <1>1, TypeInvMem, NewBlockTyped, NewBlockFits
<1>3. QED
  BY <1>1, <1>2, TypeInvMem DEF TypeInv, TypeOK, FitsIn, ArgTyped

LEMMA ExtendTyped == ASSUME TypeInv, Extend PROVE TypeInv'
<1> DEFINE m == [mem EXCEPT ![q].next = NewBlock,
                            ![NewBlock] = [size |-> PageUnits, next |-> p]]
<1>1. /\ pc = "malloc" /\ IsHeader(p) /\ Expands /\ mem' = m /\ q' = p /\ p' = m[p].next
      /\ UNCHANGED <<head, live, pc, arg, broken>>
  BY DEF Extend
<1>2. p \in Units
  BY <1>1, HeaderShape
<1>3. /\ NewBlock \in Units /\ pages' \in 1 .. MaxPages /\ refused' \in BOOLEAN
      /\ FitsIn(m, HeapEnd')
  <2> DEFINE l == [mem EXCEPT ![q].next = NewBlock]
  <2>1. NewBlock \in Units
    BY <1>1, NewBlockTyped
  <2>2. FitsIn(l, HeapEnd) /\ m = [l EXCEPT ![NewBlock] = [size |-> PageUnits, next |-> p]]
    BY <2>1, TypeInvMem, NextFits
  <2> HIDE DEF l, m
  <2>3. QED
    BY <1>1, <1>2, <2>1, <2>2, NewBlockTyped, NewBlockFits
<1>4. m[p] \in Word
  BY <1>2, <1>3 DEF FitsIn
<1> HIDE DEF m
<1>5. m[p].next \in Units \cup {NULL, Junk}
  BY <1>4 DEF Word
<1>6. QED
  BY <1>1, <1>2, <1>3, <1>5, TypeInvMem DEF TypeInv, TypeOK, FitsIn, ArgTyped

LEMMA MergedTyped ==
  ASSUME TypeInv, FitsIn(mem', HeapEnd), pc' = "idle", arg' = NULL, q' = NULL, p' = NULL,
         UNCHANGED <<head, pages, refused, live, broken>>
  PROVE  TypeInv'
<1>1. FitsIn(mem', HeapEnd')
  BY DEF HeapEnd
<1>2. QED
  BY <1>1, TypeInvMem DEF TypeInv, TypeOK, FitsIn, ArgTyped

(* The block b becomes part of the block a below it, which then leads to v. *)
Joined(m, a, b, v) ==
  [m EXCEPT ![a] = [size |-> m[a].size + m[b].size, next |-> v], ![b] = JunkWord]

LEMMA JoinedShape ==
  ASSUME NEW m, NEW n, FitsIn(m, n), NEW a \in BlocksOf(m), NEW b \in BlocksOf(m),
         a + m[a].size = b, NEW v \in Units \cup {NULL, Junk}
  PROVE  LET l == Joined(m, a, b, v)
         IN  /\ FitsIn(l, n) /\ a < b
             /\ l[a].size = m[a].size + m[b].size /\ l[a].next = v /\ l[b].size = Junk
             /\ \A u \in Units \ {a, b} : l[u] = m[u]
<1> DEFINE s == m[a].size + m[b].size
           w == [size |-> s, next |-> v]
           k == [m EXCEPT ![a] = w]
           l == Joined(m, a, b, v)
<1>1. /\ a \in Units /\ b \in Units /\ a \in Nat /\ b \in Nat
      /\ m[a].size \in Nat /\ m[b].size \in Nat /\ m[a].size >= 1 /\ m[b].size >= 1
      /\ b + m[b].size <= n
  BY BlockShape
<1>2. s \in Nat /\ s >= 1 /\ a + s = b + m[b].size /\ a < b
  BY <1>1
<1>3. w \in Word /\ w.size = s /\ w.next = v /\ l = [k EXCEPT ![b] = JunkWord]
  BY <1>2 DEF Word, Joined
<1> HIDE DEF s, w
<1>4. m \in [Units -> Word] /\ w.size >= 1 /\ a + w.size <= n
  BY <1>1, <1>2, <1>3 DEF FitsIn
<1>5. FitsIn(k, n)
  BY <1>1, <1>3, <1>4, WordFits
<1>6. k[a] = w /\ \A u \in Units \ {a} : k[u] = m[u]
  BY <1>1, <1>4
<1>7. k \in [Units -> Word]
  BY <1>5 DEF FitsIn
<1> HIDE DEF k, l
<1>8. FitsIn(l, n)
  BY <1>1, <1>3, <1>5, WordFits, JunkTyped
<1>9. l[a] = w /\ l[b] = JunkWord /\ \A u \in Units \ {a, b} : l[u] = m[u]
  BY <1>1, <1>2, <1>3, <1>6, <1>7
<1>10. QED
  BY <1>2, <1>3, <1>8, <1>9, JunkTyped DEF l, s

LEMMA MergeShape ==
  ASSUME TypeInv, MergeBelow
  PROVE  LET m == Joined(mem, p, arg, mem[p].next)
             up == mem[p].next
             k == Joined(m, p, up, mem[up].next)
         IN  /\ pc = "free" /\ BelongsAfter(p) /\ p \in Blocks /\ arg \in Blocks /\ p < arg
             /\ p + mem[p].size = arg /\ p \in Units /\ arg \in Units
             /\ m[p].size = mem[p].size + mem[arg].size /\ m[p].next = up /\ m[arg].size = Junk
             /\ \A u \in Units \ {p, arg} : m[u] = mem[u]
             /\ FitsIn(m, HeapEnd)
             /\ \/ mem' = m
                \/ /\ mem' = k /\ up \in BlocksOf(m) /\ p + m[p].size = up /\ p < up /\ up # arg
                   /\ k[p].size = m[p].size + m[up].size /\ k[p].next = mem[up].next
                   /\ k[up].size = Junk /\ up \in Units
                   /\ \A u \in Units \ {p, up} : k[u] = m[u]
                   /\ FitsIn(k, HeapEnd)
             /\ pc' = "idle" /\ arg' = NULL /\ q' = NULL /\ p' = NULL
             /\ UNCHANGED <<head, pages, refused, live, broken>>
<1> DEFINE m == Joined(mem, p, arg, mem[p].next)
           up == mem[p].next
           k == Joined(m, p, up, mem[up].next)
           m1 == [mem EXCEPT ![p].size = mem[p].size + mem[arg].size, ![arg] = JunkWord]
           up1 == m1[p].next
           k1 == [m1 EXCEPT ![p].size = m1[p].size + m1[up1].size, ![p].next = m1[up1].next,
                            ![up1] = JunkWord]
<1>1. /\ pc = "free" /\ BelongsAfter(p) /\ IsHeader(p) /\ mem[arg].size # Junk
      /\ p + mem[p].size = arg
      /\ mem' = (IF p + m1[p].size = up1 /\ IsHeader(up1) THEN k1 ELSE m1)
      /\ pc' = "idle" /\ arg' = NULL /\ q' = NULL /\ p' = NULL
      /\ UNCHANGED <<head, pages, refused, live, broken>>
  BY DEF MergeBelow, Return, BordersBelow
<1>2. FitsIn(mem, HeapEnd) /\ Blocks = BlocksOf(mem)
  BY TypeInvMem DEF Blocks, BlocksOf
<1>3. /\ p \in Blocks /\ arg \in Blocks /\ p \in Units /\ arg \in Units
      /\ mem[p] \in Word /\ mem \in [Units -> Word] /\ mem[p].next \in Units \cup {NULL, Junk}
  BY <1>1, HeaderShape DEF Blocks, TypeInv, TypeOK, ArgTyped, Word
<1>4. /\ FitsIn(m, HeapEnd) /\ p < arg
      /\ m[p].size = mem[p].size + mem[arg].size /\ m[p].next = up /\ m[arg].size = Junk
      /\ \A u \in Units \ {p, arg} : m[u] = mem[u]
  <2>1. p + mem[p].size = arg
    BY <1>1
  <2>2. p \in BlocksOf(mem) /\ arg \in BlocksOf(mem)
    BY <1>2, <1>3
  <2> HIDE DEF m1, up1, k1
  <2>3. QED
    <3> DEFINE v == mem[p].next
    <3>1. v \in Units \cup {NULL, Junk}
      BY <1>3
    <3> HIDE DEF v
    <3>2. FitsIn(Joined(mem, p, arg, v), HeapEnd)
      BY <1>2, <2>1, <2>2, <3>1, JoinedShape
    <3>3. p < arg
      BY <1>2, <2>1, <2>2, <3>1, JoinedShape
    <3>4. /\ Joined(mem, p, arg, v)[p].size = mem[p].size + mem[arg].size
          /\ Joined(mem, p, arg, v)[p].next = v
      BY <1>2, <2>1, <2>2, <3>1, JoinedShape
    <3>5. Joined(mem, p, arg, v)[arg].size = Junk /\ \A u \in Units \ {p, arg} : Joined(mem, p, arg, v)[u] = mem[u]
      BY <1>2, <2>1, <2>2, <3>1, JoinedShape
    <3>6. QED
      BY <3>2, <3>3, <3>4, <3>5 DEF v
<1>5. p # arg /\ p \in Nat /\ arg \in Nat /\ mem[p].size \in Nat /\ mem[arg].size \in Nat
      /\ mem[p].size >= 1 /\ mem[arg].size >= 1
  <2>1. p \in BlocksOf(mem) /\ arg \in BlocksOf(mem) /\ p # arg
    <3>1. p \in Nat /\ arg \in Nat /\ p # arg
      BY <1>3, <1>4 DEF Units
    <3>2. QED
      BY <1>2, <1>3, <3>1
  <2>2. \A b \in BlocksOf(mem) : b \in Nat /\ mem[b].size \in Nat /\ mem[b].size >= 1
    BY <1>2, BlockShape
  <2>3. QED
    BY <2>1, <2>2
<1>6. m1 = m
  <2>1. [mem[p] EXCEPT !.size = mem[p].size + mem[arg].size]
          = [size |-> mem[p].size + mem[arg].size, next |-> mem[p].next]
    BY <1>3 DEF Word
  <2>2. [mem EXCEPT ![p].size = mem[p].size + mem[arg].size]
          = [mem EXCEPT ![p] = [mem[p] EXCEPT !.size = mem[p].size + mem[arg].size]]
    OBVIOUS
  <2>3. QED
    BY <2>1, <2>2 DEF Joined
<1>7. up1 = up
  BY <1>4, <1>6
<1>8. ASSUME p + m[p].size = up, IsHeader(up)
      PROVE  /\ up \in BlocksOf(m) /\ p < up /\ up # arg /\ up \in Units
             /\ mem' = k
             /\ k[p].size = m[p].size + m[up].size /\ k[p].next = mem[up].next
             /\ k[up].size = Junk
             /\ \A u \in Units \ {p, up} : k[u] = m[u]
             /\ FitsIn(k, HeapEnd)
  <2>1. up \in Units /\ mem[up].size # Junk
    BY <1>8, HeaderShape DEF Blocks
  <2>2. p < up /\ up # arg /\ up # p
    <3>1. p + mem[p].size = arg /\ m[p].size = mem[p].size + mem[arg].size
      BY <1>1, <1>4
    <3>2. p + (mem[p].size + mem[arg].size) = up
      BY <1>8, <3>1
    <3> HIDE DEF up
    <3>3. QED
      BY <1>5, <3>1, <3>2
  <2> HIDE DEF m1, up1, k1
  <2>3. m[up] = mem[up] /\ up \in BlocksOf(m) /\ p \in BlocksOf(m)
    <3> HIDE DEF m, up
    <3>1. m[up] = mem[up] /\ m[up].size # Junk
      BY <1>4, <2>1, <2>2
    <3>2. m[p].size # Junk
      BY <1>4, <1>5, JunkTyped
    <3>3. QED
      BY <1>3, <2>1, <3>1, <3>2 DEF BlocksOf
  <2>4. mem[up].next \in Units \cup {NULL, Junk} /\ m[p] \in Word /\ m \in [Units -> Word]
    BY <1>3, <1>4, <2>1 DEF Word, FitsIn
  <2>5. mem' = [m EXCEPT ![p].size = m[p].size + m[up].size, ![p].next = m[up].next,
                         ![up] = JunkWord]
    BY <1>1, <1>6, <1>7, <1>8 DEF m1, up1, k1
  <2> HIDE DEF m, up
  <2>6. mem' = Joined(m, p, up, m[up].next)
    <3>1. [[m[p] EXCEPT !.size = m[p].size + m[up].size] EXCEPT !.next = m[up].next]
            = [size |-> m[p].size + m[up].size, next |-> m[up].next]
      <4>1. \A x : [m[p] EXCEPT !.size = x] = [size |-> x, next |-> m[p].next]
        BY <2>4 DEF Word
      <4> DEFINE s == m[p].size + m[up].size
                 r == [m[p] EXCEPT !.size = s]
      <4>2. r = [size |-> s, next |-> m[p].next]
        BY <4>1
      <4> HIDE DEF r, s
      <4>3. [r EXCEPT !.next = m[up].next] = [size |-> s, next |-> m[up].next]
        BY <4>2
      <4>4. QED
        BY <4>3 DEF r, s
    <3>2. mem' = [m EXCEPT ![p] = [[m[p] EXCEPT !.size = m[p].size + m[up].size] EXCEPT !.next = m[up].next],
                           ![up] = JunkWord]
      BY <1>3, <2>1, <2>2, <2>4, <2>5
    <3>3. QED
      BY <3>1, <3>2 DEF Joined
  <2>7. mem' = k
    BY <2>3, <2>6
  <2>8. /\ k[p].size = m[p].size + m[up].size /\ k[p].next = mem[up].next
        /\ k[up].size = Junk
        /\ \A u \in Units \ {p, up} : k[u] = m[u]
        /\ FitsIn(k, HeapEnd)
    <3>1. FitsIn(m, HeapEnd) /\ p + m[p].size = up /\ up = mem[p].next
      BY <1>4, <1>8 DEF up
    <3>2. mem[p].next = m[p].next
      BY <1>4 DEF up
    <3> DEFINE v == mem[up].next
               l == Joined(m, p, up, v)
    <3>3. v \in Units \cup {NULL, Junk}
      BY <2>4
    <3> HIDE DEF v
    <3>4. FitsIn(l, HeapEnd)
      BY <2>3, <3>1, <3>3, JoinedShape
    <3>5. l[p].size = m[p].size + m[up].size /\ l[p].next = v
      BY <2>3, <3>1, <3>3, JoinedShape
    <3>6. l[up].size = Junk /\ \A u \in Units \ {p, up} : l[u] = m[u]
      BY <2>3, <3>1, <3>3, JoinedShape
    <3>7. QED
      BY <3>4, <3>5, <3>6 DEF v
  <2>9. QED
    BY <2>1, <2>2, <2>3, <2>7, <2>8
<1>9. CASE p + m[p].size = up /\ IsHeader(up)
  <2> HIDE DEF m, k, m1, k1, up, up1
  <2>1. QED
    BY <1>1, <1>3, <1>4, <1>8, <1>9 DEF m, k, up
<1>10. CASE ~ (p + m[p].size = up /\ IsHeader(up))
  <2>1. mem' = m
    BY <1>1, <1>6, <1>7, <1>10
  <2> HIDE DEF m, k, m1, k1, up, up1
  <2>2. QED
    BY <1>1, <1>3, <1>4, <2>1 DEF m, k, up
<1>11. QED
  BY <1>9, <1>10

LEMMA MergeBelowTyped == ASSUME TypeInv, MergeBelow PROVE TypeInv'
<1>1. FitsIn(mem', HeapEnd)
  BY MergeShape
<1>2. pc' = "idle" /\ arg' = NULL /\ q' = NULL /\ p' = NULL
      /\ UNCHANGED <<head, pages, refused, live, broken>>
  BY MergeShape
<1>3. QED
  BY <1>1, <1>2, MergedTyped

(* The steps that change no memory. *)
LEMMA OtherTyped ==
  ASSUME TypeInv,
         \/ \E n \in Sizes : StartMalloc(n) \/ StartMallocNull(n)
         \/ \E b \in DOMAIN live : StartFree(b)
         \/ Advance \/ GiveUp \/ Seek \/ GoWild
         \/ UNCHANGED vars
  PROVE  TypeInv'
<1> SUFFICES TypeOK' /\ ArgTyped'
  <2>1. UNCHANGED <<mem, pages>>
    BY DEF StartMalloc, StartMallocNull, StartFree, Advance, GiveUp, Seek, GoWild, vars
  <2>2. FitsIn(mem', HeapEnd')
    BY <2>1, TypeInvMem DEF HeapEnd
  <2>3. QED
    BY <2>2, TypeInvMem
<1>1. TypeOK /\ ArgTyped
  BY DEF TypeInv
<1>2. \A u \in Units : mem[u].next \in Units \cup {NULL, Junk}
  BY <1>1 DEF TypeOK, Word
<1>3. ASSUME NEW n \in Sizes, StartMalloc(n) PROVE TypeOK' /\ ArgTyped'
  BY <1>1, <1>2, <1>3 DEF StartMalloc, TypeOK, ArgTyped
<1>4. ASSUME NEW n \in Sizes, StartMallocNull(n) PROVE TypeOK' /\ ArgTyped'
  BY <1>1, <1>4 DEF StartMallocNull, TypeOK, ArgTyped
<1>5. ASSUME NEW b \in DOMAIN live, StartFree(b) PROVE TypeOK' /\ ArgTyped'
  <2>1. broken' \in BOOLEAN
    BY <1>5, Zenon DEF StartFree
  <2>2. b \in Units /\ DOMAIN live' \subseteq Units /\ \A x \in DOMAIN live' : live'[x] \in Sizes
    BY <1>1, <1>5 DEF StartFree, TypeOK
  <2>3. QED
    BY <1>1, <1>5, <2>1, <2>2 DEF StartFree, TypeOK, ArgTyped
<1>6. CASE Advance
  <2>1. p \in Units
    BY <1>6, HeaderShape DEF Advance
  <2>2. QED
    BY <1>1, <1>2, <1>6, <2>1 DEF Advance, TypeOK, ArgTyped
<1>7. CASE GiveUp
  BY <1>1, <1>7 DEF GiveUp, Return, TypeOK, ArgTyped
<1>8. CASE Seek
  <2>1. p \in Units
    BY <1>8, HeaderShape DEF Seek
  <2>2. QED
    BY <1>1, <1>2, <1>8, <2>1 DEF Seek, TypeOK, ArgTyped
<1>9. CASE GoWild
  BY <1>1, <1>9 DEF GoWild, TypeOK, ArgTyped
<1>10. CASE UNCHANGED vars
  BY <1>1, <1>10 DEF vars, TypeOK, ArgTyped
<1>11. QED
  BY <1>3, <1>4, <1>5, <1>6, <1>7, <1>8, <1>9, <1>10

LEMMA LinkFreedTyped == ASSUME TypeInv, LinkFreed PROVE TypeInv'
<1> DEFINE l == [mem EXCEPT ![p].next = arg]
<1>1. /\ mem' = [l EXCEPT ![arg].next = arg] /\ broken' = TRUE
      /\ pc' = "idle" /\ arg' = NULL /\ q' = NULL /\ p' = NULL
      /\ UNCHANGED <<head, pages, refused, live>> /\ arg \in Units
  BY DEF LinkFreed, Return, TypeInv, ArgTyped
<1>2. FitsIn(l, HeapEnd)
  BY <1>1, TypeInvMem, NextFits
<1> HIDE DEF l
<1>3. FitsIn(mem', HeapEnd)
  BY <1>1, <1>2, NextFits
<1>4. FitsIn(mem', HeapEnd')
  BY <1>1, <1>3 DEF HeapEnd
<1>5. broken' \in BOOLEAN
  BY <1>1, Zenon
<1>6. QED
  BY <1>1, <1>4, <1>5, TypeInvMem DEF TypeInv, TypeOK, FitsIn, ArgTyped

LEMMA NextTypeInv == TypeInv /\ [Next]_vars => TypeInv'
  BY TakeExactTyped, TakeTailTyped, StartMallocEmptyTyped, ExtendTyped, MergeBelowTyped,
     OtherTyped, LinkFreedTyped
     DEF Next, Turn

LEMMA AlwaysTypeInv == Spec => []TypeInv
  BY InitTypeInv, NextTypeInv, PTL DEF Spec

(***************************************************************************)
(* The types of the state, after the marked steps too: whatever has become *)
(* of the list, no block reaches over the end of the heap, so the          *)
(* addresses kmalloc works out from the words it finds lie in it.          *)
(***************************************************************************)
THEOREM TypeCorrect == Spec => []TypeOK
<1>1. TypeInv => TypeOK
  BY DEF TypeInv
<1>2. QED
  BY <1>1, AlwaysTypeInv, PTL

-----------------------------------------------------------------------------
(* What changes of a memory keep it tiled. *)
LEMMA SameTiled ==
  ASSUME NEW m, NEW l, NEW n, Tiled(m, n), \A u \in Units : l[u].size = m[u].size
  PROVE  BlocksOf(l) = BlocksOf(m) /\ Tiled(l, n)
<1>1. BlocksOf(l) = BlocksOf(m)
  BY DEF BlocksOf
<1>2. \A u \in BlocksOf(m) : u \in Units
  BY DEF BlocksOf
<1>3. QED
  BY <1>1, <1>2 DEF Tiled, Apart, Filled

(* The caller writes into no other block. *)
LEMMA GiveTiled ==
  ASSUME NEW m, NEW n, FitsIn(m, n), Tiled(m, n), NEW b \in BlocksOf(m)
  PROVE  LET l == Scribble(m, b, m[b].size)
         IN  /\ BlocksOf(l) = BlocksOf(m) /\ Tiled(l, n)
             /\ \A u \in BlocksOf(m) : l[u] = m[u]
<1> DEFINE l == Scribble(m, b, m[b].size)
<1>1. \A u \in BlocksOf(m) : u \notin b + 1 .. b + m[b].size - 1
  <2> SUFFICES ASSUME NEW u \in BlocksOf(m), u \in b + 1 .. b + m[b].size - 1 PROVE FALSE
    OBVIOUS
  <2>1. b < u /\ u < b + m[b].size
    <3>1. b \in Nat /\ u \in Nat /\ m[b].size \in Nat
      BY BlockShape
    <3>2. QED
      BY <3>1
  <2>2. b + m[b].size <= u
    BY <2>1 DEF Tiled, Apart
  <2>3. QED
    BY <2>1, <2>2, BlockShape
<1>2. \A u \in BlocksOf(m) : u \in Units /\ l[u] = m[u]
  BY <1>1 DEF Scribble, BlocksOf
<1>3. BlocksOf(l) = BlocksOf(m)
  <2>1. \A u \in Units : l[u].size # Junk => m[u].size # Junk
    BY JunkTyped DEF Scribble
  <2>2. QED
    BY <1>2, <2>1 DEF BlocksOf
<1> HIDE DEF l
<1>4. Tiled(l, n)
  BY <1>2, <1>3 DEF Tiled, Apart, Filled
<1>5. QED
  BY <1>2, <1>3, <1>4 DEF l

(* A block is split in two. *)
LEMMA SplitTiled ==
  ASSUME NEW m, NEW n, FitsIn(m, n), Tiled(m, n), NEW p0 \in BlocksOf(m),
         NEW k \in Nat, k >= 1, k < m[p0].size, NEW b, b = p0 + m[p0].size - k, b \in Units,
         NEW l, l[p0].size = m[p0].size - k, l[b].size = k,
         \A u \in Units \ {p0, b} : l[u].size = m[u].size
  PROVE  /\ b \notin BlocksOf(m) /\ b # p0
         /\ BlocksOf(l) = BlocksOf(m) \cup {b}
         /\ Tiled(l, n)
<1>1. /\ p0 \in Units /\ p0 \in Nat /\ m[p0].size \in Nat /\ b \in Nat /\ p0 < b
      /\ l[p0].size + l[b].size = m[p0].size /\ b = p0 + l[p0].size
      /\ b + l[b].size = p0 + m[p0].size
  BY BlockShape
<1>2. b \notin BlocksOf(m)
  <2> SUFFICES ASSUME b \in BlocksOf(m) PROVE FALSE
    OBVIOUS
  <2>1. p0 + m[p0].size <= b
    BY <1>1 DEF Tiled, Apart
  <2>2. QED
    BY <1>1, <2>1
<1>3. BlocksOf(l) = BlocksOf(m) \cup {b}
  <2>1. l[b].size # Junk /\ l[p0].size # Junk
    BY <1>1, JunkTyped
  <2>2. \A u \in Units : l[u].size # Junk <=> m[u].size # Junk \/ u = b
    BY <1>1, <2>1 DEF BlocksOf
  <2>3. QED
    BY <2>2 DEF BlocksOf
<1>4. \A u \in BlocksOf(m) : u # p0 => u # b /\ l[u].size = m[u].size /\ u \in Nat /\ m[u].size \in Nat
  BY <1>2, BlockShape DEF BlocksOf
<1>5. Apart(l)
  <2> SUFFICES ASSUME NEW u \in BlocksOf(l), NEW v \in BlocksOf(l), u < v
               PROVE  u + l[u].size <= v
    BY DEF Apart
  <2>1. CASE u \in BlocksOf(m) /\ v \in BlocksOf(m)
    <3>1. u + m[u].size <= v /\ u \in Nat /\ v \in Nat /\ m[u].size \in Nat
      BY <2>1, BlockShape DEF Tiled, Apart
    <3>2. CASE u = p0
      BY <1>1, <3>1, <3>2
    <3>3. CASE u # p0
      BY <1>4, <2>1, <3>1, <3>3
    <3>4. QED
      BY <3>2, <3>3
  <2>2. CASE u = b
    <3>1. v \in BlocksOf(m) /\ v # p0 /\ p0 < v /\ v \in Nat
      BY <1>1, <1>3, <1>4, <2>2, BlockShape
    <3>2. p0 + m[p0].size <= v
      BY <3>1 DEF Tiled, Apart
    <3>3. QED
      BY <1>1, <2>2, <3>2
  <2>3. CASE v = b /\ u # b
    <3>1. u \in BlocksOf(m) /\ u \in Nat
      BY <1>3, <2>3, BlockShape
    <3>2. CASE u = p0
      BY <1>1, <2>3, <3>2
    <3>3. CASE u # p0
      <4>1. ~ (p0 < u)
        <5> SUFFICES ASSUME p0 < u PROVE FALSE
          OBVIOUS
        <5>1. p0 + m[p0].size <= u
          BY <3>1 DEF Tiled, Apart
        <5>2. QED
          BY <1>1, <2>3, <3>1, <5>1
      <4>2. u < p0
        BY <1>1, <3>1, <3>3, <4>1
      <4>3. u + m[u].size <= p0
        BY <3>1, <4>2 DEF Tiled, Apart
      <4>4. QED
        BY <1>1, <1>4, <2>3, <3>1, <3>3, <4>3
    <3>4. QED
      BY <3>2, <3>3
  <2>4. QED
    BY <1>3, <2>1, <2>2, <2>3
<1>6. Filled(l, n)
  <2> SUFFICES ASSUME NEW x \in 0 .. n - 1 PROVE \E u \in BlocksOf(l) : Covers(u, l[u].size, x)
    BY DEF Filled
  <2>1. PICK u \in BlocksOf(m) : Covers(u, m[u].size, x)
    BY DEF Tiled, Filled
  <2>2. CASE u = p0
    <3>1. Covers(p0, l[p0].size, x) \/ Covers(b, l[b].size, x)
      BY <1>1, <2>1, <2>2 DEF Covers
    <3>2. QED
      BY <1>3, <3>1
  <2>3. CASE u # p0
    BY <1>3, <1>4, <2>1, <2>3
  <2>4. QED
    BY <2>2, <2>3
<1>7. QED
  BY <1>1, <1>2, <1>3, <1>5, <1>6 DEF Tiled

(* Two blocks that touch become one. *)
LEMMA JoinTiled ==
  ASSUME NEW m, NEW n, FitsIn(m, n), Tiled(m, n), NEW p0 \in BlocksOf(m), NEW a \in BlocksOf(m),
         p0 + m[p0].size = a,
         NEW l, l[p0].size = m[p0].size + m[a].size, l[a].size = Junk,
         \A u \in Units \ {p0, a} : l[u].size = m[u].size
  PROVE  BlocksOf(l) = BlocksOf(m) \ {a} /\ Tiled(l, n) /\ p0 < a
<1>1. /\ p0 \in Units /\ p0 \in Nat /\ m[p0].size \in Nat /\ a \in Nat /\ a \in Units
      /\ m[a].size \in Nat /\ p0 < a /\ p0 + l[p0].size = a + m[a].size
  BY BlockShape
<1>2. BlocksOf(l) = BlocksOf(m) \ {a}
  <2>1. l[p0].size # Junk
    BY <1>1, JunkTyped
  <2>2. \A u \in Units : l[u].size # Junk <=> m[u].size # Junk /\ u # a
    BY <1>1, <2>1 DEF BlocksOf
  <2>3. QED
    BY <2>2 DEF BlocksOf
<1>3. \A u \in BlocksOf(l) : u \in BlocksOf(m) /\ u # a /\ u \in Nat /\ m[u].size \in Nat
                             /\ (u # p0 => l[u].size = m[u].size)
  BY <1>2, BlockShape DEF BlocksOf
<1>4. Apart(l)
  <2> SUFFICES ASSUME NEW u \in BlocksOf(l), NEW v \in BlocksOf(l), u < v
               PROVE  u + l[u].size <= v
    BY DEF Apart
  <2>1. u + m[u].size <= v
    BY <1>3 DEF Tiled, Apart
  <2>2. CASE u = p0
    <3>1. a < v
      BY <1>1, <1>3, <2>1, <2>2
    <3>2. a + m[a].size <= v
      BY <1>3, <3>1 DEF Tiled, Apart
    <3>3. QED
      BY <1>1, <2>2, <3>2
  <2>3. QED
    BY <1>3, <2>1, <2>2
<1>5. Filled(l, n)
  <2> SUFFICES ASSUME NEW x \in 0 .. n - 1 PROVE \E u \in BlocksOf(l) : Covers(u, l[u].size, x)
    BY DEF Filled
  <2>1. PICK u \in BlocksOf(m) : Covers(u, m[u].size, x)
    BY DEF Tiled, Filled
  <2>2. p0 \in BlocksOf(l)
    BY <1>1, <1>2
  <2>3. CASE u = p0 \/ u = a
    BY <1>1, <2>1, <2>2, <2>3 DEF Covers
  <2>4. CASE u # p0 /\ u # a
    BY <1>2, <1>3, <2>1, <2>4
  <2>5. QED
    BY <2>3, <2>4
<1>6. QED
  BY <1>1, <1>2, <1>4, <1>5 DEF Tiled

(* A block is added behind the last one. *)
LEMMA GrowTiled ==
  ASSUME NEW m, NEW n \in Nat, FitsIn(m, n), Tiled(m, n), NEW k \in Nat, k >= 1, n \in Units,
         NEW l, l[n].size = k, \A u \in Units \ {n} : l[u].size = m[u].size
  PROVE  n \notin BlocksOf(m) /\ BlocksOf(l) = BlocksOf(m) \cup {n} /\ Tiled(l, n + k)
<1>1. \A u \in BlocksOf(m) : u \in Units /\ u \in Nat /\ m[u].size \in Nat /\ u < n /\ u + m[u].size <= n
                             /\ l[u].size = m[u].size
  <2> SUFFICES ASSUME NEW u \in BlocksOf(m)
               PROVE  u \in Units /\ u \in Nat /\ m[u].size \in Nat /\ u < n /\ u + m[u].size <= n
                      /\ l[u].size = m[u].size
    OBVIOUS
  <2>1. u \in Units /\ u \in Nat /\ m[u].size \in Nat /\ u < n /\ u + m[u].size <= n
    BY BlockShape
  <2>2. QED
    BY <2>1
<1>2. n \notin BlocksOf(m)
  BY <1>1
<1>3. BlocksOf(l) = BlocksOf(m) \cup {n}
  <2>1. l[n].size # Junk
    BY JunkTyped
  <2>2. \A u \in Units : l[u].size # Junk <=> m[u].size # Junk \/ u = n
    BY <2>1
  <2>3. QED
    BY <2>2 DEF BlocksOf
<1>4. Apart(l)
  BY <1>1, <1>3 DEF Apart, Tiled
<1>5. Filled(l, n + k)
  <2> DEFINE top == n + k
  <2> SUFFICES ASSUME NEW x \in 0 .. top - 1 PROVE \E u \in BlocksOf(l) : Covers(u, l[u].size, x)
    BY Zenon DEF Filled
  <2>1. CASE x \in 0 .. n - 1
    BY <1>1, <1>3, <2>1 DEF Tiled, Filled
  <2>2. CASE x \notin 0 .. n - 1
    BY <1>3, <2>2 DEF Covers
  <2>3. QED
    BY <2>1, <2>2
<1>6. QED
  BY <1>2, <1>3, <1>4, <1>5 DEF Tiled

-----------------------------------------------------------------------------
(* What changes of the links keep the list in order. *)
LEMMA SameRing ==
  ASSUME NEW F, NEW h, NEW m, NEW l, IsRing(F, h, m), \A f \in F : l[f].next = m[f].next
  PROVE  IsRing(F, h, l)
  BY DEF IsRing

(* Only a block that is alone is its own successor. *)
LEMMA RingOfOne ==
  ASSUME NEW F \in SUBSET Nat, NEW h, NEW m, IsRing(F, h, m), NEW f \in F, m[f].next = f
  PROVE  F = {f} /\ h = f
<1>1. f = h /\ \A g \in F : g <= f
  BY DEF IsRing, Follows
<1>2. \A g \in F : h <= g
  BY DEF IsRing
<1>3. \A g \in F : g = f
  BY <1>1, <1>2
<1>4. QED
  BY <1>1, <1>3

(* A block is taken out behind the one before it. *)
LEMMA RingRemove ==
  ASSUME NEW F \in SUBSET Nat, NEW h, NEW m, NEW l, IsRing(F, h, m), h # NULL,
         NEW a \in F, NEW b \in F, b # h, m[a].next = b,
         l[a].next = m[b].next, \A f \in F \ {a, b} : l[f].next = m[f].next
  PROVE  a < b /\ IsRing(F \ {b}, h, l)
<1>1. a < b /\ \A g \in F : g <= a \/ g >= b
  BY DEF IsRing, Follows
<1>2. h \in F /\ h # b /\ \A f \in F : h <= f
  BY DEF IsRing
<1>3. Follows(F \ {b}, h, a, l[a].next)
  <2>1. Follows(F, h, b, m[b].next)
    BY DEF IsRing
  <2>2. m[b].next # b
    BY RingOfOne
  <2>3. CASE b < m[b].next /\ \A g \in F : g <= b \/ g >= m[b].next
    <3>1. m[b].next \in F \ {b} /\ m[b].next \in Nat /\ a \in Nat /\ b \in Nat
      BY <2>1, <2>2 DEF Follows
    <3>2. ASSUME NEW g \in F \ {b} PROVE g <= a \/ g >= m[b].next
      <4>1. g \in Nat /\ (g <= a \/ g >= b) /\ (g <= b \/ g >= m[b].next)
        BY <1>1, <2>3
      <4>2. QED
        BY <3>1, <4>1
    <3>3. a < m[b].next
      BY <1>1, <2>3, <3>1
    <3>4. QED
      BY <3>1, <3>2, <3>3 DEF Follows
  <2>4. CASE m[b].next = h /\ \A g \in F : g <= b
    <3>1. ASSUME NEW g \in F \ {b} PROVE g <= a
      <4>1. g \in Nat /\ b \in Nat /\ (g <= a \/ g >= b) /\ g <= b
        BY <1>1, <2>4
      <4>2. QED
        BY <4>1
    <3>2. QED
      BY <1>2, <2>4, <3>1 DEF Follows
  <2>5. QED
    BY <2>1, <2>3, <2>4 DEF Follows
<1>4. ASSUME NEW f \in F \ {a, b} PROVE Follows(F \ {b}, h, f, l[f].next)
  <2>1. l[f].next = m[f].next /\ Follows(F, h, f, m[f].next)
    BY DEF IsRing
  <2>2. m[f].next # b
    <3> SUFFICES ASSUME m[f].next = b PROVE FALSE
      OBVIOUS
    <3>1. f < b /\ \A g \in F : g <= f \/ g >= b
      BY <2>1 DEF Follows
    <3>2. (f <= a \/ f >= b) /\ (a <= f \/ a >= b)
      BY <1>1, <3>1
    <3>3. f \in Nat /\ a \in Nat /\ b \in Nat
      OBVIOUS
    <3>4. QED
      BY <1>1, <3>1, <3>2, <3>3
  <2>3. QED
    BY <2>1, <2>2 DEF Follows
<1>5. QED
  BY <1>1, <1>2, <1>3, <1>4 DEF IsRing

(* The last block is the one that leads to head. *)
LEMMA RingLast ==
  ASSUME NEW F \in SUBSET Nat, NEW h, NEW m, IsRing(F, h, m), h # NULL,
         NEW a \in F, m[a].next = h
  PROVE  \A g \in F : g <= a
<1>1. h \in F /\ \A f \in F : h <= f
  BY DEF IsRing
<1>2. Follows(F, h, a, h)
  BY DEF IsRing
<1>3. ~ (a < h)
  BY <1>1
<1>4. QED
  BY <1>2, <1>3 DEF Follows

(* A block n is added behind the last one, a. *)
AddsLast(F, h, m, l, a, n) ==
  /\ F \in SUBSET Nat /\ IsRing(F, h, m) /\ h # NULL /\ a \in F /\ m[a].next = h
  /\ n \in Nat /\ \A f \in F : f < n
  /\ l[a].next = n /\ l[n].next = h /\ \A f \in F \ {a} : l[f].next = m[f].next

LEMMA RingAdd ==
  ASSUME NEW F, NEW h, NEW m, NEW l, NEW a, NEW n, AddsLast(F, h, m, l, a, n)
  PROVE  IsRing(F \cup {n}, h, l)
<1> DEFINE G == F \cup {n}
<1>0. /\ F \in SUBSET Nat /\ IsRing(F, h, m) /\ h # NULL /\ a \in F /\ m[a].next = h
      /\ n \in Nat /\ (\A f \in F : f < n)
      /\ l[a].next = n /\ l[n].next = h /\ \A f \in F \ {a} : l[f].next = m[f].next
  BY DEF AddsLast
<1>1. h \in F /\ \A f \in F : h <= f
  BY <1>0 DEF IsRing
<1>2. \A g \in F : g <= a
  BY <1>0, RingLast
<1>3. \A f \in G : h <= f /\ f <= n
  <2>1. \A f \in F : f \in Nat /\ h <= f /\ f < n
    BY <1>0, <1>1
  <2>2. h \in Nat /\ h < n
    BY <1>0, <1>1, <2>1
  <2>3. QED
    BY <1>0, <2>1, <2>2
<1>4. Follows(G, h, a, l[a].next) /\ Follows(G, h, n, l[n].next)
  <2>1. a < n /\ n # a /\ l[n].next = h /\ l[a].next = n
    BY <1>0
  <2>2. \A g \in G : g <= a \/ g >= n
    BY <1>0, <1>2
  <2>3. QED
    BY <1>0, <1>1, <1>3, <2>1, <2>2 DEF Follows
<1>5. ASSUME NEW f \in F \ {a} PROVE Follows(G, h, f, l[f].next)
  <2>1. l[f].next = m[f].next /\ Follows(F, h, f, m[f].next)
    BY <1>0 DEF IsRing
  <2>2. ~ (\A g \in F : g <= f)
    <3>1. f \in Nat /\ a \in Nat /\ f <= a /\ f # a
      BY <1>0, <1>2
    <3>2. ~ (a <= f)
      BY <3>1
    <3>3. QED
      BY <1>0, <3>2
  <2>3. f < m[f].next /\ (\A g \in F : g <= f \/ g >= m[f].next) /\ m[f].next \in F
    BY <2>1, <2>2 DEF Follows
  <2>4. n >= m[f].next
    BY <1>0, <2>3, m[f].next \in Nat
  <2>5. QED
    BY <2>1, <2>3, <2>4 DEF Follows
<1>6. QED
  BY <1>0, <1>1, <1>3, <1>4, <1>5 DEF IsRing

-----------------------------------------------------------------------------
(* What the loops know of the block they look at. *)
LEMMA LoopShape ==
  ASSUME IInv, ~ broken
  PROVE  /\ FitsIn(mem, HeapEnd) /\ Tiled(mem, HeapEnd) /\ IsRing(Free, head, mem)
         /\ Blocks = BlocksOf(mem) /\ Blocks \subseteq Units /\ Free \subseteq Blocks
         /\ Free \in SUBSET Nat /\ HeapEnd \in Nat /\ NULL \notin Free
         /\ \A b \in DOMAIN live : b \in Blocks /\ live[b] = mem[b].size
         /\ pc # "wild"
         /\ pc = "malloc" => /\ head # NULL /\ head \in Free /\ q \in Free /\ p \in Free
                             /\ mem[q].next = p /\ arg \in Sizes
                             /\ Free = Blocks \ DOMAIN live
         /\ pc = "free" => /\ head # NULL /\ p \in Free
                           /\ arg \in Blocks /\ arg \notin DOMAIN live /\ arg # p
                           /\ Free = (Blocks \ DOMAIN live) \ {arg}
         /\ pc = "idle" => Free = Blocks \ DOMAIN live
         /\ \A f \in Free : mem[f].next \in Free
<1>1. TypeInv /\ ListInv
  BY DEF IInv
<1>2. FitsIn(mem, HeapEnd)
  BY <1>1, TypeInvMem
<1>3. Units \subseteq Nat /\ HeapEnd \in Nat
  BY <1>1, HeapArithmetic, HeapAssumption DEF Units, TypeInv, TypeOK
<1>4. Blocks = BlocksOf(mem) /\ Blocks \subseteq Units /\ Free \subseteq Blocks
  BY DEF Blocks, BlocksOf, Free
<1>5. Free \in SUBSET Nat /\ NULL \notin Free
  BY <1>3, <1>4, JunkTyped
<1>6. head = NULL => Free = {}
  BY <1>1 DEF ListInv, IsRing
<1>7. head # NULL => head \in Free
  BY <1>1 DEF ListInv, IsRing
<1>8. \A f \in Free : mem[f].next \in Free
  BY <1>1 DEF ListInv, IsRing, Follows
<1>9. pc # "free" => Free = Blocks \ DOMAIN live
  BY <1>4 DEF Free
<1>10. pc = "free" => Free = (Blocks \ DOMAIN live) \ {arg}
  BY <1>4 DEF Free
<1>11. QED
  BY <1>1, <1>2, <1>3, <1>4, <1>5, <1>6, <1>7, <1>8, <1>9, <1>10
     DEF ListInv, Held, Locals, TypeInv, ArgTyped
-----------------------------------------------------------------------------
(* Outside the loops only the blocks and the list count. *)
LEMMA IdleInv ==
  ASSUME pc' = "idle", Tiled(mem', HeapEnd'), Held', IsRing(Free', head', mem')
  PROVE  ListInv'
  BY DEF ListInv, Locals, Searched

(* The block b of the memory m goes to the caller of kmalloc. *)
LEMMA GivenShape ==
  ASSUME IInv, ~ broken, pc = "malloc",
         NEW m, FitsIn(m, HeapEnd), Tiled(m, HeapEnd),
         NEW b, b \notin DOMAIN live, BlocksOf(m) = Blocks \cup {b}, b \in Units,
         \A x \in DOMAIN live : m[x].size = mem[x].size,
         NEW n, n = m[b].size, Give(b, n, m), UNCHANGED pages
  PROVE  /\ pc' = "idle" /\ Tiled(mem', HeapEnd') /\ Held'
         /\ Free' = Free \ {b}
         /\ \A u \in Blocks \cup {b} : mem'[u] = m[u]
<1>1. /\ mem' = Scribble(m, b, m[b].size) /\ pc' = "idle"
      /\ live' = [x \in DOMAIN live \cup {b} |-> IF x = b THEN m[b].size ELSE live[x]]
  BY DEF Give, Return
<1>2. /\ BlocksOf(mem') = BlocksOf(m) /\ Tiled(mem', HeapEnd)
      /\ \A u \in BlocksOf(m) : mem'[u] = m[u]
  BY <1>1, GiveTiled
<1>3. HeapEnd' = HeapEnd /\ Blocks' = Blocks \cup {b}
  BY <1>2 DEF HeapEnd, Blocks, BlocksOf
<1>4. \A x \in DOMAIN live : x \in Blocks /\ live[x] = mem[x].size
  BY LoopShape
<1>5. DOMAIN live' = DOMAIN live \cup {b} /\ live'[b] = m[b].size
      /\ \A x \in DOMAIN live : x # b /\ live'[x] = live[x]
  BY <1>1
<1>6. Held'
  <2> SUFFICES ASSUME NEW x \in DOMAIN live' PROVE x \in Blocks' /\ live'[x] = mem'[x].size
    BY <1>1 DEF Held
  <2>1. CASE x = b
    BY <1>2, <1>3, <1>5, <2>1
  <2>2. CASE x # b
    <3>1. x \in DOMAIN live
      BY <1>5, <2>2
    <3>2. mem'[x] = m[x] /\ m[x].size = mem[x].size
      BY <1>2, <1>4, <3>1
    <3>3. QED
      BY <1>3, <1>4, <1>5, <3>1, <3>2
  <2>3. QED
    BY <2>1, <2>2
<1>7. Free' = Free \ {b}
  <2>1. Free = Blocks \ DOMAIN live
    BY LoopShape
  <2>2. Free' = Blocks' \ DOMAIN live'
    BY <1>1 DEF Free
  <2>3. QED
    BY <1>3, <1>5, <2>1, <2>2
<1>8. QED
  BY <1>1, <1>2, <1>3, <1>6, <1>7

LEMMA TakeExactList == ASSUME IInv, TakeExact, ~ broken' PROVE ListInv'
<1> DEFINE m == [mem EXCEPT ![q].next = mem[p].next]
<1>1. /\ pc = "malloc" /\ IsHeader(p) /\ mem[p].size = arg /\ Give(p, arg, m)
      /\ UNCHANGED pages /\ head' = (IF q = p THEN NULL ELSE head)
      /\ ~ broken /\ ~ (p = head /\ q # p)
  BY DEF TakeExact
<1>2. /\ FitsIn(mem, HeapEnd) /\ Tiled(mem, HeapEnd) /\ IsRing(Free, head, mem)
      /\ Blocks = BlocksOf(mem) /\ Blocks \subseteq Units /\ Free \subseteq Blocks
      /\ Free \in SUBSET Nat /\ head # NULL /\ head \in Free /\ q \in Free /\ p \in Free
      /\ mem[q].next = p /\ Free = Blocks \ DOMAIN live /\ mem[p].next \in Free
  BY <1>1, LoopShape
<1>3. mem \in [Units -> Word] /\ q \in Units /\ p \in Units
  BY <1>2 DEF FitsIn
<1>4. /\ m[q].next = mem[p].next /\ \A u \in Units \ {q} : m[u] = mem[u]
      /\ \A u \in Units : m[u].size = mem[u].size
  BY <1>3 DEF Word
<1>5. FitsIn(m, HeapEnd)
  BY <1>2, NextFits
<1> HIDE DEF m
<1>6. BlocksOf(m) = Blocks /\ Tiled(m, HeapEnd)
  BY <1>2, <1>4, SameTiled
<1>7. /\ pc' = "idle" /\ Tiled(mem', HeapEnd') /\ Held' /\ Free' = Free \ {p}
      /\ \A u \in Blocks : mem'[u] = m[u]
  <2>1. BlocksOf(m) = Blocks \cup {p} /\ p \notin DOMAIN live /\ m[p].size = arg
    BY <1>1, <1>2, <1>3, <1>4, <1>6
  <2>2. \A x \in DOMAIN live : m[x].size = mem[x].size
    BY <1>4 DEF IInv, TypeInv, TypeOK
  <2>3. QED
    BY <1>1, <1>3, <1>5, <1>6, <2>1, <2>2, GivenShape
<1>8. IsRing(Free', head', mem')
  <2>1. CASE q = p
    <3>1. Free = {p}
      BY <1>2, <2>1, RingOfOne
    <3>2. Free' = {} /\ head' = NULL
      BY <1>1, <1>7, <2>1, <3>1
    <3>3. QED
      BY <3>2 DEF IsRing
  <2>2. CASE q # p
    <3>1. p # head /\ head' = head
      BY <1>1, <2>2
    <3>2. mem'[q].next = mem[p].next /\ \A f \in Free \ {q, p} : mem'[f].next = mem[f].next
      BY <1>2, <1>4, <1>7
    <3>3. IsRing(Free \ {p}, head, mem')
      BY <1>2, <3>1, <3>2, RingRemove
    <3>4. QED
      BY <1>7, <3>1, <3>3
  <2>3. QED
    BY <2>1, <2>2
<1>9. QED
  BY <1>7, <1>8, IdleInv

LEMMA TakeTailList == ASSUME IInv, TakeTail, ~ broken' PROVE ListInv'
<1> DEFINE b == p + mem[p].size - arg
           m == [mem EXCEPT ![p].size = mem[p].size - arg, ![b].size = arg]
<1>1. TypeInv
  BY DEF IInv
<1>2. /\ pc = "malloc" /\ p \in Blocks /\ p \in Units /\ b \in Units /\ b # p
      /\ arg \in Nat /\ arg >= 1 /\ arg < mem[p].size
      /\ FitsIn(m, HeapEnd)
      /\ m[p].size = mem[p].size - arg /\ m[b].size = arg
      /\ \A u \in Units : m[u].next = mem[u].next
      /\ \A u \in Units \ {p, b} : m[u] = mem[u]
      /\ Give(b, arg, m)
      /\ UNCHANGED <<head, pages, refused, broken>>
  BY <1>1, TailShape
<1>3. b = p + mem[p].size - arg
  OBVIOUS
<1> HIDE DEF m, b
<1>0. ~ broken /\ head' = head /\ pages' = pages
  BY <1>2
<1>4. /\ FitsIn(mem, HeapEnd) /\ Tiled(mem, HeapEnd) /\ IsRing(Free, head, mem)
      /\ Blocks = BlocksOf(mem) /\ Blocks \subseteq Units /\ Free \subseteq Blocks
      /\ \A x \in DOMAIN live : x \in Blocks
      /\ p \in Free /\ Free = Blocks \ DOMAIN live
  BY <1>2, LoopShape
<1>5. b \notin BlocksOf(mem) /\ BlocksOf(m) = BlocksOf(mem) \cup {b} /\ Tiled(m, HeapEnd)
  <2>1. \A u \in Units \ {p, b} : m[u].size = mem[u].size
    BY <1>2
  <2>2. QED
    BY <1>2, <1>3, <1>4, <2>1, SplitTiled
<1>6. /\ pc' = "idle" /\ Tiled(mem', HeapEnd') /\ Held' /\ Free' = Free \ {b}
      /\ \A u \in Blocks \cup {b} : mem'[u] = m[u]
  <2>1. \A x \in DOMAIN live : x # b /\ x # p /\ x \in Units
    BY <1>4, <1>5
  <2>2. \A x \in DOMAIN live : m[x].size = mem[x].size
    BY <1>2, <2>1
  <2>3. b \notin DOMAIN live /\ BlocksOf(m) = Blocks \cup {b}
    BY <1>4, <1>5
  <2>4. QED
    BY <1>2, <1>5, <2>2, <2>3, GivenShape
<1>7. Free' = Free /\ \A f \in Free : mem'[f].next = mem[f].next
  BY <1>2, <1>4, <1>5, <1>6
<1>8. IsRing(Free', head', mem')
  BY <1>2, <1>4, <1>7, SameRing
<1>9. QED
  BY <1>6, <1>8, IdleInv

LEMMA StartMallocList ==
  ASSUME IInv, NEW n \in Sizes, StartMalloc(n), ~ broken' PROVE ListInv'
<1>1. /\ pc = "idle" /\ head # NULL /\ pc' = "malloc" /\ q' = head /\ p' = mem[head].next
      /\ UNCHANGED <<mem, head, pages, live>> /\ ~ broken
  BY DEF StartMalloc
<1>2. ListInv /\ head \in Free /\ mem[head].next \in Free /\ Free \in SUBSET Nat
  BY <1>1, LoopShape DEF IInv, ListInv, IsRing
<1>3. Free' = Free /\ Tiled(mem', HeapEnd') /\ Held' /\ IsRing(Free', head', mem')
  BY <1>1, <1>2 DEF ListInv, Free, Blocks, HeapEnd, Held
<1>4. Locals'
  BY <1>1, <1>2, <1>3 DEF Locals
<1>5. Searched'
  BY <1>1, <1>2, <1>3 DEF Searched
<1>6. QED
  BY <1>3, <1>4, <1>5 DEF ListInv

LEMMA AdvanceList == ASSUME IInv, Advance, ~ broken' PROVE ListInv'
<1>1. /\ pc = "malloc" /\ mem[p].size < arg /\ p # head /\ q' = p /\ p' = mem[p].next
      /\ UNCHANGED <<mem, head, pages, live, pc, arg>> /\ ~ broken
  BY DEF Advance
<1>2. /\ ListInv /\ q \in Free /\ p \in Free /\ mem[q].next = p /\ mem[p].next \in Free
      /\ Free \in SUBSET Nat
  BY <1>1, LoopShape DEF IInv
<1>3. Free' = Free /\ Tiled(mem', HeapEnd') /\ Held' /\ IsRing(Free', head', mem')
  BY <1>1, <1>2 DEF ListInv, Free, Blocks, HeapEnd, Held
<1>4. Locals'
  BY <1>1, <1>2, <1>3 DEF Locals
<1>5. Searched'
  <2> SUFFICES ASSUME NEW f \in Free, head < f, f <= p PROVE mem[f].size < arg
    BY <1>1, <1>3 DEF Searched
  <2>1. q < p /\ \A g \in Free : g <= q \/ g >= p
    BY <1>1, <1>2 DEF ListInv, IsRing, Follows
  <2>2. f <= q \/ f = p
    <3>1. f \in Nat /\ p \in Nat /\ (f <= q \/ f >= p)
      BY <1>2, <2>1
    <3>2. QED
      BY <3>1
  <2>3. QED
    BY <1>1, <1>2, <2>2 DEF ListInv, Searched
<1>6. QED
  BY <1>3, <1>4, <1>5 DEF ListInv

LEMMA GiveUpList == ASSUME IInv, GiveUp, ~ broken' PROVE ListInv'
<1>1. pc = "malloc" /\ pc' = "idle" /\ UNCHANGED <<mem, head, pages, live>> /\ ~ broken
  BY DEF GiveUp, Return
<1>2. ListInv
  BY <1>1 DEF IInv
<1>3. Free' = Free /\ Tiled(mem', HeapEnd') /\ Held' /\ IsRing(Free', head', mem')
  BY <1>1, <1>2 DEF ListInv, Free, Blocks, HeapEnd, Held
<1>4. QED
  BY <1>1, <1>3, IdleInv

LEMMA StartFreeList ==
  ASSUME IInv, NEW b \in DOMAIN live, StartFree(b), ~ broken' PROVE ListInv'
<1>1. /\ pc = "idle" /\ pc' = "free" /\ arg' = b /\ p' = head
      /\ live' = [x \in DOMAIN live \ {b} |-> live[x]]
      /\ UNCHANGED <<mem, head, pages>> /\ ~ broken /\ head # NULL
  BY DEF StartFree
<1>2. ListInv /\ head \in Free /\ b \in Blocks /\ Free = Blocks \ DOMAIN live
  BY <1>1, LoopShape DEF IInv, ListInv, IsRing
<1>3. DOMAIN live' = DOMAIN live \ {b} /\ Blocks' = Blocks
  BY <1>1 DEF Blocks
<1>4. Free' = Free
  BY <1>1, <1>2, <1>3 DEF Free
<1>5. Tiled(mem', HeapEnd') /\ IsRing(Free', head', mem')
  BY <1>1, <1>2, <1>4 DEF ListInv, HeapEnd
<1>6. Held'
  BY <1>1, <1>2, <1>3 DEF ListInv, Held
<1>7. Locals' /\ Searched'
  BY <1>1, <1>2, <1>4 DEF Locals, Searched
<1>8. QED
  BY <1>5, <1>6, <1>7 DEF ListInv

LEMMA SeekList == ASSUME IInv, Seek, ~ broken' PROVE ListInv'
<1>1. /\ pc = "free" /\ p' = mem[p].next
      /\ UNCHANGED <<mem, head, pages, live, pc, arg, q>> /\ ~ broken
  BY DEF Seek
<1>2. ListInv /\ mem[p].next \in Free
  BY <1>1, LoopShape DEF IInv
<1>3. Free' = Free /\ Tiled(mem', HeapEnd') /\ Held' /\ IsRing(Free', head', mem')
  BY <1>1, <1>2 DEF ListInv, Free, Blocks, HeapEnd, Held
<1>4. Locals' /\ Searched'
  BY <1>1, <1>2, <1>3 DEF Locals, Searched
<1>5. QED
  BY <1>3, <1>4 DEF ListInv

LEMMA MergeBelowList == ASSUME IInv, MergeBelow, ~ broken' PROVE ListInv'
<1> DEFINE m == Joined(mem, p, arg, mem[p].next)
           up == mem[p].next
           k == Joined(m, p, up, mem[up].next)
<1>1. TypeInv
  BY DEF IInv
<1>2. /\ pc = "free" /\ p \in Blocks /\ arg \in Blocks /\ p < arg
      /\ p + mem[p].size = arg /\ p \in Units /\ arg \in Units
      /\ m[p].size = mem[p].size + mem[arg].size /\ m[p].next = up /\ m[arg].size = Junk
      /\ \A u \in Units \ {p, arg} : m[u] = mem[u]
      /\ FitsIn(m, HeapEnd)
      /\ \/ mem' = m
         \/ /\ mem' = k /\ up \in BlocksOf(m) /\ p + m[p].size = up /\ p < up /\ up # arg
            /\ k[p].size = m[p].size + m[up].size /\ k[p].next = mem[up].next
            /\ k[up].size = Junk /\ up \in Units
            /\ \A u \in Units \ {p, up} : k[u] = m[u]
      /\ pc' = "idle" /\ UNCHANGED <<head, pages, refused, live, broken>>
  BY <1>1, MergeShape
<1>3. up = mem[p].next
  OBVIOUS
<1> HIDE DEF m, up, k
<1>4. ~ broken /\ HeapEnd' = HeapEnd /\ head' = head /\ live' = live
  BY <1>2 DEF HeapEnd
<1>5. /\ FitsIn(mem, HeapEnd) /\ Tiled(mem, HeapEnd) /\ IsRing(Free, head, mem)
      /\ Blocks = BlocksOf(mem) /\ Free \subseteq Blocks /\ Blocks \subseteq Units
      /\ Free \in SUBSET Nat /\ head # NULL /\ p \in Free /\ arg \notin DOMAIN live
      /\ Free = (Blocks \ DOMAIN live) \ {arg} /\ up \in Free
      /\ \A x \in DOMAIN live : x \in Blocks /\ live[x] = mem[x].size
  BY <1>2, <1>3, <1>4, LoopShape
<1>6. BlocksOf(m) = Blocks \ {arg} /\ Tiled(m, HeapEnd)
  <2>1. \A u \in Units \ {p, arg} : m[u].size = mem[u].size
    BY <1>2
  <2>2. /\ p \in BlocksOf(mem) /\ arg \in BlocksOf(mem) /\ p + mem[p].size = arg
        /\ m[p].size = mem[p].size + mem[arg].size /\ m[arg].size = Junk
    BY <1>2, <1>5
  <2>3. BlocksOf(m) = BlocksOf(mem) \ {arg} /\ Tiled(m, HeapEnd)
    BY <1>5, <2>1, <2>2, JoinTiled
  <2>4. QED
    BY <1>5, <2>3
<1>7. \A x \in DOMAIN live : x \in Units /\ x # p /\ x # arg /\ x # up /\ m[x] = mem[x]
  BY <1>2, <1>5
<1>8. \A f \in Free : m[f].next = mem[f].next
  BY <1>2, <1>3, <1>5
<1>9. CASE mem' = m
  <2>1. Blocks' = Blocks \ {arg}
    BY <1>6, <1>9 DEF Blocks, BlocksOf
  <2>2. Free' = Free
    BY <1>2, <1>4, <1>5, <2>1 DEF Free
  <2>3. Held'
    BY <1>2, <1>4, <1>5, <1>7, <1>9, <2>1 DEF Held
  <2>4. IsRing(Free', head', mem')
    BY <1>4, <1>5, <1>8, <1>9, <2>2, SameRing
  <2>5. QED
    BY <1>2, <1>4, <1>6, <1>9, <2>3, <2>4, IdleInv
<1>10. CASE mem' # m
  <2>1. /\ mem' = k /\ up \in BlocksOf(m) /\ p + m[p].size = up /\ p < up /\ up # arg
        /\ k[p].size = m[p].size + m[up].size /\ k[p].next = mem[up].next
        /\ k[up].size = Junk /\ up \in Units
        /\ \A u \in Units \ {p, up} : k[u] = m[u]
    BY <1>2, <1>10
  <2>2. p \in BlocksOf(m)
    BY <1>2, <1>5, <1>6
  <2>3. BlocksOf(k) = BlocksOf(m) \ {up} /\ Tiled(k, HeapEnd)
    <3>1. \A u \in Units \ {p, up} : k[u].size = m[u].size
      BY <2>1
    <3>2. QED
      BY <1>2, <1>6, <2>1, <2>2, <3>1, JoinTiled
  <2>4. Blocks' = Blocks \ {arg, up}
    BY <1>6, <2>1, <2>3 DEF Blocks, BlocksOf
  <2>5. Free' = Free \ {up}
    BY <1>2, <1>4, <1>5, <2>4 DEF Free
  <2>6. Held'
    <3>1. \A x \in DOMAIN live : mem'[x] = mem[x]
      BY <1>7, <2>1
    <3>2. QED
      BY <1>2, <1>4, <1>5, <1>7, <2>4, <3>1 DEF Held
  <2>7. up # head
    <3>1. head <= p /\ head \in Nat /\ p \in Nat
      BY <1>5 DEF IsRing
    <3>2. QED
      BY <2>1, <3>1
  <2>8. \A f \in Free \ {p, up} : k[f].next = mem[f].next
    BY <1>2, <1>5, <1>8, <2>1
  <2>9. IsRing(Free \ {up}, head, k)
    BY <1>3, <1>5, <2>1, <2>7, <2>8, RingRemove
  <2>10. QED
    BY <1>2, <1>4, <2>1, <2>3, <2>5, <2>6, <2>9, IdleInv
<1>11. QED
  BY <1>9, <1>10

(* expand_region adds a page behind the last block. *)
LEMMA GrownShape ==
  ASSUME IInv, ~ broken, Expands, pc # "free", pc' = "malloc",
         NEW m, FitsIn(m, HeapEnd), \A u \in Units : m[u].size = mem[u].size,
         NEW v, mem' = [m EXCEPT ![NewBlock] = [size |-> PageUnits, next |-> v]], UNCHANGED live
  PROVE  /\ NewBlock \in Units /\ NewBlock \in Nat /\ \A f \in Free : f < NewBlock
         /\ mem'[NewBlock].next = v /\ \A u \in Blocks : u # NewBlock /\ mem'[u] = m[u]
         /\ Free' = Free \cup {NewBlock}
         /\ Tiled(mem', HeapEnd') /\ Held'
<1>1. TypeInv
  BY DEF IInv
<1>2. /\ NewBlock \in Units /\ NewBlock = HeapEnd /\ HeapEnd \in Nat /\ HeapEnd' = HeapEnd + PageUnits
      /\ PageUnits \in Nat /\ PageUnits >= 1
  BY <1>1, NewBlockTyped
<1>3. /\ FitsIn(mem, HeapEnd) /\ Tiled(mem, HeapEnd) /\ Blocks = BlocksOf(mem)
      /\ Free \subseteq Blocks /\ Blocks \subseteq Units
      /\ \A b \in DOMAIN live : b \in Blocks /\ live[b] = mem[b].size
      /\ Free = Blocks \ DOMAIN live
  BY LoopShape DEF IInv, TypeInv, TypeOK
<1>4. /\ mem'[NewBlock].size = PageUnits /\ mem'[NewBlock].next = v
      /\ \A u \in Units \ {NewBlock} : mem'[u] = m[u]
  BY <1>2 DEF FitsIn
<1>5. BlocksOf(m) = Blocks /\ Tiled(m, HeapEnd)
  BY <1>3, SameTiled
<1>6. HeapEnd \notin BlocksOf(m) /\ BlocksOf(mem') = BlocksOf(m) \cup {HeapEnd} /\ Tiled(mem', HeapEnd + PageUnits)
  <2>1. \A u \in Units \ {HeapEnd} : mem'[u].size = m[u].size
    BY <1>2, <1>4
  <2>2. mem'[HeapEnd].size = PageUnits /\ HeapEnd \in Units
    BY <1>2, <1>4
  <2> DEFINE l == mem'
             n == HeapEnd
  <2>3. /\ n \in Nat /\ n \in Units /\ PageUnits \in Nat /\ PageUnits >= 1
        /\ FitsIn(m, n) /\ Tiled(m, n) /\ l[n].size = PageUnits
        /\ \A u \in Units \ {n} : l[u].size = m[u].size
    BY <1>2, <1>5, <2>1, <2>2
  <2> HIDE DEF l, n
  <2>4. n \notin BlocksOf(m) /\ BlocksOf(l) = BlocksOf(m) \cup {n} /\ Tiled(l, n + PageUnits)
    BY <2>3, GrowTiled
  <2>5. QED
    BY <2>4 DEF l, n
<1>7. \A u \in Blocks : u # NewBlock /\ mem'[u] = m[u]
  BY <1>2, <1>3, <1>4, <1>5, <1>6
<1>8. \A f \in Free : f < NewBlock
  <2> SUFFICES ASSUME NEW f \in Free PROVE f < HeapEnd
    BY <1>2
  <2>1. f \in Nat /\ mem[f].size \in Nat /\ mem[f].size >= 1 /\ f + mem[f].size <= HeapEnd
    BY <1>3, BlockShape
  <2>2. QED
    BY <1>2, <2>1
<1>9. Blocks' = Blocks \cup {NewBlock}
  BY <1>2, <1>5, <1>6 DEF Blocks, BlocksOf
<1>10. Free' = Free \cup {NewBlock}
  <2>1. NewBlock \notin DOMAIN live
    BY <1>3, <1>7
  <2>2. QED
    BY <1>3, <1>9, <2>1 DEF Free
<1>11. Held'
  BY <1>3, <1>7, <1>9 DEF Held
<1>12. QED
  BY <1>2, <1>4, <1>6, <1>7, <1>8, <1>10, <1>11

LEMMA StartMallocEmptyList ==
  ASSUME IInv, NEW n \in Sizes, StartMallocEmpty(n), ~ broken' PROVE ListInv'
<1>1. /\ pc = "idle" /\ head = NULL /\ Expands /\ pc' = "malloc" /\ arg' = n
      /\ head' = NewBlock /\ q' = NewBlock /\ p' = NewBlock
      /\ mem' = [mem EXCEPT ![NewBlock] = [size |-> PageUnits, next |-> NewBlock]]
      /\ UNCHANGED live /\ ~ broken
  BY DEF StartMallocEmpty
<1>2. FitsIn(mem, HeapEnd) /\ Free = {}
  BY <1>1, LoopShape DEF IsRing
<1>3. /\ NewBlock \in Units /\ NewBlock \in Nat /\ mem'[NewBlock].next = NewBlock
      /\ Free' = Free \cup {NewBlock} /\ Tiled(mem', HeapEnd') /\ Held'
  BY <1>1, <1>2, GrownShape
<1>4. Free' = {NewBlock} /\ NewBlock # NULL
  BY <1>2, <1>3, JunkTyped
<1>5. IsRing(Free', head', mem')
  BY <1>1, <1>3, <1>4 DEF IsRing, Follows
<1>6. Locals' /\ Searched'
  BY <1>1, <1>3, <1>4 DEF Locals, Searched
<1>7. QED
  BY <1>3, <1>5, <1>6 DEF ListInv

LEMMA ExtendList == ASSUME IInv, Extend, ~ broken' PROVE ListInv'
<1> DEFINE l == [mem EXCEPT ![q].next = NewBlock]
<1>1. /\ pc = "malloc" /\ p = head /\ Expands
      /\ mem' = [l EXCEPT ![NewBlock] = [size |-> PageUnits, next |-> p]]
      /\ q' = p /\ p' = mem'[p].next
      /\ UNCHANGED <<head, live, pc, arg>> /\ ~ broken
  BY DEF Extend
<1>2. /\ FitsIn(mem, HeapEnd) /\ IsRing(Free, head, mem) /\ Free \subseteq Blocks
      /\ Blocks \subseteq Units /\ Free \in SUBSET Nat /\ head # NULL /\ q \in Free /\ p \in Free
      /\ mem[q].next = p /\ mem[p].next \in Free
  BY <1>1, LoopShape
<1>3. NewBlock \in Units
  BY <1>1, NewBlockTyped DEF IInv
<1>4. /\ l[q].next = NewBlock /\ \A u \in Units \ {q} : l[u] = mem[u]
      /\ \A u \in Units : l[u].size = mem[u].size
  <2>1. mem \in [Units -> Word] /\ q \in Units
    BY <1>2 DEF FitsIn
  <2>2. QED
    BY <2>1 DEF Word
<1>5. FitsIn(l, HeapEnd)
  BY <1>2, <1>3, NextFits
<1> HIDE DEF l
<1>6. /\ NewBlock \in Nat /\ \A f \in Free : f < NewBlock
      /\ mem'[NewBlock].next = p /\ \A u \in Blocks : u # NewBlock /\ mem'[u] = l[u]
      /\ Free' = Free \cup {NewBlock} /\ Tiled(mem', HeapEnd') /\ Held'
  <2>1. pc # "free" /\ pc' = "malloc" /\ live' = live
    BY <1>1
  <2>2. QED
    BY <1>1, <1>4, <1>5, <2>1, GrownShape
<1>7. mem'[q].next = NewBlock /\ \A f \in Free \ {q} : mem'[f].next = mem[f].next
  BY <1>2, <1>4, <1>6
<1>8. IsRing(Free', head', mem')
  <2> DEFINE k == mem'
             n == NewBlock
             G == Free'
  <2>1. AddsLast(Free, head, mem, k, q, n)
    BY <1>1, <1>2, <1>6, <1>7 DEF AddsLast
  <2>2. G = Free \cup {n}
    BY <1>6
  <2> HIDE DEF k, n, G
  <2>3. IsRing(G, head, k)
    BY <2>1, <2>2, RingAdd
  <2>4. QED
    BY <1>1, <2>3 DEF k, G
<1>9. Locals'
  <2>1. mem'[p].next \in Free'
    BY <1>2, <1>6, <1>7
  <2>2. QED
    BY <1>1, <1>2, <1>6, <2>1 DEF Locals
<1>10. Searched'
  <2> SUFFICES ASSUME NEW f \in Free', head < f, f <= head PROVE FALSE
    BY <1>1 DEF Searched
  <2>1. f \in Nat /\ head \in Nat
    BY <1>1, <1>2, <1>6
  <2>2. QED
    BY <2>1
<1>11. QED
  BY <1>6, <1>8, <1>9, <1>10 DEF ListInv

(* The steps that are left: marked, or not possible while the list is whole. *)
LEMMA MarkedList ==
  /\ \A n \in Sizes : StartMallocNull(n) => broken'
  /\ LinkFreed => broken'
  BY DEF StartMallocNull, LinkFreed

LEMMA NoWildList == ASSUME IInv, ~ broken, GoWild PROVE FALSE
<1>1. ASSUME NEW f \in Free PROVE IsHeader(f)
  <2>1. /\ FitsIn(mem, HeapEnd) /\ f \in BlocksOf(mem) /\ mem[f].next \in Nat /\ HeapEnd \in Nat
    BY LoopShape
  <2>2. f \in Nat /\ mem[f].size \in Nat /\ mem[f].size >= 1 /\ f + mem[f].size <= HeapEnd
    BY <2>1, BlockShape
  <2>3. f \in 0 .. HeapEnd - 1 /\ mem[f].size # Junk /\ mem[f].next # Junk
    BY <2>1, <2>2, JunkTyped
  <2>4. QED
    BY <2>3 DEF IsHeader, HeapEnd
<1>2. pc = "malloc" \/ pc = "free" => p \in Free
  BY LoopShape
<1>3. pc = "free" => mem[arg].size # Junk
  BY LoopShape DEF Blocks
<1>4. QED
  BY <1>1, <1>2, <1>3 DEF GoWild

LEMMA StutterList == ASSUME ListInv, UNCHANGED vars PROVE ListInv'
<1>1. UNCHANGED <<mem, head, pages, live, pc, arg, q, p>>
  BY DEF vars
<1>2. Free' = Free /\ Blocks' = Blocks /\ HeapEnd' = HeapEnd
  BY <1>1 DEF Free, Blocks, HeapEnd
<1>3. QED
  BY <1>1, <1>2 DEF ListInv, Held, Locals, Searched

LEMMA InitList == Init => ListInv
<1> SUFFICES ASSUME Init PROVE ListInv
  OBVIOUS
<1>1. /\ pages = 1 /\ head = 0 /\ pc = "idle" /\ DOMAIN live = {}
  BY DEF Init
<1>2. HeapEnd = PageUnits /\ 0 \in Units /\ PageUnits \in Nat /\ PageUnits >= 1
  BY <1>1, HeapArithmetic, HeapAssumption DEF HeapEnd, Units
<1>3. mem[0] = [size |-> PageUnits, next |-> 0] /\ \A u \in Units \ {0} : mem[u] = JunkWord
  BY <1>2 DEF Init
<1>4. \A u \in Units : mem[u].size # Junk <=> u = 0
  BY <1>2, <1>3, JunkTyped
<1>5. Blocks = {0} /\ BlocksOf(mem) = {0}
  BY <1>2, <1>4 DEF Blocks, BlocksOf
<1>6. Free = {0}
  BY <1>1, <1>5 DEF Free
<1>7. Tiled(mem, HeapEnd)
  BY <1>2, <1>3, <1>5 DEF Tiled, Apart, Filled, Covers
<1>8. IsRing(Free, head, mem)
  BY <1>1, <1>3, <1>6, JunkTyped DEF IsRing, Follows
<1>9. QED
  BY <1>1, <1>7, <1>8 DEF ListInv, Held, Locals, Searched

LEMMA NextList == ASSUME IInv, [Next]_vars, ~ broken' PROVE ListInv'
<1>1. ~ broken
  BY DEF Next, Turn, StartMalloc, StartMallocEmpty, StartMallocNull, StartFree, TakeExact,
         TakeTail, Advance, Extend, GiveUp, Seek, MergeBelow, LinkFreed, GoWild, vars
<1>2. ListInv
  BY <1>1 DEF IInv
<1>3. QED
  BY <1>1, <1>2, StartMallocList, StartMallocEmptyList, StartFreeList, TakeExactList, TakeTailList,
     AdvanceList, ExtendList, GiveUpList, SeekList, MergeBelowList, MarkedList, NoWildList,
     StutterList
     DEF Next, Turn

LEMMA AlwaysIInv == Spec => []IInv
<1>1. Init => IInv
  BY InitTypeInv, InitList DEF IInv
<1>2. IInv /\ [Next]_vars => IInv'
  <2> SUFFICES ASSUME IInv, [Next]_vars PROVE IInv'
    OBVIOUS
  <2>1. TypeInv'
    BY NextTypeInv DEF IInv
  <2>2. ~ broken' => ListInv'
    BY NextList
  <2>3. QED
    BY <2>1, <2>2 DEF IInv
<1>3. QED
  BY <1>1, <1>2, PTL DEF Spec

(***************************************************************************)
(* The loops of kmalloc and kfree follow pointers to headers only, until a *)
(* marked step.                                                            *)
(***************************************************************************)
THEOREM PointersLeadToHeaders == Spec => []FollowsHeaders
<1>1. IInv => FollowsHeaders
  BY DEF IInv, ListInv, Locals, FollowsHeaders
<1>2. QED
  BY <1>1, AlwaysIInv, PTL

-----------------------------------------------------------------------------
(* Induction: a set of numbers that is not empty has a smallest one. *)
Below == {ab \in Nat \X Nat : ab[1] < ab[2]}

LEMMA Smallest ==
  ASSUME NEW S \in SUBSET Nat, S # {}
  PROVE  \E s \in S : \A t \in S : s <= t
<1>1. IsWellFoundedOn(Below, Nat)
  BY NatLessThanWellFounded DEF OpToRel, Below
<1>2. PICK s \in S : \A t \in S : ~ (<<t, s>> \in Below)
  BY <1>1, WFMin, Zenon
<1>3. \A t \in S : ~ (t < s)
  BY <1>2 DEF Below
<1>4. QED
  BY <1>3

(* The steps of a walk from h along the links of m, up to the n-th. *)
IsWalk(w, n, h, m) == w = [k \in 0 .. n |-> IF k = 0 THEN h ELSE m[w[k - 1]].next]

LEMMA WalkExists ==
  ASSUME NEW h, NEW m
  PROVE  \A n \in Nat : \E w : IsWalk(w, n, h, m)
<1> DEFINE S == {n \in Nat : ~ \E w : IsWalk(w, n, h, m)}
<1> SUFFICES ASSUME S # {} PROVE FALSE
  OBVIOUS
<1>1. PICK n \in S : \A t \in S : n <= t
  BY Smallest
<1>2. n # 0
  <2>1. IsWalk([k \in 0 .. 0 |-> h], 0, h, m)
    BY DEF IsWalk
  <2>2. QED
    BY <2>1
<1>3. n - 1 \in Nat /\ n - 1 \notin S
  BY <1>1, <1>2
<1>4. PICK w : IsWalk(w, n - 1, h, m)
  BY <1>3
<1> DEFINE v == [k \in 0 .. n |-> IF k = 0 THEN h ELSE m[w[k - 1]].next]
<1>5. \A k \in 0 .. n - 1 : w[k] = v[k]
  <2>1. \A k \in 0 .. n - 1 : w[k] = IF k = 0 THEN h ELSE m[w[k - 1]].next
    BY <1>4 DEF IsWalk
  <2>2. \A k \in 0 .. n - 1 : k \in 0 .. n
    BY <1>3
  <2>3. QED
    BY <2>1, <2>2
<1>6. \A k \in 0 .. n : k # 0 => k - 1 \in 0 .. n - 1
  BY <1>3
<1>7. v = [k \in 0 .. n |-> IF k = 0 THEN h ELSE m[v[k - 1]].next]
  <2>1. \A k \in 0 .. n : (IF k = 0 THEN h ELSE m[w[k - 1]].next) = (IF k = 0 THEN h ELSE m[v[k - 1]].next)
    BY <1>5, <1>6
  <2> HIDE DEF v
  <2>2. QED
    BY <2>1 DEF v
<1>8. IsWalk(v, n, h, m)
  BY <1>7 DEF IsWalk
<1>9. QED
  BY <1>1, <1>8

LEMMA WalkStays ==
  ASSUME NEW n \in Nat, NEW h, NEW m, NEW w, IsWalk(w, n, h, m),
         NEW F, h \in F, \A f \in F : m[f].next \in F
  PROVE  \A k \in 0 .. n : w[k] \in F
<1> DEFINE S == {k \in 0 .. n : w[k] \notin F}
<1> SUFFICES ASSUME S # {} PROVE FALSE
  OBVIOUS
<1>1. S \in SUBSET Nat
  OBVIOUS
<1>2. PICK k \in S : \A t \in S : k <= t
  BY <1>1, Smallest
<1>3. w[k] = IF k = 0 THEN h ELSE m[w[k - 1]].next
  BY <1>2 DEF IsWalk
<1>4. k # 0
  BY <1>2, <1>3
<1>5. k - 1 \in 0 .. n /\ k - 1 \notin S
  BY <1>2, <1>4
<1>6. QED
  BY <1>2, <1>3, <1>4, <1>5

(* Every block of the list but the first has one just below, that leads to it. *)
LEMMA Predecessor ==
  ASSUME NEW F \in SUBSET Nat, NEW h, NEW m, IsRing(F, h, m), h # NULL,
         NEW f \in F, f # h
  PROVE  \E g \in F : g < f /\ m[g].next = f
<1>1. h \in F /\ h < f
  <2>1. h \in F /\ h <= f
    BY DEF IsRing
  <2>2. h \in Nat /\ f \in Nat
    BY <2>1
  <2>3. QED
    BY <2>1, <2>2
<1> DEFINE S == {d \in Nat : d >= 1 /\ f - d \in F}
<1>2. f - h \in S
  <2>1. h \in Nat /\ f \in Nat /\ f - (f - h) = h
    BY <1>1
  <2>2. f - h \in Nat /\ f - h >= 1
    BY <1>1, <2>1
  <2>3. QED
    BY <1>1, <2>1, <2>2
<1>3. PICK d \in S : \A t \in S : d <= t
  <2>1. S \in SUBSET Nat /\ S # {}
    BY <1>2
  <2> HIDE DEF S
  <2>2. QED
    BY <2>1, Smallest
<1> DEFINE g == f - d
<1>4. g \in F /\ g \in Nat /\ g < f
  BY <1>3
<1>5. \A x \in F : x < f => x <= g
  <2> SUFFICES ASSUME NEW x \in F, x < f PROVE x <= g
    OBVIOUS
  <2>1. x \in Nat /\ f \in Nat /\ d \in Nat /\ f - (f - x) = x
    OBVIOUS
  <2>2. f - x \in S
    BY <2>1
  <2>3. d <= f - x
    BY <1>3, <2>2
  <2>4. QED
    BY <2>1, <2>3
<1> HIDE DEF g
<1>6. Follows(F, h, g, m[g].next)
  BY <1>4 DEF IsRing
<1>7. ~ (f <= g)
  BY <1>4
<1>8. g < m[g].next /\ m[g].next \in F /\ f >= m[g].next
  BY <1>4, <1>6, <1>7 DEF Follows
<1>9. ~ (m[g].next < f)
  <2> SUFFICES ASSUME m[g].next < f PROVE FALSE
    OBVIOUS
  <2>1. m[g].next <= g /\ m[g].next \in Nat
    BY <1>5, <1>8
  <2>2. QED
    BY <1>4, <1>8, <2>1
<1>10. m[g].next = f
  <2>1. m[g].next \in Nat /\ f \in Nat
    BY <1>8
  <2>2. QED
    BY <1>8, <1>9, <2>1
<1>11. QED
  BY <1>4, <1>10

(* A walk along a list meets the block f after at most f steps. *)
LEMMA WalkMeetsAll ==
  ASSUME NEW n \in Nat, NEW F \in SUBSET Nat, \A f \in F : f <= n,
         NEW h, NEW m, IsRing(F, h, m), h # NULL, NEW w, IsWalk(w, n, h, m)
  PROVE  /\ \A k \in 0 .. n : w[k] \in F
         /\ \A f \in F : \E k \in 0 .. n : w[k] = f
<1>1. F \in SUBSET Nat /\ h \in F /\ \A f \in F : m[f].next \in F
  BY DEF IsRing, Follows
<1>2. \A k \in 0 .. n : w[k] = IF k = 0 THEN h ELSE m[w[k - 1]].next
  BY DEF IsWalk
<1>3. \A k \in 0 .. n : w[k] \in F
  BY <1>1, WalkStays
<1> DEFINE S == {f \in F : ~ \E k \in 0 .. f : w[k] = f}
<1>4. S = {}
  <2> SUFFICES ASSUME S # {} PROVE FALSE
    OBVIOUS
  <2>1. S \in SUBSET Nat
    BY <1>1
  <2>2. PICK f \in S : \A t \in S : f <= t
    BY <2>1, Smallest
  <2>3. f \in F /\ f \in Nat /\ f <= n /\ ~ \E k \in 0 .. f : w[k] = f
    <3>1. f \in F /\ ~ \E k \in 0 .. f : w[k] = f
      BY <2>2
    <3>2. f \in Nat /\ f <= n
      BY <3>1
    <3>3. QED
      BY <3>1, <3>2
  <2>4. f # h
    <3>1. w[0] = h /\ 0 \in 0 .. f
      BY <1>2, <2>3
    <3>2. QED
      BY <2>3, <3>1
  <2>5. PICK g \in F : g < f /\ m[g].next = f
    BY <1>1, <2>3, <2>4, Predecessor
  <2>6. g \notin S /\ g \in Nat
    <3>1. g \in Nat /\ ~ (f <= g)
      <4>1. g \in Nat
        BY <1>1, <2>5
      <4> HIDE DEF S
      <4>2. QED
        BY <2>3, <2>5, <4>1
    <3>2. QED
      BY <2>2, <3>1
  <2>7. PICK k \in 0 .. g : w[k] = g
    BY <2>6
  <2>8. k + 1 \in 0 .. f /\ k + 1 \in 0 .. n /\ k + 1 # 0 /\ (k + 1) - 1 = k
    BY <2>3, <2>5, <2>6, <2>7
  <2>9. w[k + 1] = f
    BY <1>2, <2>5, <2>7, <2>8
  <2>10. QED
    BY <2>3, <2>8, <2>9
<1>5. \A f \in F : \E k \in 0 .. n : w[k] = f
  <2> SUFFICES ASSUME NEW f \in F PROVE \E k \in 0 .. n : w[k] = f
    OBVIOUS
  <2>1. PICK k \in 0 .. f : w[k] = f
    BY <1>4
  <2>2. k \in 0 .. n
    OBVIOUS
  <2>3. QED
    BY <2>1, <2>2
<1>6. QED
  BY <1>3, <1>5

LEMMA WalkMeetsFree == IInv => VisitsFree
<1> SUFFICES ASSUME IInv, ~ broken, head # NULL PROVE Visited = Free
  BY DEF VisitsFree
<1> DEFINE top == MaxPages * PageUnits
           w[k \in 0 .. top] == IF k = 0 THEN head ELSE mem[w[k - 1]].next
<1>1. top \in Nat /\ Units = 0 .. top - 1
  BY HeapArithmetic DEF Units, IInv, TypeInv, TypeOK
<1>2. IsRing(Free, head, mem) /\ Free \subseteq Units
  BY LoopShape
<1> HIDE DEF top
<1>3. Free \in SUBSET (0 .. top)
  BY <1>1, <1>2
<1>4. \E v : IsWalk(v, top, head, mem)
  BY <1>1, WalkExists
<1>5. IsWalk(w, top, head, mem)
  BY <1>4 DEF IsWalk
<1>6. Visited = {w[k] : k \in 0 .. top}
  BY DEF Visited, top
<1> HIDE DEF w
<1>7. /\ \A k \in 0 .. top : w[k] \in Free
      /\ \A f \in Free : \E k \in 0 .. top : w[k] = f
  <2> DEFINE F == Free
  <2>1. F \in SUBSET Nat /\ (\A f \in F : f <= top) /\ IsRing(F, head, mem) /\ top \in Nat
    BY <1>1, <1>2, <1>3
  <2> HIDE DEF F
  <2>2. /\ \A k \in 0 .. top : w[k] \in F
        /\ \A f \in F : \E k \in 0 .. top : w[k] = f
    BY <1>5, <2>1, WalkMeetsAll
  <2>3. QED
    BY <2>2 DEF F
<1>8. QED
  BY <1>6, <1>7

(* The free blocks of the properties. *)
LEMMA FreeBlocksAreFree == ASSUME IInv, ~ broken PROVE FreeBlocks = Free
<1>1. head = NULL => Free = {}
  BY LoopShape DEF IsRing
<1>2. head # NULL => Visited = Free
  BY WalkMeetsFree DEF VisitsFree
<1>3. QED
  BY <1>1, <1>2 DEF FreeBlocks

(***************************************************************************)
(* Between two calls the free blocks that a walk from head meets and the   *)
(* blocks callers hold tile the heap: no unit of it is given twice, and    *)
(* none is lost.                                                           *)
(***************************************************************************)
THEOREM HeapStaysTiled == Spec => []BlocksTile
<1>1. IInv => BlocksTile
  <2> SUFFICES ASSUME IInv, pc = "idle", ~ broken, NEW x \in 0 .. pages * PageUnits - 1
               PROVE  LET holders == {b \in DOMAIN live : Covers(b, live[b], x)}
                          frees   == {f \in FreeBlocks : Covers(f, mem[f].size, x)}
                      IN  \/ frees = {} /\ \E b \in holders : holders = {b}
                          \/ holders = {} /\ \E f \in frees : frees = {f}
    BY DEF BlocksTile
  <2> DEFINE holders == {b \in DOMAIN live : Covers(b, live[b], x)}
             frees   == {f \in FreeBlocks : Covers(f, mem[f].size, x)}
  <2>1. /\ FitsIn(mem, HeapEnd) /\ Tiled(mem, HeapEnd) /\ Blocks = BlocksOf(mem)
        /\ \A b \in DOMAIN live : b \in Blocks /\ live[b] = mem[b].size
        /\ Free = Blocks \ DOMAIN live /\ FreeBlocks = Free
    BY LoopShape, FreeBlocksAreFree
  <2>2. PICK u \in Blocks : Covers(u, mem[u].size, x)
    BY <2>1 DEF Tiled, Filled, HeapEnd
  <2>3. \A v \in Blocks : Covers(v, mem[v].size, x) => v = u
    <3> SUFFICES ASSUME NEW v \in Blocks, Covers(v, mem[v].size, x), v # u PROVE FALSE
      OBVIOUS
    <3>1. u \in Nat /\ v \in Nat /\ mem[u].size \in Nat /\ mem[v].size \in Nat /\ x \in Int
      BY <2>1, BlockShape, HeapAssumption
    <3>2. u + mem[u].size <= v \/ v + mem[v].size <= u
      BY <2>1, <3>1 DEF Tiled, Apart
    <3>3. QED
      BY <2>2, <3>1, <3>2 DEF Covers
  <2>4. CASE u \in DOMAIN live
    <3>1. holders = {u} /\ frees = {}
      BY <2>1, <2>2, <2>3, <2>4
    <3>2. QED
      BY <3>1
  <2>5. CASE u \notin DOMAIN live
    <3>1. frees = {u} /\ holders = {}
      BY <2>1, <2>2, <2>3, <2>5
    <3>2. QED
      BY <3>1
  <2>6. QED
    BY <2>4, <2>5
<1>2. QED
  BY <1>1, AlwaysIInv, PTL

(***************************************************************************)
(* The list is kept in the order of addresses, with head the lowest block. *)
(***************************************************************************)
THEOREM ListStaysSorted == Spec => []ListSorted
<1>1. IInv => ListSorted
  <2> SUFFICES ASSUME IInv, ~ broken, NEW f \in Free
               PROVE  IF mem[f].next = head THEN \A g \in Free : g <= f
                      ELSE f < mem[f].next /\ \A g \in Free : g <= f \/ g >= mem[f].next
    BY FreeBlocksAreFree DEF ListSorted
  <2>1. IsRing(Free, head, mem) /\ Free \in SUBSET Nat /\ NULL \notin Free
    BY LoopShape
  <2>2. head # NULL
    BY <2>1 DEF IsRing
  <2>3. CASE mem[f].next = head
    BY <2>1, <2>2, <2>3, RingLast
  <2>4. CASE mem[f].next # head
    BY <2>1, <2>4 DEF IsRing, Follows
  <2>5. QED
    BY <2>3, <2>4
<1>2. QED
  BY <1>1, AlwaysIInv, PTL

(***************************************************************************)
(* kmalloc returns NULL only when no free block is large enough.           *)
(***************************************************************************)
THEOREM NullMeansFull == Spec => NullOnlyWhenFull
<1>1. IInv /\ [Next]_vars => [GiveUp /\ ~ broken => \A f \in FreeBlocks : mem[f].size < arg]_vars
  <2> SUFFICES ASSUME IInv, GiveUp, ~ broken, NEW f \in Free PROVE mem[f].size < arg
    BY FreeBlocksAreFree
  <2>1. pc = "malloc" /\ mem[p].size < arg /\ p = head
    BY DEF GiveUp
  <2>2. /\ IsRing(Free, head, mem) /\ Free \in SUBSET Nat /\ head # NULL /\ head \in Free
        /\ q \in Free /\ mem[q].next = p
    BY <2>1, LoopShape
  <2>3. f <= q /\ head <= f
    BY <2>1, <2>2, RingLast DEF IsRing
  <2>4. CASE f = head
    BY <2>1, <2>4
  <2>5. CASE f # head
    <3>1. f \in Nat /\ head \in Nat
      BY <2>2
    <3>2. head < f
      BY <2>3, <2>5, <3>1
    <3>3. QED
      BY <2>1, <2>3, <3>2 DEF IInv, ListInv, Searched
  <2>6. QED
    BY <2>4, <2>5
<1>2. QED
  BY <1>1, AlwaysIInv, PTL DEF Spec, NullOnlyWhenFull

-----------------------------------------------------------------------------
(* The refinement of Allocator. No two blocks share a word, so that a      *)
(* write into a block nobody holds changes none that somebody holds.       *)
Loose(x) == x >= HeapEnd \/ \E f \in Blocks \ DOMAIN live : Covers(f, mem[f].size, x)

LEMMA BlocksApart ==
  ASSUME IInv, ~ broken, NEW f \in Blocks \ DOMAIN live, NEW b \in DOMAIN live
  PROVE  /\ f \in Nat /\ b \in Nat /\ mem[f].size \in Nat /\ live[b] \in Nat
         /\ mem[f].size >= 1 /\ live[b] >= 1
         /\ f + mem[f].size <= b \/ b + live[b] <= f
         /\ f + mem[f].size <= HeapEnd /\ b + live[b] <= HeapEnd
<1>1. /\ FitsIn(mem, HeapEnd) /\ Tiled(mem, HeapEnd) /\ Blocks = BlocksOf(mem)
      /\ b \in Blocks /\ live[b] = mem[b].size
  BY LoopShape
<1>2. /\ f \in Nat /\ mem[f].size \in Nat /\ mem[f].size >= 1 /\ f + mem[f].size <= HeapEnd
  BY <1>1, BlockShape
<1>3. /\ b \in Nat /\ mem[b].size \in Nat /\ mem[b].size >= 1 /\ b + mem[b].size <= HeapEnd
  BY <1>1, BlockShape
<1>4. (f < b => f + mem[f].size <= b) /\ (b < f => b + mem[b].size <= f) /\ f # b
  BY <1>1 DEF Tiled, Apart
<1>5. f < b \/ b < f
  BY <1>2, <1>3, <1>4
<1>6. QED
  BY <1>1, <1>2, <1>3, <1>4, <1>5

LEMMA HeldKept ==
  ASSUME IInv, ~ broken, \A x \in Units : mem'[x] = mem[x] \/ Loose(x)
  PROVE  Promised!Kept
<1> SUFFICES ASSUME NEW b \in DOMAIN live, NEW x \in b .. b + live[b] - 1
             PROVE  mem'[x] = mem[x]
  BY DEF Promised!Kept
<1>1. /\ FitsIn(mem, HeapEnd) /\ Blocks = BlocksOf(mem) /\ HeapEnd \in Nat
      /\ b \in Blocks /\ live[b] = mem[b].size
  BY LoopShape
<1>2. b \in Nat /\ live[b] \in Nat /\ b + live[b] <= HeapEnd
  BY <1>1, BlockShape
<1>3. x \in Nat /\ b <= x /\ x < b + live[b] /\ x < HeapEnd
  BY <1>1, <1>2
<1>4. x \in Units
  <2>1. pages \in 1 .. MaxPages
    BY DEF IInv, TypeInv, TypeOK
  <2>2. HeapEnd <= MaxPages * PageUnits /\ MaxPages * PageUnits \in Nat
    BY <2>1, HeapArithmetic
  <2>3. QED
    BY <1>1, <1>3, <2>2 DEF Units
<1>5. ~ Loose(x)
  <2> SUFFICES ASSUME NEW f \in Blocks \ DOMAIN live, Covers(f, mem[f].size, x) PROVE FALSE
    BY <1>1, <1>3 DEF Loose
  <2>1. /\ f \in Nat /\ mem[f].size \in Nat
        /\ f + mem[f].size <= b \/ b + live[b] <= f
    BY BlocksApart
  <2>2. f <= x /\ x < f + mem[f].size
    BY <1>3, <2>1 DEF Covers
  <2>3. QED
    BY <1>2, <1>3, <2>1, <2>2
<1>6. QED
  BY <1>4, <1>5

(* What a free block covers is loose. *)
LEMMA InsideLoose ==
  ASSUME IInv, ~ broken, NEW f \in Blocks \ DOMAIN live
  PROVE  /\ f \in Nat /\ mem[f].size \in Nat /\ mem[f].size >= 1 /\ f + mem[f].size <= HeapEnd
         /\ Loose(f) /\ \A x \in f .. f + mem[f].size - 1 : Loose(x)
<1>1. FitsIn(mem, HeapEnd) /\ Blocks = BlocksOf(mem)
  BY LoopShape
<1>2. f \in Nat /\ mem[f].size \in Nat /\ mem[f].size >= 1 /\ f + mem[f].size <= HeapEnd
  BY <1>1, BlockShape
<1>3. \A x \in f .. f + mem[f].size - 1 : Loose(x)
  BY DEF Loose, Covers
<1>4. f \in f .. f + mem[f].size - 1
  BY <1>2
<1>5. QED
  BY <1>2, <1>3, <1>4

(* A caller gets the block b of arg words, which lies in a free block f.   *)
LEMMA GiveGrants ==
  ASSUME IInv, ~ broken, pc = "malloc", NEW f \in Blocks \ DOMAIN live, NEW b \in Nat,
         f <= b, arg \in Nat, b + arg <= f + mem[f].size, arg >= 1,
         NEW m, Give(b, arg, m), \A x \in Units : m[x] = mem[x] \/ Loose(x),
         UNCHANGED <<pages, refused>>
  PROVE  Promised!Grant(b) /\ b \in 0 .. HeapEnd - 1
<1>1. /\ f \in Nat /\ mem[f].size \in Nat /\ f + mem[f].size <= HeapEnd
      /\ \A x \in f .. f + mem[f].size - 1 : Loose(x)
  BY InsideLoose
<1>2. /\ mem' = Scribble(m, b, arg) /\ pc' = "idle" /\ arg' = NULL
      /\ live' = [x \in DOMAIN live \cup {b} |-> IF x = b THEN arg ELSE live[x]]
  BY DEF Give, Return
<1>3. HeapEnd \in Nat
  BY LoopShape
<1>4. Promised!Within(b, arg) /\ b \in 0 .. HeapEnd - 1
  BY <1>1, <1>3 DEF Promised!Within, HeapEnd
<1>5. Promised!Clear(b, arg)
  <2> SUFFICES ASSUME NEW x \in DOMAIN live PROVE b + arg <= x \/ x + live[x] <= b
    BY DEF Promised!Clear
  <2>1. x \in Nat /\ live[x] \in Nat /\ (f + mem[f].size <= x \/ x + live[x] <= f)
    BY BlocksApart
  <2>2. QED
    BY <1>1, <2>1
<1>6. \A x \in Units : mem'[x] = mem[x] \/ Loose(x)
  <2> SUFFICES ASSUME NEW x \in Units PROVE mem'[x] = mem[x] \/ Loose(x)
    OBVIOUS
  <2>1. CASE x \in b + 1 .. b + arg - 1
    <3>1. x \in f .. f + mem[f].size - 1
      BY <1>1, <2>1
    <3>2. QED
      BY <1>1, <3>1
  <2>2. CASE x \notin b + 1 .. b + arg - 1
    <3>1. mem'[x] = m[x]
      BY <1>2, <2>2 DEF Scribble
    <3>2. QED
      BY <3>1
  <2>3. QED
    BY <2>1, <2>2
<1>7. Promised!Kept
  BY <1>6, HeldKept
<1>8. QED
  BY <1>2, <1>4, <1>5, <1>7 DEF Promised!Grant

LEMMA TakeExactGrants ==
  ASSUME IInv, TakeExact, ~ broken'
  PROVE  \E b \in 0 .. HeapEnd - 1 : Promised!Grant(b)
<1> DEFINE m == [mem EXCEPT ![q].next = mem[p].next]
<1>1. /\ pc = "malloc" /\ mem[p].size = arg /\ Give(p, arg, m) /\ UNCHANGED <<pages, refused>>
      /\ ~ broken
  BY DEF TakeExact
<1>2. p \in Blocks \ DOMAIN live /\ q \in Blocks \ DOMAIN live
  BY <1>1, LoopShape
<1>3. /\ p \in Nat /\ arg \in Nat /\ arg >= 1 /\ Loose(q)
  BY <1>1, <1>2, InsideLoose
<1>4. \A x \in Units : m[x] = mem[x] \/ Loose(x)
  <2>1. mem \in [Units -> Word]
    BY DEF IInv, TypeInv, TypeOK
  <2>2. \A x \in Units : x # q => m[x] = mem[x]
    BY <2>1
  <2>3. QED
    BY <1>3, <2>2
<1> HIDE DEF m
<1>5. p <= p /\ p + arg <= p + mem[p].size
  BY <1>1, <1>3
<1>6. Promised!Grant(p) /\ p \in 0 .. HeapEnd - 1
  BY <1>1, <1>2, <1>3, <1>4, <1>5, GiveGrants
<1>7. QED
  BY <1>6

LEMMA TakeTailGrants ==
  ASSUME IInv, TakeTail, ~ broken'
  PROVE  \E b \in 0 .. HeapEnd - 1 : Promised!Grant(b)
<1> DEFINE b == p + mem[p].size - arg
           m == [mem EXCEPT ![p].size = mem[p].size - arg, ![b].size = arg]
<1>1. TypeInv
  BY DEF IInv
<1>2. /\ pc = "malloc" /\ p \in Blocks /\ b # p
      /\ arg \in Nat /\ arg >= 1 /\ arg < mem[p].size
      /\ \A u \in Units \ {p, b} : m[u] = mem[u]
      /\ Give(b, arg, m)
      /\ UNCHANGED <<pages, refused, broken>>
  BY <1>1, TailShape
<1>3. b = p + mem[p].size - arg
  OBVIOUS
<1> HIDE DEF m, b
<1>4. ~ broken
  BY <1>2
<1>5. p \in Blocks \ DOMAIN live
  BY <1>2, <1>4, LoopShape
<1>6. /\ p \in Nat /\ mem[p].size \in Nat /\ Loose(p)
      /\ \A x \in p .. p + mem[p].size - 1 : Loose(x)
  BY <1>4, <1>5, InsideLoose
<1>7. /\ b \in Nat /\ p <= b /\ b + arg <= p + mem[p].size
      /\ b \in p .. p + mem[p].size - 1
  BY <1>2, <1>3, <1>6
<1>8. \A x \in Units : m[x] = mem[x] \/ Loose(x)
  BY <1>2, <1>6, <1>7
<1>9. Promised!Grant(b) /\ b \in 0 .. HeapEnd - 1
  BY <1>2, <1>4, <1>5, <1>7, <1>8, GiveGrants
<1>10. QED
  BY <1>9

(* The region grows by a page; what is written is in it or loose. *)
LEMMA ExpandGrows ==
  ASSUME IInv, ~ broken, Expands, UNCHANGED live,
         \A x \in Units : mem'[x] = mem[x] \/ x = NewBlock \/ Loose(x)
  PROVE  Promised!MayGrow
<1>1. /\ NewBlock \in Units /\ NewBlock = HeapEnd /\ HeapEnd \in Nat /\ HeapEnd' = HeapEnd + PageUnits
      /\ PageUnits \in Nat /\ PageUnits >= 1
  BY NewBlockTyped DEF IInv
<1>2. ~ refused /\ refused' = refused /\ (pages * PageUnits)' > pages * PageUnits
  <2>1. ~ refused /\ refused' = refused
    BY DEF Expands
  <2>2. HeapEnd' > HeapEnd
    BY <1>1
  <2>3. QED
    BY <2>1, <2>2 DEF HeapEnd
<1>3. Loose(NewBlock)
  BY <1>1 DEF Loose
<1>4. \A x \in Units : mem'[x] = mem[x] \/ Loose(x)
  BY <1>3
<1>5. Promised!Kept
  BY <1>4, HeldKept
<1>6. QED
  BY <1>2, <1>5 DEF Promised!MayGrow

LEMMA ExtendSearches ==
  ASSUME IInv, Extend, ~ broken'
  PROVE  Promised!Search
<1>1. /\ pc = "malloc" /\ Expands /\ UNCHANGED <<live, pc, arg>> /\ ~ broken
      /\ mem' = [mem EXCEPT ![q].next = NewBlock,
                            ![NewBlock] = [size |-> PageUnits, next |-> p]]
  BY DEF Extend
<1>2. q \in Blocks \ DOMAIN live
  BY <1>1, LoopShape
<1>3. \A x \in Units : mem'[x] = mem[x] \/ x = NewBlock \/ Loose(x)
  <2>1. \A x \in Units \ {q, NewBlock} : mem'[x] = mem[x]
    BY <1>1 DEF IInv, TypeInv, TypeOK
  <2>2. Loose(q)
    BY <1>1, <1>2, InsideLoose
  <2>3. QED
    BY <2>1, <2>2
<1>4. Promised!MayGrow
  BY <1>1, <1>3, ExpandGrows
<1>5. QED
  BY <1>1, <1>4 DEF Promised!Search

LEMMA MergeFrees ==
  ASSUME IInv, MergeBelow, ~ broken'
  PROVE  Promised!Freed
<1> DEFINE m == Joined(mem, p, arg, mem[p].next)
           up == mem[p].next
           k == Joined(m, p, up, mem[up].next)
<1>1. TypeInv
  BY DEF IInv
<1>2. /\ pc = "free"
      /\ \A u \in Units \ {p, arg} : m[u] = mem[u]
      /\ \/ mem' = m
         \/ mem' = k /\ \A u \in Units \ {p, up} : k[u] = m[u]
      /\ pc' = "idle" /\ arg' = NULL /\ UNCHANGED <<head, pages, refused, live, broken>>
  BY <1>1, MergeShape
<1>3. up = mem[p].next
  OBVIOUS
<1> HIDE DEF m, up, k
<1>4. ~ broken /\ (pages * PageUnits)' = pages * PageUnits
  BY <1>2
<1>5. /\ p \in Blocks \ DOMAIN live /\ arg \in Blocks \ DOMAIN live
      /\ up \in Blocks \ DOMAIN live
  BY <1>2, <1>3, <1>4, LoopShape
<1>6. Loose(p) /\ Loose(arg) /\ Loose(up)
  BY <1>4, <1>5, InsideLoose
<1>7. \A x \in Units : mem'[x] = mem[x] \/ Loose(x)
  BY <1>2, <1>6
<1>8. Promised!Kept
  BY <1>4, <1>7, HeldKept
<1>9. QED
  BY <1>2, <1>4, <1>8 DEF Promised!Freed

LEMMA StartsGrowing ==
  ASSUME IInv, NEW n \in Sizes, StartMallocEmpty(n), ~ broken'
  PROVE  Promised!Malloc(n)
<1>1. /\ pc = "idle" /\ pc' = "malloc" /\ arg' = n /\ Expands /\ UNCHANGED live /\ ~ broken
      /\ mem' = [mem EXCEPT ![NewBlock] = [size |-> PageUnits, next |-> NewBlock]]
  BY DEF StartMallocEmpty
<1>2. \A x \in Units : mem'[x] = mem[x] \/ x = NewBlock \/ Loose(x)
  BY <1>1 DEF IInv, TypeInv, TypeOK
<1>3. QED
  BY <1>1, <1>2, ExpandGrows DEF Promised!Malloc

(* The steps that write nothing. *)
LEMMA QuietSteps ==
  ASSUME IInv, ~ broken'
  PROVE  /\ \A n \in Sizes : StartMalloc(n) => Promised!Malloc(n)
         /\ GiveUp => Promised!Deny
         /\ \A b \in DOMAIN live : StartFree(b) => Promised!Free(b)
         /\ Advance \/ Seek => UNCHANGED Promised!avars
<1>1. ASSUME NEW n \in Sizes, StartMalloc(n) PROVE Promised!Malloc(n)
  <2>1. /\ pc = "idle" /\ pc' = "malloc" /\ arg' = n /\ UNCHANGED <<mem, pages, refused, live>>
    BY <1>1 DEF StartMalloc
  <2>2. Promised!MayGrow
    BY <2>1 DEF Promised!MayGrow, Promised!Kept
  <2>3. QED
    BY <2>1, <2>2 DEF Promised!Malloc
<1>2. GiveUp => Promised!Deny
  BY DEF GiveUp, Return, Promised!Deny
<1>3. \A b \in DOMAIN live : StartFree(b) => Promised!Free(b)
  BY DEF StartFree, Promised!Free
<1>4. Advance \/ Seek => UNCHANGED Promised!avars
  BY DEF Advance, Seek, Promised!avars
<1>5. QED
  BY <1>1, <1>2, <1>3, <1>4

LEMMA StepPromised ==
  ASSUME IInv, [Next]_vars
  PROVE  [Promised!Next]_(Promised!avars)
<1>1. CASE broken'
  <2>1. broken' = TRUE
    <3>1. broken' \in BOOLEAN
      BY NextTypeInv DEF IInv, TypeInv, TypeOK
    <3>2. QED
      BY <1>1, <3>1
  <2>2. QED
    BY <2>1 DEF Promised!Next, Promised!Lose
<1>2. CASE ~ broken'
  <2>1. ~ broken
    BY <1>2 DEF Next, Turn, StartMalloc, StartMallocEmpty, StartMallocNull, StartFree, TakeExact,
                TakeTail, Advance, Extend, GiveUp, Seek, MergeBelow, LinkFreed, GoWild, vars
  <2>2. \/ \E n \in Sizes : Promised!Malloc(n)
        \/ Promised!Search
        \/ \E b \in 0 .. pages * PageUnits - 1 : Promised!Grant(b)
        \/ Promised!Deny
        \/ \E b \in DOMAIN live : Promised!Free(b)
        \/ Promised!Freed
        \/ UNCHANGED Promised!avars
    <3>1. CASE UNCHANGED vars
      BY <3>1 DEF vars, Promised!avars
    <3>2. ASSUME NEW n \in Sizes, StartMalloc(n) \/ StartMallocEmpty(n) \/ StartMallocNull(n)
          PROVE  Promised!Malloc(n)
      BY <1>2, <3>2, QuietSteps, StartsGrowing, MarkedList
    <3>3. CASE TakeExact \/ TakeTail
      BY <1>2, <3>3, TakeExactGrants, TakeTailGrants DEF HeapEnd
    <3>4. CASE Extend \/ MergeBelow
      BY <1>2, <3>4, ExtendSearches, MergeFrees
    <3>5. CASE GiveUp \/ Advance \/ Seek \/ \E b \in DOMAIN live : StartFree(b)
      BY <1>2, <3>5, QuietSteps
    <3>6. CASE LinkFreed \/ GoWild
      BY <1>2, <2>1, <3>6, MarkedList, NoWildList
    <3>7. QED
      BY <3>1, <3>2, <3>3, <3>4, <3>5, <3>6 DEF Next, Turn
  <2>3. QED
    BY <1>2, <2>1, <2>2 DEF Promised!Next
<1>3. QED
  BY <1>1, <1>2

(***************************************************************************)
(* Until a marked step kmalloc gives each caller memory of its own, no     *)
(* call writes into what callers hold, and none goes astray.               *)
(***************************************************************************)
THEOREM HeapImplementsAllocator == Spec => ImplementsAllocator
<1>1. Init => Promised!Init
  <2> SUFFICES ASSUME Init PROVE Promised!Init
    OBVIOUS
  <2>1. /\ pages = 1 /\ DOMAIN live = {} /\ pc = "idle" /\ arg = NULL
        /\ refused = FALSE /\ broken = FALSE
    BY DEF Init
  <2>2. pages * PageUnits \in Nat
    BY <2>1, HeapAssumption
  <2>3. QED
    BY <2>1, <2>2 DEF Promised!Init
<1>2. IInv /\ [Next]_vars => [Promised!Next]_(Promised!avars)
  BY StepPromised
<1>3. QED
  BY <1>1, <1>2, AlwaysIInv, PTL DEF Spec, ImplementsAllocator, Promised!Spec

-----------------------------------------------------------------------------
(* That the loops come to an end. kfree looks for the block below arg, and *)
(* has not passed it unless arg goes below the whole list.                 *)
Sought == pc = "free" => p < arg \/ arg < head

SoughtInv == IInv /\ (~ broken => Sought)

(***************************************************************************)
(* A turn of a loop that does not end the call takes it on: kmalloc to a   *)
(* block at a higher address, or round the list and to a larger heap, and  *)
(* kfree to a block at a higher address. The heap has an end, and MaxPages *)
(* bounds its growth, so that every call is over after so many turns.      *)
(***************************************************************************)
TurnsRise ==
  [][ ~ broken' =>
        /\ pc = "malloc" /\ pc' = "malloc" => pages' > pages \/ (pages' = pages /\ q' > q)
        /\ pc = "free" /\ pc' = "free" => p' > p ]_vars

LEMMA SeekRises ==
  ASSUME SoughtInv, Seek, ~ broken'
  PROVE  p' > p /\ Sought'
<1>1. /\ pc = "free" /\ ~ BelongsAfter(p) /\ p' = mem[p].next
      /\ UNCHANGED <<mem, head, pc, arg>> /\ ~ broken
  BY DEF Seek
<1>2. /\ IsRing(Free, head, mem) /\ Free \in SUBSET Nat /\ p \in Free /\ head \in Free
      /\ arg \in Blocks /\ arg \notin Free /\ Blocks \subseteq Units
  <2>1. /\ IsRing(Free, head, mem) /\ Free \in SUBSET Nat /\ p \in Free /\ head # NULL
        /\ arg \in Blocks /\ Blocks \subseteq Units /\ Free = (Blocks \ DOMAIN live) \ {arg}
    BY <1>1, LoopShape DEF SoughtInv
  <2>2. head \in Free
    BY <2>1 DEF IsRing
  <2>3. QED
    BY <2>1, <2>2
<1>3. arg \in Nat
  BY <1>2, HeapAssumption DEF Units
<1> DEFINE n == mem[p].next
<1>4. n \in Free /\ Follows(Free, head, p, n)
  BY <1>2 DEF IsRing, Follows
<1>5. p < arg \/ arg < head
  BY <1>1 DEF SoughtInv, Sought
<1>6. ~ (arg > p /\ arg < n) /\ ~ (p >= n /\ (arg > p \/ arg < n))
  BY <1>1 DEF BelongsAfter
<1> HIDE DEF n
<1>7. n \in Nat /\ p \in Nat /\ head \in Nat /\ arg # n
  BY <1>2, <1>4
<1>8. p < n
  <2>1. CASE n = head
    BY <1>3, <1>5, <1>6, <1>7, <2>1
  <2>2. CASE n # head
    BY <1>4, <2>2 DEF Follows
  <2>3. QED
    BY <2>1, <2>2
<1>9. n < arg \/ arg < head
  BY <1>3, <1>5, <1>6, <1>7, <1>8
<1>10. QED
  BY <1>1, <1>7, <1>8, <1>9 DEF Sought, n

LEMMA AdvanceRises ==
  ASSUME IInv, Advance, ~ broken'
  PROVE  pages' = pages /\ q' > q
<1>1. pc = "malloc" /\ p # head /\ q' = p /\ pages' = pages /\ ~ broken
  BY DEF Advance
<1>2. /\ IsRing(Free, head, mem) /\ Free \in SUBSET Nat /\ q \in Free /\ p \in Free
      /\ mem[q].next = p
  BY <1>1, LoopShape
<1>3. q < p
  BY <1>1, <1>2 DEF IsRing, Follows
<1>4. QED
  BY <1>1, <1>2, <1>3

LEMMA ExtendRises == ASSUME IInv, Extend PROVE pages' > pages
<1>1. pages' = pages + 1 /\ pages \in Int
  BY HeapAssumption DEF Extend, Expands, IInv, TypeInv, TypeOK
<1>2. QED
  BY <1>1

LEMMA StepRises ==
  ASSUME SoughtInv, [Next]_vars, ~ broken'
  PROVE  /\ Sought'
         /\ vars' # vars =>
              /\ pc = "malloc" /\ pc' = "malloc" => pages' > pages \/ (pages' = pages /\ q' > q)
              /\ pc = "free" /\ pc' = "free" => p' > p
<1>1. IInv
  BY DEF SoughtInv
<1>2. ~ broken
  BY DEF Next, Turn, StartMalloc, StartMallocEmpty, StartMallocNull, StartFree, TakeExact,
         TakeTail, Advance, Extend, GiveUp, Seek, MergeBelow, LinkFreed, GoWild, vars
<1>3. CASE UNCHANGED vars
  BY <1>2, <1>3 DEF SoughtInv, Sought, vars
<1>4. CASE Seek
  BY <1>4, SeekRises DEF Seek
<1>5. CASE Advance
  BY <1>1, <1>5, AdvanceRises DEF Advance, Sought
<1>6. CASE Extend
  BY <1>1, <1>6, ExtendRises DEF Extend, Sought
<1>7. ASSUME NEW b \in DOMAIN live, StartFree(b)
      PROVE  Sought' /\ pc = "idle"
  <2>1. pc = "idle" /\ arg' = b /\ p' = head /\ head' = head /\ head # NULL
    BY <1>7 DEF StartFree
  <2>2. head \in Free /\ Free \in SUBSET Nat /\ b \in Blocks /\ Free = Blocks \ DOMAIN live
        /\ Blocks \subseteq Units
    BY <1>1, <1>2, <2>1, LoopShape DEF IsRing
  <2>3. head \in Nat /\ b \in Nat /\ head # b
    BY <2>2, HeapAssumption DEF Units
  <2>4. QED
    BY <2>1, <2>3 DEF Sought
<1>8. ASSUME \/ \E n \in Sizes : StartMalloc(n) \/ StartMallocEmpty(n) \/ StartMallocNull(n)
             \/ TakeExact \/ TakeTail \/ GiveUp \/ MergeBelow \/ LinkFreed \/ GoWild
      PROVE  pc' # "free" /\ (pc = "idle" \/ pc' # "malloc")
  BY <1>8 DEF StartMalloc, StartMallocEmpty, StartMallocNull, TakeExact, TakeTail, Give, GiveUp,
              MergeBelow, LinkFreed, GoWild, Return
<1>9. QED
  BY <1>3, <1>4, <1>5, <1>6, <1>7, <1>8 DEF Next, Turn, Sought

(***************************************************************************)
(* No call of kmalloc or kfree goes round for ever, until a marked step.   *)
(***************************************************************************)
THEOREM CallsTakeFiniteTurns == Spec => TurnsRise
<1>1. Init => SoughtInv
  BY InitTypeInv, InitList DEF SoughtInv, IInv, Sought, Init
<1>2. SoughtInv /\ [Next]_vars => SoughtInv'
  <2> SUFFICES ASSUME SoughtInv, [Next]_vars PROVE SoughtInv'
    OBVIOUS
  <2>1. IInv'
    BY NextTypeInv, NextList DEF SoughtInv, IInv
  <2>2. ~ broken' => Sought'
    BY StepRises
  <2>3. QED
    BY <2>1, <2>2 DEF SoughtInv
<1>3. SoughtInv /\ [Next]_vars =>
        [ ~ broken' =>
            /\ pc = "malloc" /\ pc' = "malloc" => pages' > pages \/ (pages' = pages /\ q' > q)
            /\ pc = "free" /\ pc' = "free" => p' > p ]_vars
  BY StepRises
<1>4. QED
  BY <1>1, <1>2, <1>3, PTL DEF Spec, TurnsRise

=============================================================================
