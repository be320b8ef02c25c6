---------------------------- MODULE PagingProofs ----------------------------
(***************************************************************************)
(* Proofs about Paging, for every page size, layout and memory size that   *)
(* PagingAssumption admits.                                                *)
(*                                                                         *)
(* The argument rests on one observation: a frame is given back only in    *)
(* the step that took it, so the used frames are always the first n of     *)
(* the bitmap, and get_free_frame returns n.                               *)
(***************************************************************************)
EXTENDS Paging, TLAPS

UsedIsPrefix ==
  \E n \in 0 .. PageFrames + 1 : used = 0 .. n - 1

RegionShape ==
  /\ region[mm_text] = [start |-> 0, size |-> TextEnd]
  /\ region[mm_heap].start = HeapStart
  /\ region[mm_heap].size >= 1
  /\ region[mm_heap].start + region[mm_heap].size <= region[mm_stack].start
  /\ region[mm_stack].start + region[mm_stack].size = StackStart + 1
  /\ region[mm_stack].size >= 1
  /\ region[mm_slots].start = SlotsStart
  /\ region[mm_slots].size >= 1
  /\ region[mm_slots].start + region[mm_slots].size <= SlotsEnd
  /\ region[mm_slots + 1] = [start |-> SlotsEnd, size |-> 0]

(* Where kscm_init_paging is. Between its two halves the TLB still holds   *)
(* the large page of frame 0, which is also that of the frames to come.    *)
BootShape ==
  /\ boot = "reset" =>
       /\ used = {} /\ tlb = NoGroup /\ region = InitialRegion
       /\ pageDir = [d \in Pdes |-> NoFrame]
  /\ boot = "stack" =>
       /\ used = 0 .. 1 /\ tlb = 0 /\ region = InitialRegion
       /\ Mapped = {StackStart}
  /\ boot = "ready" => tlb = NoGroup

(* Every directory entry has a page table of its own.                      *)
TablesApart ==
  \A d \in Pdes : pageDir[d] # NoFrame =>
    /\ pageDir[d] \in used
    /\ \A e \in Pdes : pageDir[e] = pageDir[d] => e = d

BackedByUsed == \A v \in Mapped : Translate(v) \in used

IInv ==
  /\ TypeOK
  /\ UsedIsPrefix
  /\ RegionShape
  /\ BootShape
  /\ TablesApart
  /\ BackedByUsed
  /\ FramesApart
  /\ FramesAccounted
  /\ MappedIsOwned

-----------------------------------------------------------------------------
(* A page number is its directory index and its table index, and the       *)
(* frames below PtEntries lie in large page 0.                             *)
LEMMA IndexArithmetic ==
  \A v \in Nat : /\ PdtIdx(v) \in Nat
                 /\ PgtIdx(v) \in Entries
                 /\ v = PtEntries * PdtIdx(v) + PgtIdx(v)
  BY PagingAssumption, SMTT(60) DEF PdtIdx, PgtIdx, Entries

(* PDT_IDX and PGT_IDX together tell two pages apart.                      *)
LEMMA IndexInjective ==
  \A v, w \in Nat : PdtIdx(v) = PdtIdx(w) /\ PgtIdx(v) = PgtIdx(w) => v = w
  BY IndexArithmetic

LEMMA PagesIndexed ==
  \A v \in Pages : v \in Nat /\ PdtIdx(v) \in Pdes /\ PgtIdx(v) \in Entries
<1>1. \A v \in Pages : v \in Nat
  BY PagingAssumption DEF Pages
<1>2. QED
  BY <1>1, IndexArithmetic DEF Pdes

(* The window shows the frame it was pointed at: when the TLB holds no     *)
(* entry for it, and for one of the boot frames when it holds large page 0 *)
LEMMA WindowShowsFrame ==
  /\ \A f \in Frames : Reached(NoGroup, f) = f
  /\ \A f \in 0 .. 3 : Reached(0, f) = f
<1>1. \A f \in 0 .. 3 : f % PtEntries = f
  BY PagingAssumption, SMTT(60)
<1>2. QED
  BY <1>1, PagingAssumption DEF Reached, NoGroup

LEMMA FirstLargePage == 0 \div PtEntries = 0
  BY PagingAssumption, SMTT(60)

(* When the first n frames are used, get_free_frame returns frame n.       *)
LEMMA NextFreeFrame ==
  \A n \in 0 .. BitmapBits - 1 : GetFreeFrame(0 .. n - 1) = n
<1> SUFFICES ASSUME NEW n \in 0 .. BitmapBits - 1
             PROVE  GetFreeFrame(0 .. n - 1) = n
  OBVIOUS
<1> DEFINE Free == Frames \ (0 .. n - 1)
           Lowest(f) == \A g \in Free : f <= g
<1>1. n \in Frames /\ 0 .. n - 1 # Frames
  BY PagingAssumption DEF Frames
<1>2. n \in Free /\ Lowest(n)
  BY PagingAssumption DEF Frames
<1>3. \A f \in Free : Lowest(f) => f = n
  BY <1>2, PagingAssumption DEF Frames
<1>4. GetFreeFrame(0 .. n - 1) = CHOOSE f \in Free : Lowest(f)
  BY <1>1 DEF GetFreeFrame
<1> HIDE DEF Free, Lowest
<1>5. (CHOOSE f \in Free : Lowest(f)) = n
  BY <1>2, <1>3
<1>6. QED
  BY <1>4, <1>5

-----------------------------------------------------------------------------
(* What put_page(v, n) does when frames 0 .. n are marked used and n is    *)
(* the frame the caller took: it marks one more when v has no page table,  *)
(* and the MMU finds n for v, and what it found before for all other       *)
(* pages. Only a page table past HIGH_MEMORY makes the page disappear.     *)
PutPageEffect(v, n) ==
  LET d == PdtIdx(v)
  IN  /\ tlb' = NoGroup
      /\ \/ /\ pageDir[d] \in RAM
            /\ used' = 0 .. n
            /\ pageDir' = pageDir
         \/ /\ pageDir[d] = NoFrame
            /\ used' = 0 .. n + 1
            /\ pageDir' = [pageDir EXCEPT ![d] = n + 1]
      /\ table' \in [RAM -> [Entries -> RAM \cup {NoFrame, Junk}]]
      /\ \A w \in Pages :
           Translate(w)' = IF w = v /\ pageDir'[d] \in RAM THEN n ELSE Translate(w)

LEMMA PutPageMaps ==
  ASSUME TypeOK, TablesApart,
         NEW n \in RAM, used = 0 .. n - 1,
         \A f \in 0 .. n + 1 : Reached(tlb, f) = f,
         NEW v \in Pages,
         PutPage(v, n, used \cup {n})
  PROVE  PutPageEffect(v, n)
<1> DEFINE d == PdtIdx(v)
           e == PgtIdx(v)
<1> d \in Pdes /\ e \in Entries /\ PageFrames \in Nat /\ n \in Nat /\ n < PageFrames
  BY PagesIndexed, PagingAssumption DEF RAM
<1>u. used \cup {n} = 0 .. n
  OBVIOUS
<1>t. n + 1 \in Frames /\ RAM \subseteq Frames /\ NoFrame \notin Frames
  BY PagingAssumption DEF Frames, RAM, NoFrame
<1>i. \A w \in Pages : PdtIdx(w) = d /\ PgtIdx(w) = e => w = v
  BY PagesIndexed, IndexInjective
<1>p. \A w \in Pages : PdtIdx(w) \in Pdes /\ PgtIdx(w) \in Entries
  BY PagesIndexed
<1>1. CASE pageDir[d] # NoFrame
  <2> DEFINE pt == pageDir[d]
  <2>1. pt \in 0 .. n - 1 /\ pt \in RAM
    BY <1>1 DEF TablesApart, RAM
  <2>2. Reached(tlb, pt) = pt
    BY <2>1
  <2>3. /\ used' = 0 .. n
        /\ pageDir' = [pageDir EXCEPT ![d] = pt]
        /\ table' = [table EXCEPT ![pt][e] = n]
        /\ tlb' = NoGroup
    BY <1>1, <1>u, <2>1, <2>2 DEF PutPage, Store, InvalidateTlbs
  <2>4. pageDir' = pageDir
    BY <2>3 DEF TypeOK
  <2>5. table' \in [RAM -> [Entries -> RAM \cup {NoFrame, Junk}]]
    BY <2>1, <2>3 DEF TypeOK
  <2>6. ASSUME NEW w \in Pages
        PROVE  Translate(w)' = IF w = v THEN n ELSE Translate(w)
    <3>1. CASE w = v
      BY <2>1, <2>3, <2>4, <3>1 DEF Translate, TypeOK
    <3>2. CASE w # v /\ PdtIdx(w) = d
      <4>1. PgtIdx(w) # e
        BY <1>i, <3>2
      <4>2. QED
        BY <1>p, <2>1, <2>3, <2>4, <3>2, <4>1 DEF Translate, TypeOK
    <3>3. CASE PdtIdx(w) # d
      <4>1. pageDir[PdtIdx(w)] # pt
        BY <1>1, <1>p, <3>3 DEF TablesApart
      <4>2. QED
        BY <1>p, <2>1, <2>3, <2>4, <3>3, <4>1, <1>i DEF Translate, TypeOK
    <3>4. QED
      BY <3>1, <3>2, <3>3
  <2>7. QED
    BY <2>1, <2>3, <2>4, <2>5, <2>6 DEF PutPageEffect
<1>2. CASE pageDir[d] = NoFrame
  <2>1. GetFreeFrame(0 .. n) = n + 1
    <3>1. n + 1 \in 0 .. BitmapBits - 1 /\ n = (n + 1) - 1
      BY PagingAssumption
    <3>2. QED
      BY <3>1, NextFreeFrame
  <2>2. Reached(tlb, n + 1) = n + 1
    OBVIOUS
  <2> DEFINE ready == ClearPage(table, n + 1)
  <2>3. /\ used' = (0 .. n) \cup {n + 1}
        /\ pageDir' = [pageDir EXCEPT ![d] = n + 1]
        /\ table' = Store(ready, n + 1, e, n)
        /\ tlb' = NoGroup
    BY <1>2, <1>u, <2>1, <2>2 DEF PutPage, InvalidateTlbs
  <2>4. used' = 0 .. n + 1
    BY <2>3
  <2>5. ready \in [RAM -> [Entries -> RAM \cup {NoFrame, Junk}]]
    BY DEF ClearPage, TypeOK
  <2>6. table' \in [RAM -> [Entries -> RAM \cup {NoFrame, Junk}]]
    BY <2>3, <2>5 DEF Store
  <2>7. ASSUME NEW w \in Pages
        PROVE  Translate(w)' = IF w = v /\ n + 1 \in RAM THEN n ELSE Translate(w)
    <3>1. CASE PdtIdx(w) = d
      <4>1. Translate(w) = NoFrame
        BY <1>2, <1>t, <3>1 DEF Translate, RAM, NoFrame
      <4>2. pageDir'[PdtIdx(w)] = n + 1
        BY <2>3, <3>1 DEF TypeOK
      <4>3. CASE n + 1 \in RAM
        <5>1. table' = [table EXCEPT ![n + 1] =
                          [[x \in Entries |-> NoFrame] EXCEPT ![e] = n]]
          BY <2>3, <4>3 DEF ClearPage, Store, TypeOK
        <5>2. Translate(w)' = [[x \in Entries |-> NoFrame] EXCEPT ![e] = n][PgtIdx(w)]
          BY <4>2, <4>3, <5>1 DEF Translate, TypeOK
        <5>3. QED
          BY <1>i, <1>p, <3>1, <4>1, <4>3, <5>2
      <4>4. CASE n + 1 \notin RAM
        BY <4>1, <4>2, <4>4 DEF Translate
      <4>5. QED
        BY <4>3, <4>4
    <3>2. CASE PdtIdx(w) # d
      <4>1. pageDir'[PdtIdx(w)] = pageDir[PdtIdx(w)]
        BY <1>p, <2>3, <3>2 DEF TypeOK
      <4>2. pageDir[PdtIdx(w)] # n + 1
        BY <1>p, <1>t DEF TablesApart
      <4>3. \A f \in RAM : f # n + 1 => table'[f] = table[f]
        BY <2>3 DEF Store, ClearPage, TypeOK
      <4>4. QED
        BY <3>2, <4>1, <4>2, <4>3 DEF Translate
    <3>3. QED
      BY <3>1, <3>2
  <2>8. pageDir'[d] = n + 1
    BY <2>3 DEF TypeOK
  <2>9. QED
    BY <1>2, <2>3, <2>4, <2>6, <2>7, <2>8 DEF PutPageEffect
<1>3. QED
  BY <1>1, <1>2

(* Mapping an unmapped page keeps the frames apart and accounted for.      *)
LEMMA PutPageKeeps ==
  ASSUME TypeOK, TablesApart, BackedByUsed, FramesApart, FramesAccounted,
         NEW n \in RAM, used = 0 .. n - 1,
         NEW v \in Pages, Translate(v) = NoFrame,
         PutPageEffect(v, n)
  PROVE  /\ used' \subseteq Frames
         /\ pageDir' \in [Pdes -> Frames \cup {NoFrame}]
         /\ UsedIsPrefix' /\ TablesApart' /\ BackedByUsed'
         /\ FramesApart' /\ FramesAccounted'
         /\ Mapped' = IF pageDir'[PdtIdx(v)] \in RAM THEN Mapped \cup {v} ELSE Mapped
<1> DEFINE d == PdtIdx(v)
           inRAM == pageDir'[d] \in RAM
<1>n. n \in Nat /\ PageFrames \in Nat /\ n < PageFrames /\ n \in RAM
  BY PagingAssumption DEF RAM
<1>f. RAM \subseteq Frames /\ n + 1 \in Frames /\ NoFrame \notin Frames
  BY PagingAssumption DEF RAM, Frames, NoFrame
<1>d. d \in Pdes
  BY PagesIndexed
<1>1. \A w \in Pages : Translate(w)' = IF w = v /\ inRAM THEN n ELSE Translate(w)
  BY DEF PutPageEffect
<1>2. Mapped' = IF inRAM THEN Mapped \cup {v} ELSE Mapped
  BY <1>1, <1>f DEF Mapped
<1>3. UsedIsPrefix'
  <2>1. n + 1 \in 0 .. PageFrames + 1 /\ n + 2 \in 0 .. PageFrames + 1
    BY <1>n
  <2>2. used' = 0 .. (n + 1) - 1 \/ used' = 0 .. (n + 2) - 1
    BY <1>n DEF PutPageEffect
  <2>3. QED
    BY <2>1, <2>2 DEF UsedIsPrefix
<1>4. used \subseteq used' /\ n \in used' /\ n \notin used /\ used' \subseteq Frames
  <2>1. 0 .. n \subseteq Frames /\ 0 .. n + 1 \subseteq Frames
    BY <1>n, PagingAssumption DEF Frames
  <2>2. used' = 0 .. n \/ used' = 0 .. n + 1
    BY DEF PutPageEffect
  <2>3. QED
    BY <1>n, <2>1, <2>2
<1>5. pageDir' \in [Pdes -> Frames \cup {NoFrame}]
  BY <1>f DEF PutPageEffect, TypeOK
<1>6. TablesApart'
  <2>1. CASE pageDir' = pageDir
    BY <1>4, <2>1 DEF TablesApart
  <2>2. CASE /\ pageDir[d] = NoFrame /\ used' = 0 .. n + 1
             /\ pageDir' = [pageDir EXCEPT ![d] = n + 1]
    <3>1. \A e \in Pdes : pageDir[e] # n + 1
      BY <1>n, <1>f DEF TablesApart
    <3>2. n + 1 \in used'
      BY <1>n, <2>2
    <3>3. \A e \in Pdes : pageDir'[e] = IF e = d THEN n + 1 ELSE pageDir[e]
      BY <2>2 DEF TypeOK
    <3>4. QED
      BY <1>4, <1>d, <3>1, <3>2, <3>3 DEF TablesApart
  <2>3. QED
    BY <2>1, <2>2 DEF PutPageEffect
<1>7. BackedByUsed'
  BY <1>1, <1>2, <1>4 DEF BackedByUsed, Mapped
<1>8. \/ Tables' = Tables
      \/ Tables' = Tables \cup {n + 1} /\ used' = 0 .. n + 1
  <2>1. CASE pageDir' = pageDir
    BY <2>1 DEF Tables
  <2>2. CASE /\ pageDir[d] = NoFrame /\ used' = 0 .. n + 1
             /\ pageDir' = [pageDir EXCEPT ![d] = n + 1]
    <3>1. \A e \in Pdes : pageDir'[e] = IF e = d THEN n + 1 ELSE pageDir[e]
      BY <2>2 DEF TypeOK
    <3>2. Tables' = Tables \cup {n + 1}
      BY <1>d, <1>f, <2>2, <3>1 DEF Tables
    <3>3. QED
      BY <2>2, <3>2
  <2>3. QED
    BY <2>1, <2>2 DEF PutPageEffect
<1>9. Tables \subseteq used
  BY DEF Tables, TablesApart
<1>10. FramesApart'
  <2>1. \A w \in Mapped : Translate(w) \in used /\ Translate(w) # n /\ Translate(w) # n + 1
    BY <1>n DEF BackedByUsed
  <2>2. n \notin Tables' /\ \A w \in Mapped : Translate(w) \notin Tables'
    BY <1>4, <1>8, <1>9, <1>n, <2>1 DEF FramesApart
  <2>3. \A w \in Mapped' : Translate(w)' \in RAM \ Tables'
    BY <1>1, <1>2, <1>n, <2>2 DEF FramesApart, Mapped
  <2>4. ASSUME NEW w \in Mapped', NEW x \in Mapped', Translate(w)' = Translate(x)'
        PROVE  w = x
    <3>1. w \in Pages /\ x \in Pages
      BY DEF Mapped
    <3>2. v \notin Mapped
      BY DEF Mapped
    <3>3. QED
      BY <1>1, <1>2, <2>1, <2>4, <3>1, <3>2 DEF FramesApart
  <2>5. QED
    BY <2>3, <2>4 DEF FramesApart
<1>11. FramesAccounted'
  <2> SUFFICES ASSUME Tables' \subseteq RAM
               PROVE  used' = Tables' \cup {Translate(w)' : w \in Mapped'}
    BY DEF FramesAccounted
  <2> DEFINE Backing == {Translate(w) : w \in Mapped}
  <2>1. used = Tables \cup Backing
    BY <1>8 DEF FramesAccounted
  <2>2. inRAM
    BY <1>d, <1>f, <1>n DEF PutPageEffect, Tables, TypeOK, RAM
  <2>3. {Translate(w)' : w \in Mapped'} = Backing \cup {n}
    <3>1. Mapped' = Mapped \cup {v} /\ v \notin Mapped /\ Mapped \subseteq Pages
      BY <1>2, <2>2 DEF Mapped
    <3>2. Translate(v)' = n /\ \A w \in Mapped : Translate(w)' = Translate(w)
      BY <1>1, <2>2, <3>1
    <3>3. QED
      BY <3>1, <3>2
  <2>4. \/ used' = used \cup {n} /\ Tables' = Tables
        \/ used' = used \cup {n, n + 1} /\ Tables' = Tables \cup {n + 1}
    <3>1. CASE pageDir' = pageDir /\ used' = 0 .. n
      BY <1>n, <3>1 DEF Tables
    <3>2. CASE /\ pageDir[d] = NoFrame /\ used' = 0 .. n + 1
               /\ pageDir' = [pageDir EXCEPT ![d] = n + 1]
      <4>1. n + 1 \in Tables'
        BY <1>d, <1>f, <3>2 DEF Tables, TypeOK
      <4>2. used' = used \cup {n, n + 1}
        BY <1>n, <3>2
      <4>3. n + 1 \notin Tables
        BY <1>9, <1>n
      <4>4. QED
        BY <1>8, <4>1, <4>2, <4>3
    <3>3. QED
      BY <3>1, <3>2 DEF PutPageEffect
  <2> HIDE DEF Backing
  <2>5. QED
    BY <2>1, <2>3, <2>4
<1>12. QED
  BY <1>2, <1>3, <1>4, <1>5, <1>6, <1>7, <1>10, <1>11

-----------------------------------------------------------------------------
LEMMA InitIInv == Init => IInv
<1> SUFFICES ASSUME Init PROVE IInv
  OBVIOUS
<1> USE PagingAssumption
<1>1. Mapped = {} /\ Tables = {}
  BY PagesIndexed DEF Init, Mapped, Tables, Translate, RAM, NoFrame
<1>2. TypeOK
  <2>1. region \in [Regions -> [start : Nat, size : Nat]]
    BY DEF Init, InitialRegion, Regions, mm_text, mm_heap, mm_stack, mm_slots
  <2>2. QED
    BY <2>1 DEF Init, TypeOK
<1>3. RegionShape
  BY DEF Init, RegionShape, InitialRegion, Regions, mm_text, mm_heap, mm_stack, mm_slots
<1>4. UsedIsPrefix
  <2>1. 0 \in 0 .. PageFrames + 1 /\ used = 0 .. 0 - 1
    BY DEF Init
  <2>2. QED
    BY <2>1 DEF UsedIsPrefix
<1>5. BootShape /\ TablesApart
  BY DEF Init, BootShape, TablesApart
<1>6. BackedByUsed /\ FramesApart /\ FramesAccounted /\ MappedIsOwned
  BY <1>1 DEF Init, BackedByUsed, FramesApart, FramesAccounted, MappedIsOwned
<1>7. QED
  BY <1>2, <1>3, <1>4, <1>5, <1>6 DEF IInv

(* The region table in numbers: the pages the kernel owns, and the page    *)
(* expand_region adds to them.                                             *)
LEMMA GrowExtends ==
  ASSUME TypeOK, RegionShape,
         NEW r \in {mm_heap, mm_stack, mm_slots}, CanGrow(r), Grow(r)
  PROVE  /\ region' \in [Regions -> [start : Nat, size : Nat]]
         /\ RegionShape'
         /\ NextPage(r) \in Pages \ OwnedPages
         /\ OwnedPages' = OwnedPages \cup {NextPage(r)}
         /\ \/ NextPage(r) = SlotsStart + 1
            \/ NextPage(r) - 1 \in OwnedPages
            \/ NextPage(r) + 1 \in OwnedPages
<1> USE PagingAssumption DEF mm_text, mm_heap, mm_stack, mm_slots, Regions
<1>1. \A q \in Regions : region[q] = [start |-> region[q].start, size |-> region[q].size]
                         /\ region[q].start \in Nat /\ region[q].size \in Nat
  BY DEF TypeOK
<1>2. CASE r = mm_heap
  <2>1. /\ region[1].start = HeapStart
        /\ NextPage(r) = HeapStart + region[1].size
        /\ NextPage(r) < region[2].start
    BY <1>1, <1>2 DEF RegionShape, NextPage, CanGrow, ExpandsDown
  <2>2. region' = [region EXCEPT ![1] = [start |-> HeapStart, size |-> region[1].size + 1]]
    BY <1>1, <1>2, <2>1 DEF Grow, ExpandsDown, TypeOK
  <2>3. region' \in [Regions -> [start : Nat, size : Nat]]
    BY <1>1, <2>2 DEF TypeOK
  <2>4. /\ region'[1].start = HeapStart /\ region'[1].size = region[1].size + 1
        /\ region'[0] = region[0] /\ region'[2] = region[2] /\ region'[3] = region[3]
        /\ region'[4] = region[4]
    BY <2>2 DEF TypeOK
  <2>5. RegionShape'
    BY <1>1, <2>1, <2>4 DEF RegionShape
  <2>6. OwnedPages' = OwnedPages \cup {NextPage(r)}
    BY <1>1, <2>1, <2>4 DEF OwnedPages, RegionPages, RegionShape
  <2>7. NextPage(r) \in Pages \ OwnedPages
    BY <1>1, <2>1 DEF OwnedPages, RegionPages, RegionShape, Pages
  <2>8. NextPage(r) - 1 \in OwnedPages
    BY <1>1, <2>1 DEF OwnedPages, RegionPages, RegionShape
  <2>9. QED
    BY <2>3, <2>5, <2>6, <2>7, <2>8
<1>3. CASE r = mm_stack
  <2>1. /\ NextPage(r) = region[2].start - 1
        /\ NextPage(r) >= HeapStart + region[1].size
        /\ region[1].start = HeapStart
    BY <1>1, <1>3 DEF RegionShape, NextPage, CanGrow, ExpandsDown
  <2>2. region' = [region EXCEPT ![2] = [start |-> region[2].start - 1,
                                         size |-> region[2].size + 1]]
    BY <1>1, <1>3 DEF Grow, ExpandsDown, TypeOK
  <2>3. region' \in [Regions -> [start : Nat, size : Nat]]
    BY <1>1, <2>1, <2>2 DEF TypeOK
  <2>4. /\ region'[2].start = region[2].start - 1 /\ region'[2].size = region[2].size + 1
        /\ region'[0] = region[0] /\ region'[1] = region[1] /\ region'[3] = region[3]
        /\ region'[4] = region[4]
    BY <2>2 DEF TypeOK
  <2>5. RegionShape'
    BY <1>1, <2>1, <2>4 DEF RegionShape
  <2>6. OwnedPages' = OwnedPages \cup {NextPage(r)}
    BY <1>1, <2>1, <2>4 DEF OwnedPages, RegionPages, RegionShape
  <2>7. NextPage(r) \in Pages \ OwnedPages
    BY <1>1, <2>1 DEF OwnedPages, RegionPages, RegionShape, Pages
  <2>8. NextPage(r) + 1 \in OwnedPages
    BY <1>1, <2>1 DEF OwnedPages, RegionPages, RegionShape
  <2>9. QED
    BY <2>3, <2>5, <2>6, <2>7, <2>8
<1>4. CASE r = mm_slots
  <2>1. /\ NextPage(r) = SlotsStart + region[3].size
        /\ NextPage(r) < SlotsEnd
        /\ region[3].start = SlotsStart
    BY <1>1, <1>4 DEF RegionShape, NextPage, CanGrow, ExpandsDown
  <2>2. region' = [region EXCEPT ![3] = [start |-> SlotsStart, size |-> region[3].size + 1]]
    BY <1>1, <1>4, <2>1 DEF Grow, ExpandsDown, TypeOK
  <2>3. region' \in [Regions -> [start : Nat, size : Nat]]
    BY <1>1, <2>2 DEF TypeOK
  <2>4. /\ region'[3].start = SlotsStart /\ region'[3].size = region[3].size + 1
        /\ region'[0] = region[0] /\ region'[1] = region[1] /\ region'[2] = region[2]
        /\ region'[4] = region[4]
    BY <2>2 DEF TypeOK
  <2>5. RegionShape'
    BY <1>1, <2>1, <2>4 DEF RegionShape
  <2>6. OwnedPages' = OwnedPages \cup {NextPage(r)}
    BY <1>1, <2>1, <2>4 DEF OwnedPages, RegionPages, RegionShape
  <2>7. NextPage(r) \in Pages \ OwnedPages
    BY <1>1, <2>1 DEF OwnedPages, RegionPages, RegionShape, Pages
  <2>8. NextPage(r) = SlotsStart + 1 \/ NextPage(r) - 1 \in OwnedPages
    BY <1>1, <2>1 DEF OwnedPages, RegionPages, RegionShape
  <2>9. QED
    BY <2>3, <2>5, <2>6, <2>7, <2>8
<1>5. QED
  BY <1>2, <1>3, <1>4

-----------------------------------------------------------------------------
(* The first half of kscm_init_paging takes frames 0 and 1.                *)
LEMMA InitStackMaps ==
  ASSUME IInv, InitStack
  PROVE  /\ used' = 0 .. 1 /\ tlb' = 0 /\ ret' = ret
         /\ region' = InitialRegion /\ region = InitialRegion
         /\ pageDir' = [[d \in Pdes |-> NoFrame] EXCEPT ![PdtIdx(StackStart)] = 0]
         /\ table' \in [RAM -> [Entries -> RAM \cup {NoFrame, Junk}]]
         /\ Mapped = {}
         /\ \A w \in Pages : Translate(w)' = IF w = StackStart THEN 1 ELSE NoFrame
<1> USE PagingAssumption
<1> DEFINE d == PdtIdx(StackStart)
           e == PgtIdx(StackStart)
<1>1. GetFreeFrame({}) = 0
  <2>1. {} = 0 .. 0 - 1 /\ 0 \in 0 .. BitmapBits - 1
    OBVIOUS
  <2>2. QED
    BY <2>1, NextFreeFrame
<1>2. GetFreeFrame({0}) = 1
  <2>1. {0} = 0 .. 1 - 1 /\ 1 \in 0 .. BitmapBits - 1
    OBVIOUS
  <2>2. QED
    BY <2>1, NextFreeFrame
<1>3. tlb = NoGroup /\ region = InitialRegion /\ pageDir = [x \in Pdes |-> NoFrame]
  BY DEF IInv, BootShape, InitStack
<1>4. Reached(tlb, 0) = 0
  BY <1>3, WindowShowsFrame DEF Frames
<1>5. 0 \in RAM /\ 1 \in RAM /\ NoFrame \notin RAM
  BY DEF RAM, NoFrame
<1>6. StackStart \in Pages /\ d \in Pdes /\ e \in Entries
  BY PagesIndexed DEF Pages
<1>7. table' = [table EXCEPT ![0] = [[x \in Entries |-> NoFrame] EXCEPT ![e] = 1]]
  BY <1>1, <1>2, <1>4, <1>5 DEF InitStack, Store, ClearPage, IInv, TypeOK
<1>8. table' \in [RAM -> [Entries -> RAM \cup {NoFrame, Junk}]]
  BY <1>5, <1>7 DEF IInv, TypeOK
<1>9. pageDir' = [[x \in Pdes |-> NoFrame] EXCEPT ![d] = 0]
  BY <1>1 DEF InitStack
<1>10. tlb' = 0 /\ used' = 0 .. 1 /\ region' = InitialRegion /\ ret' = ret
  BY <1>1, <1>2, FirstLargePage DEF InitStack
<1>11. Mapped = {}
  BY <1>3, <1>5, PagesIndexed DEF Mapped, Translate
<1>12. ASSUME NEW w \in Pages
       PROVE  Translate(w)' = IF w = StackStart THEN 1 ELSE NoFrame
  <2>1. PdtIdx(w) \in Pdes /\ PgtIdx(w) \in Entries
    BY PagesIndexed
  <2>2. CASE PdtIdx(w) = d
    <3>1. Translate(w)' = [[x \in Entries |-> NoFrame] EXCEPT ![e] = 1][PgtIdx(w)]
      BY <1>5, <1>6, <1>7, <1>9, <2>2 DEF Translate, IInv, TypeOK
    <3>2. PgtIdx(w) = e <=> w = StackStart
      BY <1>6, <2>2, PagesIndexed, IndexInjective
    <3>3. QED
      BY <2>1, <3>1, <3>2
  <2>3. CASE PdtIdx(w) # d
    BY <1>5, <1>9, <2>1, <2>3 DEF Translate
  <2>4. QED
    BY <2>2, <2>3
<1>13. QED
  BY <1>3, <1>8, <1>9, <1>10, <1>11, <1>12

LEMMA InitStackIInv == IInv /\ InitStack => IInv'
<1> SUFFICES ASSUME IInv, InitStack PROVE IInv'
  OBVIOUS
<1> USE PagingAssumption
<1>1. StackStart \in Pages /\ PdtIdx(StackStart) \in Pdes
  BY PagesIndexed DEF Pages
<1>2. NoFrame \notin RAM /\ 0 \in RAM /\ 1 \in RAM /\ RAM \subseteq Frames /\ NoFrame # 0
  BY DEF NoFrame, RAM, Frames
<1>3. Mapped' = {StackStart}
  BY <1>1, <1>2, InitStackMaps DEF Mapped
<1>4. Tables' = {0}
  BY <1>1, <1>2, InitStackMaps DEF Tables
<1>5. TypeOK'
  <2>1. pageDir' \in [Pdes -> Frames \cup {NoFrame}]
    BY <1>1, <1>2, InitStackMaps
  <2>2. used' \subseteq Frames /\ tlb' \in Nat
    BY InitStackMaps DEF Frames
  <2>3. region' \in [Regions -> [start : Nat, size : Nat]] /\ ret' \in Pages \cup {NoPage}
    BY InitStackMaps DEF IInv, TypeOK
  <2>4. QED
    BY <2>1, <2>2, <2>3, InitStackMaps DEF TypeOK, InitStack
<1>6. UsedIsPrefix'
  <2>1. 2 \in 0 .. PageFrames + 1 /\ used' = 0 .. 2 - 1
    BY InitStackMaps
  <2>2. QED
    BY <2>1 DEF UsedIsPrefix
<1>7. RegionShape'
  BY InitStackMaps DEF IInv, RegionShape
<1>8. BootShape'
  BY <1>3, InitStackMaps DEF BootShape, InitStack
<1>9. TablesApart'
  BY <1>1, <1>2, InitStackMaps DEF TablesApart
<1>10. BackedByUsed' /\ FramesApart'
  BY <1>1, <1>2, <1>3, <1>4, InitStackMaps DEF BackedByUsed, FramesApart
<1>11. FramesAccounted'
  <2>1. {Translate(w)' : w \in Mapped'} = {1}
    BY <1>1, <1>3, InitStackMaps
  <2>2. 0 .. 1 = {0} \cup {1}
    OBVIOUS
  <2>3. QED
    BY <1>4, <2>1, <2>2, InitStackMaps DEF FramesAccounted
<1>12. MappedIsOwned'
  BY DEF InitStack, MappedIsOwned
<1>13. QED
  BY <1>5, <1>6, <1>7, <1>8, <1>9, <1>10, <1>11, <1>12 DEF IInv

(* The second half maps the first heap page to frame 2.                    *)
LEMMA InitHeapMaps ==
  ASSUME IInv, InitHeap
  PROVE  /\ used = 0 .. 2 - 1 /\ 2 \in RAM
         /\ HeapStart \in Pages /\ Translate(HeapStart) = NoFrame
         /\ PutPageEffect(HeapStart, 2)
         /\ pageDir'[PdtIdx(HeapStart)] \in RAM
         /\ OwnedPages = {HeapStart, StackStart}
         /\ region = InitialRegion /\ Mapped = {StackStart}
<1> USE PagingAssumption
<1>1. used = 0 .. 2 - 1 /\ tlb = 0 /\ region = InitialRegion /\ Mapped = {StackStart}
  BY DEF IInv, BootShape, InitHeap
<1>2. GetFreeFrame(used) = 2
  <2>1. 2 \in 0 .. BitmapBits - 1
    OBVIOUS
  <2>2. QED
    BY <1>1, <2>1, NextFreeFrame
<1>3. HeapStart \in Pages /\ Translate(HeapStart) = NoFrame
  BY <1>1 DEF Pages, Mapped
<1>4. 2 \in RAM /\ 2 + 1 \in RAM
  BY DEF RAM
<1>5. \A f \in 0 .. 2 + 1 : Reached(tlb, f) = f
  BY <1>1, WindowShowsFrame
<1>6. PutPage(HeapStart, 2, used \cup {2})
  BY <1>2 DEF InitHeap
<1>7. PutPageEffect(HeapStart, 2)
  BY <1>1, <1>3, <1>4, <1>5, <1>6, PutPageMaps DEF IInv
<1>8. pageDir'[PdtIdx(HeapStart)] \in RAM
  BY <1>3, <1>4, <1>7, PagesIndexed DEF PutPageEffect, IInv, TypeOK
<1>9. OwnedPages = {HeapStart, StackStart}
  BY <1>1 DEF OwnedPages, RegionPages, InitialRegion, Regions, mm_text, mm_heap, mm_stack, mm_slots
<1>10. QED
  BY <1>1, <1>3, <1>4, <1>7, <1>8, <1>9

LEMMA InitHeapIInv == IInv /\ InitHeap => IInv'
<1> SUFFICES ASSUME IInv, InitHeap PROVE IInv'
  OBVIOUS
<1>1. /\ used' \subseteq Frames
      /\ pageDir' \in [Pdes -> Frames \cup {NoFrame}]
      /\ UsedIsPrefix' /\ TablesApart' /\ BackedByUsed' /\ FramesApart' /\ FramesAccounted'
      /\ Mapped' = {StackStart} \cup {HeapStart}
  BY InitHeapMaps, PutPageKeeps DEF IInv
<1>2. region' = region /\ ret' = ret /\ boot' = "ready"
  BY DEF InitHeap
<1>3. tlb' = NoGroup /\ table' \in [RAM -> [Entries -> RAM \cup {NoFrame, Junk}]]
  BY InitHeapMaps DEF PutPageEffect
<1>4. TypeOK'
  BY <1>1, <1>2, <1>3 DEF IInv, TypeOK
<1>5. RegionShape' /\ BootShape'
  BY <1>2, <1>3 DEF IInv, RegionShape, BootShape
<1>6. OwnedPages' = {StackStart} \cup {HeapStart}
  BY <1>2, InitHeapMaps DEF OwnedPages, RegionPages
<1>7. MappedIsOwned'
  BY <1>1, <1>6 DEF MappedIsOwned
<1>8. QED
  BY <1>1, <1>4, <1>5, <1>7 DEF IInv

-----------------------------------------------------------------------------
(* expand_region with a frame of RAM in hand: the call of put_page.        *)
LEMMA ExpandMaps ==
  ASSUME IInv, NEW r \in {mm_heap, mm_stack, mm_slots}, ExpandMapped(r)
  PROVE  \E n \in RAM :
           /\ used = 0 .. n - 1
           /\ NextPage(r) \in Pages /\ Translate(NextPage(r)) = NoFrame
           /\ PutPageEffect(NextPage(r), n)
           /\ Mapped = OwnedPages
           /\ n + 1 \in RAM => pageDir'[PdtIdx(NextPage(r))] \in RAM
<1> USE PagingAssumption
<1>1. PICK n \in 0 .. PageFrames + 1 : used = 0 .. n - 1
  BY DEF IInv, UsedIsPrefix
<1>2. n \in RAM /\ GetFreeFrame(used) = n
  <2>1. CASE n \in 0 .. BitmapBits - 1
    BY <1>1, <2>1, NextFreeFrame DEF ExpandMapped, InRange
  <2>2. CASE n \notin 0 .. BitmapBits - 1
    <3>1. used = Frames
      BY <1>1, <2>2 DEF IInv, TypeOK, Frames
    <3>2. QED
      BY <3>1 DEF ExpandMapped, InRange, GetFreeFrame, RAM, NoFrame
  <2>3. QED
    BY <2>1, <2>2
<1>3. ~ Exhausted
  BY <1>1, <1>2 DEF Exhausted, RAM
<1>4. Mapped = OwnedPages /\ tlb = NoGroup
  BY <1>3 DEF IInv, MappedIsOwned, BootShape, ExpandMapped
<1>5. NextPage(r) \in Pages \ OwnedPages
  BY GrowExtends DEF IInv, ExpandMapped
<1>6. Translate(NextPage(r)) = NoFrame
  BY <1>4, <1>5 DEF Mapped
<1>7. \A f \in 0 .. n + 1 : Reached(tlb, f) = f
  BY <1>2, <1>4, WindowShowsFrame DEF RAM, Frames
<1>8. PutPage(NextPage(r), n, used \cup {n})
  BY <1>2 DEF ExpandMapped
<1>9. PutPageEffect(NextPage(r), n)
  BY <1>1, <1>2, <1>5, <1>7, <1>8, PutPageMaps DEF IInv
<1>10. n + 1 \in RAM => pageDir'[PdtIdx(NextPage(r))] \in RAM
  BY <1>2, <1>5, <1>9, PagesIndexed DEF PutPageEffect, IInv, TypeOK
<1>11. QED
  BY <1>1, <1>2, <1>4, <1>5, <1>6, <1>9, <1>10

LEMMA ExpandMappedIInv ==
  ASSUME IInv, NEW r \in {mm_heap, mm_stack, mm_slots}, ExpandMapped(r)
  PROVE  IInv'
<1> USE PagingAssumption
<1> DEFINE p == NextPage(r)
<1>1. PICK n \in RAM :
        /\ used = 0 .. n - 1
        /\ p \in Pages /\ Translate(p) = NoFrame
        /\ PutPageEffect(p, n)
        /\ Mapped = OwnedPages
        /\ n + 1 \in RAM => pageDir'[PdtIdx(p)] \in RAM
  BY ExpandMaps
<1>2. /\ used' \subseteq Frames
      /\ pageDir' \in [Pdes -> Frames \cup {NoFrame}]
      /\ UsedIsPrefix' /\ TablesApart' /\ BackedByUsed' /\ FramesApart' /\ FramesAccounted'
      /\ Mapped' = IF pageDir'[PdtIdx(p)] \in RAM THEN Mapped \cup {p} ELSE Mapped
  <2> HIDE DEF p
  <2>1. QED
    BY <1>1, PutPageKeeps DEF IInv
<1>3. /\ region' \in [Regions -> [start : Nat, size : Nat]]
      /\ RegionShape'
      /\ OwnedPages' = OwnedPages \cup {p}
  BY GrowExtends DEF IInv, ExpandMapped
<1>4. tlb' = NoGroup /\ table' \in [RAM -> [Entries -> RAM \cup {NoFrame, Junk}]]
  BY <1>1 DEF PutPageEffect
<1>5. boot = "ready" /\ boot' = "ready" /\ ret' = p
  BY DEF ExpandMapped
<1>6. TypeOK'
  BY <1>1, <1>2, <1>3, <1>4, <1>5 DEF TypeOK
<1>7. BootShape'
  BY <1>4, <1>5 DEF BootShape
<1>8. MappedIsOwned'
  <2>1. Mapped' \subseteq OwnedPages'
    BY <1>1, <1>2, <1>3
  <2>2. ASSUME ~ Exhausted' PROVE Mapped' = OwnedPages'
    <3>1. pageDir'[PdtIdx(p)] \in RAM
      <4>1. CASE pageDir[PdtIdx(p)] \in RAM /\ pageDir' = pageDir
        BY <4>1
      <4>2. CASE used' = 0 .. n + 1
        <5>1. n + 1 \in RAM
          BY <2>2, <4>2 DEF Exhausted, RAM
        <5>2. QED
          BY <1>1, <5>1
      <4>3. QED
        BY <1>1, <4>1, <4>2 DEF PutPageEffect
    <3>2. QED
      BY <1>1, <1>2, <1>3, <3>1
  <2>3. QED
    BY <2>1, <2>2 DEF MappedIsOwned
<1>9. QED
  BY <1>2, <1>3, <1>6, <1>7, <1>8 DEF IInv

(* Out of frames: the region grows, nothing else changes, and no frame is  *)
(* left to make its pages real later.                                      *)
LEMMA ExpandFailedIInv ==
  ASSUME IInv, NEW r \in {mm_heap, mm_stack, mm_slots}, ExpandFailed(r)
  PROVE  IInv' /\ UNCHANGED <<used, pageDir, table>>
<1> USE PagingAssumption
<1>1. PICK n \in 0 .. PageFrames + 1 : used = 0 .. n - 1
  BY DEF IInv, UsedIsPrefix
<1>2. GetFreeFrame(used) \notin used /\ Exhausted
  <2>1. CASE n \in 0 .. BitmapBits - 1
    <3>1. GetFreeFrame(used) = n
      BY <1>1, <2>1, NextFreeFrame
    <3>2. QED
      BY <1>1, <3>1 DEF ExpandFailed, InRange, RAM, Exhausted
  <2>2. CASE n \notin 0 .. BitmapBits - 1
    <3>1. used = Frames
      BY <1>1, <2>2 DEF IInv, TypeOK, Frames
    <3>2. QED
      BY <3>1 DEF GetFreeFrame, RAM, NoFrame, Frames, Exhausted
  <2>3. QED
    BY <2>1, <2>2
<1>3. used' = used /\ pageDir' = pageDir /\ table' = table /\ tlb' = tlb
  BY <1>2 DEF ExpandFailed
<1>4. boot = "ready" /\ boot' = "ready" /\ ret' = NoPage
  BY DEF ExpandFailed
<1>5. /\ region' \in [Regions -> [start : Nat, size : Nat]]
      /\ RegionShape'
      /\ OwnedPages' = OwnedPages \cup {NextPage(r)}
  BY GrowExtends DEF IInv, ExpandFailed
<1>6. /\ Mapped' = Mapped /\ Tables' = Tables /\ Exhausted' = Exhausted
      /\ \A v \in Pages : Translate(v)' = Translate(v)
  BY <1>3 DEF Mapped, Tables, Exhausted, Translate
<1>7. TypeOK' /\ UsedIsPrefix' /\ TablesApart' /\ BootShape'
  BY <1>3, <1>4, <1>5 DEF IInv, TypeOK, UsedIsPrefix, TablesApart, BootShape
<1>8. BackedByUsed' /\ FramesApart'
  BY <1>3, <1>6 DEF IInv, BackedByUsed, FramesApart, Mapped
<1>9. FramesAccounted'
  <2>1. {Translate(v)' : v \in Mapped'} = {Translate(v) : v \in Mapped}
    BY <1>6 DEF Mapped
  <2>2. QED
    BY <1>3, <1>6, <2>1 DEF IInv, FramesAccounted
<1>10. MappedIsOwned'
  BY <1>2, <1>4, <1>5, <1>6 DEF IInv, MappedIsOwned
<1>11. QED
  BY <1>3, <1>5, <1>7, <1>8, <1>9, <1>10 DEF IInv

(* A step that changes nothing but the value returned.                     *)
LEMMA SameStateIInv ==
  ASSUME IInv, UNCHANGED <<boot, region, used, pageDir, table, tlb>>,
         ret' \in Pages \cup {NoPage}
  PROVE  IInv'
<1>1. /\ Mapped' = Mapped /\ Tables' = Tables /\ Exhausted' = Exhausted
      /\ OwnedPages' = OwnedPages
      /\ \A v \in Pages : Translate(v)' = Translate(v)
  BY DEF Mapped, Tables, Exhausted, Translate, OwnedPages, RegionPages
<1>2. TypeOK' /\ UsedIsPrefix' /\ TablesApart' /\ RegionShape'
  BY DEF IInv, TypeOK, UsedIsPrefix, TablesApart, RegionShape
<1>3. BootShape'
  BY <1>1 DEF IInv, BootShape
<1>4. BackedByUsed' /\ FramesApart'
  BY <1>1 DEF IInv, BackedByUsed, FramesApart, Mapped
<1>5. FramesAccounted'
  <2>1. {Translate(v)' : v \in Mapped'} = {Translate(v) : v \in Mapped}
    BY <1>1 DEF Mapped
  <2>2. QED
    BY <1>1, <2>1 DEF IInv, FramesAccounted
<1>6. MappedIsOwned'
  BY <1>1 DEF IInv, MappedIsOwned
<1>7. QED
  BY <1>2, <1>3, <1>4, <1>5, <1>6 DEF IInv

(* IInv holds in every reachable state.                                    *)
LEMMA Inductive == Spec => []IInv
<1>1. ASSUME IInv, [Next]_vars PROVE IInv'
  <2>1. CASE InitStack
    BY <1>1, <2>1, InitStackIInv
  <2>2. CASE InitHeap
    BY <1>1, <2>2, InitHeapIInv
  <2>3. ASSUME NEW r \in {mm_heap, mm_stack, mm_slots}, Expand(r) PROVE IInv'
    <3>1. CASE ExpandRefused(r)
      BY <1>1, <3>1, SameStateIInv DEF ExpandRefused
    <3>2. CASE ExpandMapped(r)
      BY <1>1, <3>2, ExpandMappedIInv
    <3>3. CASE ExpandFailed(r)
      BY <1>1, <3>3, ExpandFailedIInv
    <3>4. QED
      BY <2>3, <3>1, <3>2, <3>3 DEF Expand
  <2>4. CASE UNCHANGED vars
    BY <1>1, <2>4, SameStateIInv DEF vars, IInv, TypeOK
  <2>5. QED
    BY <1>1, <2>1, <2>2, <2>3, <2>4 DEF Next
<1>2. QED
  BY InitIInv, <1>1, PTL DEF Spec

-----------------------------------------------------------------------------
(* The state of mm/memory.c has its types: in particular no page table     *)
(* holds a frame past HIGH_MEMORY, whatever get_free_frame returns.        *)
THEOREM TypeCorrect == Spec => []TypeOK
<1>1. IInv => TypeOK
  BY DEF IInv
<1>2. QED
  BY <1>1, Inductive, PTL

(* expand_region keeps the regions of kscm_kernel_mm in order and apart.   *)
THEOREM RegionsStayApart == Spec => []RegionsApart
<1>1. IInv => RegionsApart
  BY PagingAssumption
     DEF IInv, TypeOK, RegionShape, RegionsApart, Regions, mm_text, mm_heap, mm_stack, mm_slots
<1>2. QED
  BY <1>1, Inductive, PTL

(* No frame backs two pages and no page shows a page table: what           *)
(* get_free_frame hands to put_page is in use nowhere else.                *)
THEOREM FramesStayApart == Spec => []FramesApart
<1>1. IInv => FramesApart
  BY DEF IInv
<1>2. QED
  BY <1>1, Inductive, PTL

(* The bitmap marks the page tables and the frames of pages, no more and   *)
(* no less: expand_region leaks no frame, even when it fails.              *)
THEOREM FramesStayAccounted == Spec => []FramesAccounted
<1>1. IInv => FramesAccounted
  BY DEF IInv
<1>2. QED
  BY <1>1, Inductive, PTL

(* While frames are left, the pages of the regions are the mapped pages.   *)
THEOREM OwnedPagesAreMapped == Spec => []MappedIsOwned
<1>1. IInv => MappedIsOwned
  BY DEF IInv
<1>2. QED
  BY <1>1, Inductive, PTL

(* While the machine has a frame that is not marked used, _mm_bitmap has a  *)
(* bit for get_free_frame to find.                                         *)
FrameFound == ~ Exhausted => GetFreeFrame(used) \in Frames

(* A frame is there for get_free_frame in every call of expand_region:     *)
(* _mm_bitmap is never empty before HIGH_MEMORY stops put_page, so the     *)
(* value 0 that get_free_frame returns when it is reaches nobody.          *)
THEOREM FreeFrameFound == Spec => []FrameFound
<1>1. IInv => FrameFound
  <2> SUFFICES ASSUME IInv, ~ Exhausted PROVE GetFreeFrame(used) \in Frames
    BY DEF FrameFound
  <2>1. PICK n \in 0 .. PageFrames + 1 : used = 0 .. n - 1
    BY DEF IInv, UsedIsPrefix
  <2>2. n \in 0 .. BitmapBits - 1
    BY <2>1, PagingAssumption DEF Exhausted, RAM
  <2>3. QED
    BY <2>1, <2>2, NextFreeFrame DEF Frames
<1>2. QED
  BY <1>1, Inductive, PTL

-----------------------------------------------------------------------------
(* A new mapping of an unmapped page is a step of the address space.       *)
LEMMA MappingIsBack ==
  ASSUME NEW v \in Pages, NEW f \in RAM,
         Translate(v) = NoFrame,
         \A w \in Pages : Translate(w) # f,
         \/ v \in {HeapStart, SlotsStart + 1} \cup {StackStart}
         \/ v - 1 \in Mapped
         \/ v + 1 \in Mapped,
         \A w \in Pages : Translate(w)' = IF w = v THEN f ELSE Translate(w)
  PROVE  Space!Next
<1> DEFINE map == [w \in Pages |-> Translate(w)]
<1>1. map' = [map EXCEPT ![v] = f]
  OBVIOUS
<1>2. map[v] = NoFrame /\ \A w \in Pages : map[w] # f
  OBVIOUS
<1>3. Space!Adjacent(v)
  BY DEF Space!Adjacent, Mapped
<1>4. Space!Back(v, f)
  BY <1>1, <1>2, <1>3 DEF Space!Back
<1>5. QED
  BY <1>4 DEF Space!Next

(* mm/memory.c implements the address space: every step of kscm_init_paging *)
(* and of expand_region gives one page a frame of its own, next to a page  *)
(* of its region, or changes no translation.                               *)
THEOREM PagingImplementsAddressSpace == Spec => ImplementsAddressSpace
<1> DEFINE map == [w \in Pages |-> Translate(w)]
<1>1. Init => Space!Init
  <2> SUFFICES ASSUME Init PROVE map = [w \in Pages |-> NoFrame]
    BY DEF Space!Init
  <2>1. \A w \in Pages : Translate(w) = NoFrame
    BY PagesIndexed DEF Init, Translate, RAM, NoFrame
  <2>2. QED
    BY <2>1
<1>2. ASSUME IInv, [Next]_vars PROVE Space!Next \/ map' = map
  <2>1. CASE InitStack
    <3>1. StackStart \in Pages /\ 1 \in RAM /\ NoFrame # 1
      BY PagingAssumption DEF Pages, RAM, NoFrame
    <3>2. \A w \in Pages : Translate(w) = NoFrame
      BY <1>2, <2>1, InitStackMaps DEF Mapped
    <3>3. \A w \in Pages : Translate(w)' = IF w = StackStart THEN 1 ELSE Translate(w)
      BY <1>2, <2>1, <3>2, InitStackMaps
    <3>4. QED
      BY <3>1, <3>2, <3>3, MappingIsBack
  <2>2. CASE InitHeap
    <3>1. \A w \in Pages : Translate(w) # 2
      <4>1. NoFrame # 2
        BY DEF NoFrame
      <4>2. QED
        BY <1>2, <2>2, <4>1, InitHeapMaps DEF IInv, BackedByUsed, Mapped
    <3>2. \A w \in Pages : Translate(w)' = IF w = HeapStart THEN 2 ELSE Translate(w)
      BY <1>2, <2>2, InitHeapMaps DEF PutPageEffect
    <3>3. QED
      BY <1>2, <2>2, <3>1, <3>2, InitHeapMaps, MappingIsBack
  <2>3. ASSUME NEW r \in {mm_heap, mm_stack, mm_slots}, Expand(r)
        PROVE  Space!Next \/ map' = map
    <3> DEFINE p == NextPage(r)
    <3>1. CASE ExpandMapped(r)
      <4>1. PICK n \in RAM :
              /\ used = 0 .. n - 1
              /\ p \in Pages /\ Translate(p) = NoFrame
              /\ PutPageEffect(p, n)
              /\ Mapped = OwnedPages
        BY <1>2, <3>1, ExpandMaps
      <4>2. p = SlotsStart + 1 \/ p - 1 \in Mapped \/ p + 1 \in Mapped
        BY <1>2, <3>1, <4>1, GrowExtends DEF IInv, ExpandMapped
      <4>3. \A w \in Pages : Translate(w) # n
        <5>1. n # NoFrame /\ n \notin used
          BY <4>1, PagingAssumption DEF RAM, NoFrame
        <5>2. QED
          BY <1>2, <5>1 DEF IInv, BackedByUsed, Mapped
      <4>4. \A w \in Pages : Translate(w)' =
              IF w = p /\ pageDir'[PdtIdx(p)] \in RAM THEN n ELSE Translate(w)
        BY <4>1 DEF PutPageEffect
      <4> HIDE DEF p
      <4>5. CASE pageDir'[PdtIdx(p)] \in RAM
        BY <4>1, <4>2, <4>3, <4>4, <4>5, MappingIsBack
      <4>6. CASE pageDir'[PdtIdx(p)] \notin RAM
        BY <4>4, <4>6
      <4>7. QED
        BY <4>5, <4>6
    <3>2. CASE ExpandFailed(r)
      BY <1>2, <3>2, ExpandFailedIInv DEF Translate
    <3>3. CASE ExpandRefused(r)
      BY <3>3 DEF ExpandRefused, Translate
    <3>4. QED
      BY <2>3, <3>1, <3>2, <3>3 DEF Expand
  <2>4. CASE UNCHANGED vars
    BY <2>4 DEF vars, Translate
  <2>5. QED
    BY <1>2, <2>1, <2>2, <2>3, <2>4 DEF Next
<1>3. IInv /\ [Next]_vars => [Space!Next]_[v \in Pages |-> Translate(v)]
  BY <1>2
<1>4. QED
  BY <1>1, <1>3, Inductive, PTL DEF Spec, Space!Spec, ImplementsAddressSpace

=============================================================================
