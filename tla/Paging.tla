------------------------------- MODULE Paging -------------------------------
(***************************************************************************)
(* The physical page allocator and the page tables of the kernel,          *)
(* mm/memory.c.                                                            *)
(*                                                                         *)
(* Linear addresses are counted in pages of K_PG_SIZE bytes, physical      *)
(* addresses in frames of the same size from LOW_MEM on: frame f is the    *)
(* physical address LOW_MEM + f * K_PG_SIZE, and bit f of _mm_bitmap.      *)
(* A page table fills one frame, and a large page (the temporary window    *)
(* of temp_map_page) covers PtEntries frames, as 1024 * 4 Kbyte = 4 Mbyte. *)
(***************************************************************************)
EXTENDS Integers

CONSTANTS
  PtEntries,   (* entries of a page table: 1024                            *)
  BitmapBits,  (* PAGING_PAGES, the frames _mm_bitmap has a bit for         *)
  PageFrames,  (* PAGE_FRAMES, the frames below HIGH_MEMORY                 *)
  TextEnd,     (* K_CODE_SIZE in pages                                      *)
  HeapStart,   (* K_HEAP_START                                              *)
  StackStart,  (* K_STACK_START, the last page before the window            *)
  SlotsStart,  (* K_SLOTS_START                                             *)
  SlotsEnd     (* K_SLOTS_START + K_SLOTS_SIZE, the sentinel region         *)

(* The order of the layout in include/kscm/config.h. HIGH_MEMORY comes     *)
(* from a 16-bit count of Kbytes, so it stays below TOTAL_MEMORY; the      *)
(* machine has the four frames kscm_init_paging takes, and they lie in one *)
(* large page.                                                             *)
ASSUME PagingAssumption ==
  /\ PtEntries \in Nat /\ PtEntries >= 4
  /\ BitmapBits \in Nat /\ PageFrames \in Nat
  /\ 4 <= PageFrames /\ PageFrames < BitmapBits
  /\ {TextEnd, HeapStart, StackStart, SlotsStart, SlotsEnd} \subseteq Nat
  /\ TextEnd <= HeapStart /\ HeapStart < StackStart
  /\ StackStart < SlotsStart /\ SlotsStart < SlotsEnd

Frames == 0 .. BitmapBits - 1
RAM    == 0 .. PageFrames - 1
NoFrame == -1     (* a page directory or page table entry of 0 *)
Junk    == -2     (* a word of a frame nothing was written to  *)
NoGroup == -1

Pages   == HeapStart .. SlotsEnd - 1
NoPage  == -1     (* NULL, as expand_region returns it *)
Entries == 0 .. PtEntries - 1

(* PDT_IDX and PGT_IDX of include/asm/page.h *)
PdtIdx(v) == v \div PtEntries
PgtIdx(v) == v % PtEntries
Pdes == {PdtIdx(v) : v \in Pages}

(* enum Region_type, and the sentinel entry of kscm_kernel_mm *)
mm_text == 0
mm_heap == 1
mm_stack == 2
mm_slots == 3
Regions == mm_text .. mm_slots + 1
ExpandsDown(r) == r = mm_stack

VARIABLES
  boot,      (* how far kscm_init_paging is                                *)
  region,    (* kscm_kernel_mm: start and size of every region             *)
  used,      (* the frames whose bit in _mm_bitmap is 0                    *)
  pageDir,   (* the frame of the page table behind each directory entry    *)
  table,     (* the words of each frame, read as page table entries        *)
  tlb,       (* the large page the TLB holds for the temporary window      *)
  ret        (* what the last expand_region returned                       *)

vars == <<boot, region, used, pageDir, table, tlb, ret>>

-----------------------------------------------------------------------------
(* get_free_frame: the lowest frame whose bit is set.                      *)
GetFreeFrame(u) ==
  IF u = Frames THEN NoFrame
  ELSE CHOOSE f \in Frames \ u : \A g \in Frames \ u : f <= g

(* temp_map_page: the page directory now points the window at the large    *)
(* page of f, but an access goes where the TLB says when it holds an entry *)
(* for the window. Its first access loads the entry.                       *)
Reached(t, f) ==
  IF t = NoGroup THEN f ELSE (t * PtEntries) + (f % PtEntries)

(* A store at entry e of frame f. No memory answers outside RAM.           *)
Store(tbl, f, e, val) ==
  IF f \in RAM THEN [tbl EXCEPT ![f][e] = val] ELSE tbl

NoClearPage(tbl, f) == tbl

ClearPage(tbl, f) ==
  IF f \in RAM THEN [tbl EXCEPT ![f] = [e \in Entries |-> NoFrame]] ELSE tbl

(* invalidate_tlbs: the entry of the window is gone, whatever it was.      *)
NoInvalidateTlbs(entry) == entry

InvalidateTlbs(entry) == NoGroup

(* The range check at the head of put_page.                                *)
OffByOneInRange(page) == page \in 0 .. PageFrames

InRange(page) == page \in RAM

(* put_page, for a page that passed the range check, in a state where the  *)
(* bitmap is u. invalidate_tlbs ends it.                                   *)
PutPage(v, page, u) ==
  LET d       == PdtIdx(v)
      missing == pageDir[d] = NoFrame
      frame   == IF missing THEN GetFreeFrame(u) ELSE pageDir[d]
      pt      == Reached(tlb, frame)
      ready   == IF missing THEN ClearPage(table, pt) ELSE table
  IN  /\ used' = IF missing THEN u \cup {frame} ELSE u
      /\ pageDir' = [pageDir EXCEPT ![d] = frame]
      /\ table' = Store(ready, pt, PgtIdx(v), page)
      /\ tlb' = InvalidateTlbs(IF tlb = NoGroup THEN frame \div PtEntries ELSE tlb)

-----------------------------------------------------------------------------
(* The state head.S leaves: no entry of the directory from LOW_MEM on      *)
(* means anything yet, memory holds anything.                              *)
InitialRegion == [r \in Regions |->
  CASE r = mm_text  -> [start |-> 0,          size |-> TextEnd]
    [] r = mm_heap  -> [start |-> HeapStart,  size |-> 1]
    [] r = mm_stack -> [start |-> StackStart, size |-> 1]
    [] r = mm_slots -> [start |-> SlotsStart, size |-> 1]
    [] OTHER        -> [start |-> SlotsEnd,   size |-> 0]]

Init ==
  /\ boot = "reset"
  /\ region = InitialRegion
  /\ used = {}
  /\ pageDir = [d \in Pdes |-> NoFrame]
  /\ table = [f \in RAM |-> [e \in Entries |-> Junk]]
  /\ tlb = NoGroup
  /\ ret = NoPage

(* kscm_init_paging up to the move of the stack: the bitmap and the        *)
(* directory are cleared, one frame becomes the page table of the stack    *)
(* and one its first page. Both words go through the window, and the TLB   *)
(* keeps its entry.                                                        *)
InitStack ==
  LET frame == GetFreeFrame({})
      page  == GetFreeFrame({frame})
      pt    == Reached(tlb, frame)
  IN  /\ boot = "reset"
      /\ boot' = "stack"
      /\ region' = InitialRegion
      /\ used' = {frame, page}
      /\ pageDir' = [[d \in Pdes |-> NoFrame] EXCEPT ![PdtIdx(StackStart)] = frame]
      /\ table' = Store(ClearPage(table, pt), pt, PgtIdx(StackStart), page)
      /\ tlb' = frame \div PtEntries
      /\ UNCHANGED ret

(* The last two lines of kscm_init_paging.                                 *)
InitHeap ==
  LET frame == GetFreeFrame(used)
  IN  /\ boot = "stack"
      /\ boot' = "ready"
      /\ PutPage(HeapStart, frame, used \cup {frame})
      /\ UNCHANGED <<region, ret>>

(* The first page past region r, in the direction it expands.              *)
RepeatedNextPage(r) ==
  IF ExpandsDown(r) THEN region[r].start
                    ELSE region[r].start + region[r].size - 1

NextPage(r) ==
  IF ExpandsDown(r) THEN region[r].start - 1
                    ELSE region[r].start + region[r].size

(* No page of r may enter the region next to it.                           *)
LateCanGrow(r) ==
  IF ExpandsDown(r)
  THEN region[r].start >= region[r - 1].start + region[r - 1].size
  ELSE region[r].start + region[r].size <= region[r + 1].start

CanGrow(r) ==
  IF ExpandsDown(r)
  THEN region[r].start - 1 >= region[r - 1].start + region[r - 1].size
  ELSE region[r].start + region[r].size + 1 <= region[r + 1].start

Grow(r) ==
  region' = [region EXCEPT
               ![r].start = IF ExpandsDown(r) THEN @ - 1 ELSE @,
               ![r].size = @ + 1]

(* expand_region(r) meets the next region.                                 *)
ExpandRefused(r) ==
  /\ boot = "ready"
  /\ ~ CanGrow(r)
  /\ ret' = NoPage
  /\ UNCHANGED <<boot, region, used, pageDir, table, tlb>>

(* expand_region(r) maps the page.                                         *)
ExpandMapped(r) ==
  LET f == GetFreeFrame(used)
      p == NextPage(r)
  IN  /\ boot = "ready"
      /\ CanGrow(r)
      /\ InRange(f)
      /\ Grow(r)
      /\ PutPage(p, f, used \cup {f})
      /\ ret' = p
      /\ UNCHANGED boot

LeakyExpandFailed(r) ==
  LET f == GetFreeFrame(used)
  IN  /\ boot = "ready"
      /\ CanGrow(r)
      /\ ~ InRange(f)
      /\ Grow(r)
      /\ used' = used \cup {f}
      /\ ret' = NoPage
      /\ UNCHANGED <<boot, pageDir, table, tlb>>

(* expand_region(r) is out of frames: put_page returns NULL before it      *)
(* touches anything, the frame is given back, the region stays enlarged.   *)
ExpandFailed(r) ==
  LET f == GetFreeFrame(used)
  IN  /\ boot = "ready"
      /\ CanGrow(r)
      /\ ~ InRange(f)
      /\ Grow(r)
      /\ used' = (used \cup {f}) \ {f}
      /\ ret' = NoPage
      /\ UNCHANGED <<boot, pageDir, table, tlb>>

(* The text region is not expanded: its flag is negative.                  *)
Expand(r) == ExpandRefused(r) \/ ExpandMapped(r) \/ ExpandFailed(r)

Next ==
  \/ InitStack
  \/ InitHeap
  \/ \E r \in {mm_heap, mm_stack, mm_slots} : Expand(r)

Spec == Init /\ [][Next]_vars

-----------------------------------------------------------------------------
(* What the MMU finds for page v. A table outside RAM maps nothing.        *)
Translate(v) ==
  LET pt == pageDir[PdtIdx(v)]
  IN  IF pt \in RAM THEN table[pt][PgtIdx(v)] ELSE NoFrame

Mapped == {v \in Pages : Translate(v) # NoFrame}
Tables == {pageDir[d] : d \in Pdes} \ {NoFrame}
Exhausted == RAM \subseteq used

RegionPages(r) == region[r].start .. region[r].start + region[r].size - 1

(* The pages the kernel counts as its own. The first page of the slots     *)
(* region belongs to it from the start, but nothing maps it.               *)
OwnedPages ==
  RegionPages(mm_heap) \cup RegionPages(mm_stack)
    \cup (RegionPages(mm_slots) \ {SlotsStart})

(***************************************************************************)
(* The types of the state. A page table never holds a frame past           *)
(* HIGH_MEMORY: put_page looked at it first.                               *)
(***************************************************************************)
TypeOK ==
  /\ boot \in {"reset", "stack", "ready"}
  /\ region \in [Regions -> [start : Nat, size : Nat]]
  /\ used \subseteq Frames
  /\ pageDir \in [Pdes -> Frames \cup {NoFrame}]
  /\ table \in [RAM -> [Entries -> RAM \cup {NoFrame, Junk}]]
  /\ tlb \in Nat \cup {NoGroup}
  /\ ret \in Pages \cup {NoPage}

(***************************************************************************)
(* The regions keep their order and never overlap, although expand_region  *)
(* moves two of them towards each other (heap up, stack down), enlarges    *)
(* them before it has a frame, and never shrinks them when it has none.    *)
(***************************************************************************)
RegionsApart ==
  \A r, s \in Regions :
    r < s => region[r].start + region[r].size <= region[s].start

(***************************************************************************)
(* No two pages share a frame, and no page shows a page table: whatever    *)
(* get_free_frame hands to expand_region and to put_page, the words that   *)
(* the MMU reads stay out of every page's reach. It needs the page table   *)
(* cleared, and written through a fresh temporary window.                  *)
(***************************************************************************)
FramesApart ==
  \A v \in Mapped :
    /\ Translate(v) \in RAM \ Tables
    /\ \A w \in Mapped : Translate(w) = Translate(v) => w = v

(***************************************************************************)
(* The bitmap and the page tables agree: a frame is marked used exactly    *)
(* when it is a page table or backs a page. Nothing leaks when             *)
(* expand_region fails. It cannot be asked once put_page has taken a page  *)
(* table past HIGH_MEMORY, as the page that table was for is then lost.    *)
(***************************************************************************)
FramesAccounted ==
  Tables \subseteq RAM => used = Tables \cup {Translate(v) : v \in Mapped}

(***************************************************************************)
(* While frames are left, every page of a region is mapped and nothing     *)
(* else is; when they run out the regions still cover all that is mapped.  *)
(* A kernel that counts a page as its own can use it.                      *)
(***************************************************************************)
MappedIsOwned ==
  boot = "ready" => /\ Mapped \subseteq OwnedPages
                    /\ ~ Exhausted => Mapped = OwnedPages

(***************************************************************************)
(* The paging code implements the address space of AddressSpace: a page    *)
(* keeps its frame, no frame is given twice, the pages grow without holes. *)
(***************************************************************************)
Space == INSTANCE AddressSpace WITH
  UpSeeds <- {HeapStart, SlotsStart + 1},
  DownSeeds <- {StackStart},
  space <- [v \in Pages |-> Translate(v)]

ImplementsAddressSpace == Space!Spec

=============================================================================
