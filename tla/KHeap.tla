-------------------------------- MODULE KHeap --------------------------------
(***************************************************************************)
(* The kernel allocator, lib/malloc.c: a circular list of free blocks in   *)
(* the heap region, searched first fit from the block after                *)
(* _g_free_mem_list, and enlarged page by page with expand_region.         *)
(*                                                                         *)
(* Addresses are counted in units of sizeof(fm_header_t) = 8 bytes from    *)
(* K_HEAP_START. The memory is modelled unit by unit, each read as a       *)
(* header, so that the code finds in a block it should not look at what is *)
(* really there. The loops of kmalloc and kfree are one action per turn.   *)
(***************************************************************************)
EXTENDS Integers

CONSTANTS
  PageUnits,  (* K_PG_SIZE in units: 512                                   *)
  MaxPages,   (* the pages between K_HEAP_START and the stack              *)
  Sizes       (* the values of nunits callers ask for, the header included *)

ASSUME HeapAssumption ==
  /\ PageUnits \in Nat \ {0}
  /\ MaxPages \in Nat \ {0}
  /\ Sizes \subseteq Nat \ {0}

NULL == -1
Junk == -2    (* a word the allocator did not write *)

Units == 0 .. MaxPages * PageUnits - 1
Word  == [size : Nat \cup {Junk}, next : Units \cup {NULL, Junk}]
JunkWord == [size |-> Junk, next |-> Junk]

VARIABLES
  mem,      (* the memory of the heap, every unit read as a header          *)
  head,     (* _g_free_mem_list                                             *)
  pages,    (* the pages expand_region has mapped                           *)
  refused,  (* expand_region has returned NULL: it will for ever            *)
  live,     (* the blocks the callers hold: their sizes by their address    *)
  pc,       (* the loop being run, if any                                   *)
  arg,      (* nunits in kmalloc, the block in kfree                        *)
  q, p,     (* the locals of the loops                                      *)
  broken    (* history: one of the steps marked below was taken             *)

vars == <<mem, head, pages, refused, live, pc, arg, q, p, broken>>

-----------------------------------------------------------------------------
(* A pointer that leads to a header.                                       *)
IsHeader(u) ==
  /\ u \in 0 .. pages * PageUnits - 1
  /\ mem[u].size # Junk /\ mem[u].next # Junk

(* What callers write into the block they were given.                      *)
Scribble(m, b, n) ==
  [u \in Units |-> IF u \in b + 1 .. b + n - 1 THEN JunkWord ELSE m[u]]

Return ==
  /\ pc' = "idle"
  /\ arg' = NULL /\ q' = NULL /\ p' = NULL

Give(b, n, m) ==
  /\ mem' = Scribble(m, b, n)
  /\ live' = [x \in DOMAIN live \cup {b} |-> IF x = b THEN n ELSE live[x]]
  /\ Return

(* expand_region(mm_heap) maps the next page, whose address is NewBlock.   *)
NewBlock == pages * PageUnits

OverlappingExpands ==
  /\ ~ refused /\ pages <= MaxPages
  /\ pages' = pages + 1
  /\ UNCHANGED refused

Expands ==
  /\ ~ refused /\ pages < MaxPages
  /\ pages' = pages + 1
  /\ UNCHANGED refused

(* kscm_init_heap                                                          *)
Init ==
  /\ mem = [u \in Units |->
              IF u = 0 THEN [size |-> PageUnits, next |-> 0] ELSE JunkWord]
  /\ head = 0
  /\ pages = 1
  /\ refused = FALSE
  /\ live = [x \in {} |-> 0]
  /\ pc = "idle"
  /\ arg = NULL /\ q = NULL /\ p = NULL
  /\ broken = FALSE

-----------------------------------------------------------------------------
(* kmalloc, up to its loop. *)
StartMalloc(n) ==
  /\ pc = "idle" /\ head # NULL
  /\ pc' = "malloc" /\ arg' = n
  /\ q' = head /\ p' = mem[head].next
  /\ UNCHANGED <<mem, head, pages, refused, live, broken>>

(* The list is empty: a fresh page becomes the list. *)
StartMallocEmpty(n) ==
  /\ pc = "idle" /\ head = NULL
  /\ Expands
  /\ pc' = "malloc" /\ arg' = n
  /\ head' = NewBlock /\ q' = NewBlock /\ p' = NewBlock
  /\ mem' = [mem EXCEPT ![NewBlock] = [size |-> PageUnits, next |-> NewBlock]]
  /\ UNCHANGED <<live, broken>>

(* Marked: the result of expand_region is not looked at, and the header of *)
(* the new block is written at address 0, into the page directory.         *)
StartMallocNull(n) ==
  /\ pc = "idle" /\ head = NULL
  /\ refused' = TRUE
  /\ pc' = "wild" /\ arg' = n
  /\ broken' = TRUE
  /\ UNCHANGED <<mem, head, pages, live, q, p>>

(* The block has the size asked for. Marked: when it is the block          *)
(* _g_free_mem_list points to, the pointer stays.                          *)
TakeExact ==
  /\ pc = "malloc" /\ IsHeader(p) /\ mem[p].size = arg
  /\ Give(p, arg, [mem EXCEPT ![q].next = mem[p].next])
  /\ head' = IF q = p THEN NULL ELSE head
  /\ broken' = (broken \/ (p = head /\ q # p))
  /\ UNCHANGED <<pages, refused>>

(* The block is larger: its tail is given away. *)
UnshrunkTakeTail ==
  LET b == p + mem[p].size - arg
  IN  /\ pc = "malloc" /\ IsHeader(p) /\ mem[p].size > arg
      /\ Give(b, arg, [mem EXCEPT ![p].size = @ - arg + 1, ![b].size = arg])
      /\ UNCHANGED <<head, pages, refused, broken>>

TakeTail ==
  LET b == p + mem[p].size - arg
  IN  /\ pc = "malloc" /\ IsHeader(p) /\ mem[p].size > arg
      /\ Give(b, arg, [mem EXCEPT ![p].size = @ - arg, ![b].size = arg])
      /\ UNCHANGED <<head, pages, refused, broken>>

Advance ==
  /\ pc = "malloc" /\ IsHeader(p) /\ mem[p].size < arg
  /\ p # head
  /\ q' = p /\ p' = mem[p].next
  /\ UNCHANGED <<mem, head, pages, refused, live, pc, arg, broken>>

(* Round the list without a fit: a new page goes in before head. *)
MisplacedExtend ==
  /\ pc = "malloc" /\ IsHeader(p) /\ mem[p].size < arg
  /\ p = head
  /\ Expands
  /\ LET m == [mem EXCEPT ![p].next = NewBlock,
                          ![NewBlock] = [size |-> PageUnits, next |-> mem[p].next]]
     IN  mem' = m /\ q' = p /\ p' = m[p].next
  /\ UNCHANGED <<head, live, pc, arg, broken>>

Extend ==
  /\ pc = "malloc" /\ IsHeader(p) /\ mem[p].size < arg
  /\ p = head
  /\ Expands
  /\ LET m == [mem EXCEPT ![q].next = NewBlock,
                          ![NewBlock] = [size |-> PageUnits, next |-> p]]
     IN  mem' = m /\ q' = p /\ p' = m[p].next
  /\ UNCHANGED <<head, live, pc, arg, broken>>

(* kmalloc returns NULL. *)
HastyGiveUp ==
  /\ pc = "malloc" /\ IsHeader(p) /\ mem[p].size < arg
  /\ refused' = TRUE
  /\ Return
  /\ UNCHANGED <<mem, head, pages, live, broken>>

GiveUp ==
  /\ pc = "malloc" /\ IsHeader(p) /\ mem[p].size < arg
  /\ p = head
  /\ refused' = TRUE
  /\ Return
  /\ UNCHANGED <<mem, head, pages, live, broken>>

-----------------------------------------------------------------------------
(* kfree of a block its caller holds. Marked: with an empty list the loop  *)
(* starts at address 0.                                                    *)
StartFree(b) ==
  /\ pc = "idle" /\ b \in DOMAIN live
  /\ live' = [x \in DOMAIN live \ {b} |-> live[x]]
  /\ pc' = "free" /\ arg' = b /\ p' = head
  /\ broken' = (broken \/ head = NULL)
  /\ UNCHANGED <<mem, head, pages, refused, q>>

(* The loop stops at the block after which arg belongs: between two blocks *)
(* or where the list wraps around.                                         *)
NoWrapBelongsAfter(u) ==
  LET n == mem[u].next IN arg > u /\ (arg < n \/ u > n)

BelongsAfter(u) ==
  LET n == mem[u].next
  IN  \/ arg > u /\ arg < n
      \/ u >= n /\ (arg > u \/ arg < n)

Seek ==
  /\ pc = "free" /\ IsHeader(p)
  /\ ~ BelongsAfter(p)
  /\ p' = mem[p].next
  /\ UNCHANGED <<mem, head, pages, refused, live, pc, arg, q, broken>>

BordersBelow(u) == u + mem[u].size = arg

(* The free block below takes arg in, and then the free block above. The   *)
(* model forgets the headers inside the block: code that still reads them  *)
(* counts as lost, although the words are there.                           *)
StaleMergeBelow ==
  LET m == [mem EXCEPT ![p].size = @ + mem[arg].size, ![arg] = JunkWord]
      up == m[p].next
  IN  /\ pc = "free" /\ IsHeader(p) /\ mem[arg].size # Junk
      /\ BelongsAfter(p) /\ BordersBelow(p)
      /\ mem' = IF p + m[p].size = up /\ IsHeader(up)
                THEN [m EXCEPT ![p].size = @ + m[up].size, ![up] = JunkWord]
                ELSE m
      /\ Return
      /\ UNCHANGED <<head, pages, refused, live, broken>>

MergeBelow ==
  LET m == [mem EXCEPT ![p].size = @ + mem[arg].size, ![arg] = JunkWord]
      up == m[p].next
  IN  /\ pc = "free" /\ IsHeader(p) /\ mem[arg].size # Junk
      /\ BelongsAfter(p) /\ BordersBelow(p)
      /\ mem' = IF p + m[p].size = up /\ IsHeader(up)
                THEN [m EXCEPT ![p].size = @ + m[up].size, ![p].next = m[up].next,
                                 ![up] = JunkWord]
                ELSE m
      /\ Return
      /\ UNCHANGED <<head, pages, refused, live, broken>>

(* Marked: p->next is overwritten before it is compared with the end of    *)
(* arg and copied to it, so arg becomes its own successor.                 *)
LinkFreed ==
  /\ pc = "free" /\ IsHeader(p) /\ mem[arg].size # Junk
  /\ BelongsAfter(p) /\ ~ BordersBelow(p)
  /\ mem' = [mem EXCEPT ![p].next = arg, ![arg].next = arg]
  /\ broken' = TRUE
  /\ Return
  /\ UNCHANGED <<head, pages, refused, live>>

(* A pointer that leads to no header is followed. *)
GoWild ==
  /\ \/ pc = "malloc" /\ ~ IsHeader(p)
     \/ pc = "free" /\ (~ IsHeader(p) \/ mem[arg].size = Junk)
  /\ pc' = "wild"
  /\ UNCHANGED <<mem, head, pages, refused, live, arg, q, p, broken>>

-----------------------------------------------------------------------------
Turn ==
  \/ TakeExact \/ TakeTail \/ Advance \/ Extend \/ GiveUp
  \/ Seek \/ MergeBelow \/ LinkFreed \/ GoWild

Next ==
  \/ \E n \in Sizes : StartMalloc(n) \/ StartMallocEmpty(n) \/ StartMallocNull(n)
  \/ \E b \in DOMAIN live : StartFree(b)
  \/ Turn

(* Nothing preempts a loop once it runs. *)
Spec == Init /\ [][Next]_vars /\ WF_vars(Turn)

-----------------------------------------------------------------------------
(* The blocks met from head on. *)
Visited ==
  LET walk[k \in 0 .. MaxPages * PageUnits] ==
        IF k = 0 THEN head ELSE mem[walk[k - 1]].next
  IN  {walk[k] : k \in 0 .. MaxPages * PageUnits}

FreeBlocks == IF head = NULL THEN {} ELSE Visited

Covers(b, n, u) == u \in b .. b + n - 1

(***************************************************************************)
(* The types of the state. *)
(***************************************************************************)
TypeOK ==
  /\ mem \in [Units -> Word]
  /\ head \in Units \cup {NULL}
  /\ pages \in 1 .. MaxPages
  /\ refused \in BOOLEAN /\ broken \in BOOLEAN
  /\ DOMAIN live \subseteq Units /\ \A b \in DOMAIN live : live[b] \in Sizes
  /\ pc \in {"idle", "malloc", "free", "wild"}
  /\ arg \in Sizes \cup Units \cup {NULL}
  /\ {q, p} \subseteq Units \cup {NULL, Junk}

(***************************************************************************)
(* Between two calls the free blocks and the blocks callers hold tile the  *)
(* heap: every unit of every page lies in exactly one of them. No block is *)
(* given twice, no unit is lost. It holds until a marked step is taken:    *)
(* those steps are the only ways the allocator loses its list.             *)
(***************************************************************************)
BlocksTile ==
  pc = "idle" /\ ~ broken =>
    \A u \in 0 .. pages * PageUnits - 1 :
      LET holders == {b \in DOMAIN live : Covers(b, live[b], u)}
          frees   == {f \in FreeBlocks : Covers(f, mem[f].size, u)}
      IN  \/ frees = {} /\ \E b \in holders : holders = {b}
          \/ holders = {} /\ \E f \in frees : frees = {f}

(***************************************************************************)
(* The list is kept in the order of addresses, with head the lowest block: *)
(* kfree finds the place of a block by comparing addresses, and kmalloc    *)
(* adds its new page, the highest block, just before head.                 *)
(***************************************************************************)
ListSorted ==
  ~ broken =>
    \A f \in FreeBlocks :
      LET n == mem[f].next
      IN  IF n = head THEN \A g \in FreeBlocks : g <= f
          ELSE f < n /\ \A g \in FreeBlocks : g <= f \/ g >= n

(***************************************************************************)
(* The loops follow pointers to headers only, until a marked step.         *)
(***************************************************************************)
FollowsHeaders == pc = "wild" => broken

(***************************************************************************)
(* kmalloc returns NULL only when no free block is large enough: nothing   *)
(* is skipped by a search that starts behind head and reshapes the list as *)
(* it goes.                                                                *)
(***************************************************************************)
NullOnlyWhenFull ==
  [][GiveUp /\ ~ broken => \A f \in FreeBlocks : mem[f].size < arg]_vars

(***************************************************************************)
(* What callers see: kmalloc gives them memory nobody else has, and        *)
(* neither it nor kfree writes into what they hold, however often blocks   *)
(* are cut, joined and linked; and no call goes astray. Until a marked     *)
(* step.                                                                   *)
(***************************************************************************)
Promised == INSTANCE Allocator WITH
  None <- NULL, extent <- pages * PageUnits, held <- live, memory <- mem, call <- pc,
  full <- refused, lost <- broken
ImplementsAllocator == Promised!Spec

(***************************************************************************)
(* Every search and every release ends, until a marked step.               *)
(***************************************************************************)
CallsReturn == pc \in {"malloc", "free"} ~> (pc \in {"idle", "wild"} \/ broken)

(***************************************************************************)
(* lib/malloc.c:128 says of a search that has gone round the list without  *)
(* a fit that it does "increase data region": so it ends, with a block or  *)
(* when no page is left.                                                   *)
(***************************************************************************)
SearchReturns == pc = "malloc" ~> pc # "malloc"

=============================================================================
