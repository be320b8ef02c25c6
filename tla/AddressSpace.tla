---------------------------- MODULE AddressSpace ----------------------------
(***************************************************************************)
(* What mm/memory.c promises its callers, with page tables, the frame      *)
(* bitmap, the temporary window and the region table left out: a linear    *)
(* address space whose pages are given physical frames one at a time.      *)
(*                                                                         *)
(* Once a page has a frame it keeps it, no frame backs two pages, and the  *)
(* pages in use grow without holes: upwards from the first page of the     *)
(* heap and of the slots, downwards from the first page of the stack.      *)
(***************************************************************************)
EXTENDS Integers

CONSTANTS
  Pages,      (* the page numbers, integers, of the linear addresses      *)
  RAM,        (* the physical frames                                      *)
  NoFrame,    (* not a frame: what a page without one is mapped to        *)
  UpSeeds,    (* the pages a region that expands up starts from           *)
  DownSeeds   (* the page a region that expands down starts from          *)

VARIABLE space    (* the frame behind each page *)

Init == space = [v \in Pages |-> NoFrame]

(* A page may be given a frame when it starts a region or extends one.     *)
Adjacent(v) ==
  \/ v \in UpSeeds \cup DownSeeds
  \/ v - 1 \in Pages /\ space[v - 1] # NoFrame
  \/ v + 1 \in Pages /\ space[v + 1] # NoFrame

Back(v, f) ==
  /\ space[v] = NoFrame
  /\ Adjacent(v)
  /\ \A w \in Pages : space[w] # f
  /\ space' = [space EXCEPT ![v] = f]

Next == \E v \in Pages, f \in RAM : Back(v, f)

Spec == Init /\ [][Next]_space

=============================================================================
