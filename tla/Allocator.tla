------------------------------ MODULE Allocator ------------------------------
(***************************************************************************)
(* What callers expect of kmalloc and kfree: a block that is asked for is  *)
(* as large as it was asked for, lies in the region and apart from all     *)
(* blocks that are held; neither a call nor the growth of the region       *)
(* writes into a block that somebody holds; a call that gives nothing is   *)
(* the end of growth. Of an allocator that has lost its list nothing is    *)
(* promised.                                                               *)
(***************************************************************************)
EXTENDS Integers

CONSTANTS
  Sizes,   (* what may be asked for                       *)
  None     (* not a size, nor an address                  *)

VARIABLES
  extent,  (* the size of the region                      *)
  held,    (* the blocks callers hold: sizes by address   *)
  memory,  (* the words of the region, by address         *)
  call,    (* the call being answered, or "idle"          *)
  arg,     (* what it asks for or gives back              *)
  full,    (* the region will not grow any more           *)
  lost     (* nothing is promised                         *)

avars == <<extent, held, memory, call, arg, full, lost>>

Init ==
  /\ extent \in Nat /\ DOMAIN held = {}
  /\ call = "idle" /\ arg = None /\ full = FALSE /\ lost = FALSE

(* What callers have written stays. *)
Kept ==
  \A b \in DOMAIN held \cap DOMAIN held' :
    \A u \in b .. b + held[b] - 1 : memory'[u] = memory[u]

MayGrow ==
  /\ extent' = extent \/ (~ full /\ extent' > extent)
  /\ UNCHANGED <<held, full>> /\ Kept

Malloc(n) ==
  /\ call = "idle" /\ call' = "malloc" /\ arg' = n
  /\ MayGrow

Search == call = "malloc" /\ MayGrow /\ UNCHANGED <<call, arg>>

Within(b, n) == 0 <= b /\ b + n <= extent
Clear(b, n)  == \A x \in DOMAIN held : b + n <= x \/ x + held[x] <= b

Grant(b) ==
  /\ call = "malloc" /\ Within(b, arg) /\ Clear(b, arg)
  /\ held' = [x \in DOMAIN held \cup {b} |-> IF x = b THEN arg ELSE held[x]]
  /\ call' = "idle" /\ arg' = None
  /\ Kept /\ UNCHANGED <<extent, full>>

Deny ==
  /\ call = "malloc" /\ full' = TRUE
  /\ call' = "idle" /\ arg' = None
  /\ UNCHANGED <<extent, held, memory>>

Free(b) ==
  /\ call = "idle" /\ b \in DOMAIN held
  /\ held' = [x \in DOMAIN held \ {b} |-> held[x]]
  /\ call' = "free" /\ arg' = b
  /\ UNCHANGED <<extent, memory, full>>

Freed ==
  /\ call = "free" /\ call' = "idle" /\ arg' = None
  /\ Kept /\ UNCHANGED <<extent, held, full>>

Lose == lost' = TRUE

Next ==
  \/ ~ lost /\ ~ lost' /\ ( \/ \E n \in Sizes : Malloc(n)
                            \/ Search
                            \/ \E b \in 0 .. extent - 1 : Grant(b)
                            \/ Deny
                            \/ \E b \in DOMAIN held : Free(b)
                            \/ Freed )
  \/ Lose

Spec == Init /\ [][Next]_avars

=============================================================================
