---------------------------------- MODULE Boot ----------------------------------
(***************************************************************************)
(* From the BIOS to main: boot/bootsect.S reads setup and the system from  *)
(* the diskette, boot/setup.S moves the system to address 0, opens the A20 *)
(* line, sets up the interrupt controllers and protected mode, and         *)
(* boot/head.S turns paging on.                                            *)
(*                                                                         *)
(* The first megabyte is a sequence of blocks of one sector; a block holds *)
(* the number of the sector of the diskette that was read into it. A       *)
(* segment is the 64K the loops of bootsect and setup go by.               *)
(***************************************************************************)
EXTENDS Integers, Sequences, SequencesExt

CONSTANTS
  SegBlocks,      (* blocks of a segment, and sectors read: 0x80            *)
  LastSector,     (* the sectors bootsect takes a track to have: 18         *)
  TrackSectors,   (* the sectors a track of the diskette has                *)
  SplitTlb,       (* whether the processor keeps the translations of code   *)
                  (* and those of data apart                                *)
  MaxErrors       (* bound: reads that fail                                 *)

ASSUME BootAssumption ==
  /\ SegBlocks \in Nat /\ LastSector \in Nat /\ TrackSectors \in Nat
  /\ MaxErrors \in Nat /\ SplitTlb \in BOOLEAN /\ SegBlocks > 16

VARIABLES
  pc,        (* the part that runs                                          *)
  mem,       (* the first megabyte                                          *)
  read,      (* the registers and nr_sector of read_block                   *)
  errors,    (* the reads that failed                                       *)
  moved,     (* the segments setup has moved                                *)
  kbd,       (* the 8042: what it was sent last, whether it has taken it    *)
  a20,       (* whether addresses have a bit 20                             *)
  pic,       (* the two 8259A                                               *)
  mmu        (* the page directories at 0 and 4M, cr3, what page 0 was when *)
             (* it was last fetched from                                    *)

vars == <<pc, mem, read, errors, moved, kbd, a20, pic, mmu>>

(* include/kscm/config.h, in blocks. *)
BOOTSEG  == 3                     \* 0x7c0, in the first segment
(* Mutant: bootsect moves to where the end of the system is read to. *)
LowSegment == 2 * SegBlocks - 2
INITSEG  == 9 * SegBlocks
SETUPSEG == INITSEG + 1
SYSSEG   == SegBlocks
Blocks   == 0 .. 10 * SegBlocks - 1

Other == -1                       \* a block of anything else
Half  == -2                       \* a block a failed read has left
Parameters == -3                  \* what setup keeps at 0x90000
PageDir == -4                     \* head.S itself, written over
Running == 16                     \* where head.S goes on: 0x2000

(* A page directory: what is behind the first two large pages. *)
Low == "0"
High == "4M"
Directory(p0, p1) == <<p0, p1>>

Init ==
  /\ pc = "bootsect"
  /\ mem = [b \in Blocks |-> IF b = BOOTSEG THEN 0 ELSE Other]
  /\ read = [ch |-> 0, dh |-> 0, cl |-> 3, left |-> SegBlocks, es |-> SYSSEG]
  /\ errors = 0 /\ moved = 0
  /\ kbd = [step |-> 0, full |-> FALSE]
  /\ a20 = FALSE
  /\ pic = [m \in {"master", "slave"} |-> [wants |-> "none", base |-> 8]]
  /\ mmu = [dir |-> [p \in {Low, High} |-> Directory(Other, Other)], on |-> FALSE,
            cr3 |-> Low, fetched |-> Low]

-----------------------------------------------------------------------------
(* bootsect.S *)
MoveSelf ==
  /\ pc = "bootsect" /\ pc' = "load_setup"
  /\ mem' = [mem EXCEPT ![INITSEG] = mem[BOOTSEG]]
  /\ UNCHANGED <<read, errors, moved, kbd, a20, pic, mmu>>

LoadSetup ==
  /\ pc = "load_setup" /\ pc' = "load_system"
  /\ mem' = [mem EXCEPT ![SETUPSEG] = 1]
  /\ UNCHANGED <<read, errors, moved, kbd, a20, pic, mmu>>

(* A read fails: the drive is reset and the same sector read again. *)
ReadFails ==
  /\ errors < MaxErrors /\ errors' = errors + 1
  /\ \/ pc = "load_setup" /\ mem' = [mem EXCEPT ![SETUPSEG] = Half]
     \/ pc = "load_system" /\ mem' = [mem EXCEPT ![read.es] = Half]
  /\ UNCHANGED <<pc, read, moved, kbd, a20, pic, mmu>>

(* Mutant: the side is changed, the cylinder is not. *)
SameCylinder(r) ==
  IF r.cl < LastSector THEN [r EXCEPT !.cl = @ + 1] ELSE [r EXCEPT !.cl = 1, !.dh = 1 - @]

(* next_sector: up the track, then the other side, then the next cylinder. *)
(* The number of sectors the BIOS has told is not looked at.               *)
NextSector(r) ==
  IF r.cl < LastSector THEN [r EXCEPT !.cl = @ + 1]
  ELSE [r EXCEPT !.cl = 1, !.dh = 1 - @, !.ch = IF r.dh = 0 THEN @ ELSE @ + 1]

Sector == (read.ch * 2 + read.dh) * TrackSectors + read.cl - 1
ReadSector ==
  /\ pc = "load_system" /\ read.cl <= TrackSectors
  /\ mem' = [mem EXCEPT ![read.es] = Sector]
  /\ IF read.left = 1
       THEN pc' = "setup" /\ read' = [read EXCEPT !.left = 0]
       ELSE /\ read' = [NextSector(read) EXCEPT !.left = @ - 1, !.es = @ + 1]
            /\ UNCHANGED pc
  /\ UNCHANGED <<errors, moved, kbd, a20, pic, mmu>>

-----------------------------------------------------------------------------
(* setup.S. What the BIOS tells is kept over the copy of bootsect. *)
AskBios ==
  /\ pc = "setup" /\ pc' = "do_move"
  /\ mem' = [mem EXCEPT ![INITSEG] = Parameters]
  /\ UNCHANGED <<read, errors, moved, kbd, a20, pic, mmu>>

(* do_move: until the segment to move is 0x9000. *)
LastMoved == 8

DoMove ==
  /\ pc = "do_move"
  /\ IF moved = LastMoved THEN pc' = "enable_a20" /\ UNCHANGED <<mem, moved>>
     ELSE /\ moved' = moved + 1
          /\ mem' = [b \in Blocks |->
               IF b \in moved * SegBlocks .. (moved + 1) * SegBlocks - 1 /\ b + SegBlocks \in Blocks
                 THEN mem[b + SegBlocks] ELSE mem[b]]
          /\ UNCHANGED pc
  /\ UNCHANGED <<read, errors, kbd, a20, pic, mmu>>

(* Mutant: the second byte is sent whether or not the first was taken. *)
HastySend ==
  /\ pc = "enable_a20" /\ kbd.step < 2
  /\ kbd' = [step |-> kbd.step + 1, full |-> kbd.step = 0]
  /\ UNCHANGED <<pc, mem, read, errors, moved, a20, pic, mmu>>

(* 0xD1 to port 0x64, then 0xDF to port 0x60, each when the controller has *)
(* taken what was there (empty_8042).                                      *)
Send ==
  /\ pc = "enable_a20" /\ kbd.step < 2 /\ ~ kbd.full
  /\ kbd' = [step |-> kbd.step + 1, full |-> TRUE]
  /\ UNCHANGED <<pc, mem, read, errors, moved, a20, pic, mmu>>
ControllerTakes ==
  /\ kbd.full
  /\ kbd' = [kbd EXCEPT !.full = FALSE]
  /\ a20' = (a20 \/ kbd.step = 2)
  /\ UNCHANGED <<pc, mem, read, errors, moved, pic, mmu>>

(* An 8259A takes ICW1 at its first port, and then ICW2 to ICW4 at the     *)
(* second. The vectors of the slave are never written: it takes the word   *)
(* for ICW3 for them, and still waits for its ICW4.                        *)
ICWs == <<"icw2", "icw3", "icw4", "none">>
After(w) == ICWs[1 + CHOOSE i \in 1 .. 3 : ICWs[i] = w]
Out(p, w) ==
  LET chip == p[w.to]
  IN  [p EXCEPT ![w.to] =
        IF w.first THEN [chip EXCEPT !.wants = "icw2"]
        ELSE IF chip.wants = "none" THEN chip
        ELSE [wants |-> After(chip.wants), base |-> IF chip.wants = "icw2" THEN w.v ELSE chip.base]]
W(to, first, v) == [to |-> to, first |-> first, v |-> v]

Setup8259a == << W("master", TRUE, 17), W("slave", TRUE, 17), W("master", FALSE, 32),
                 W("master", FALSE, 4), W("slave", FALSE, 2), W("master", FALSE, 1), W("slave", FALSE, 1) >>

Protect ==
  /\ pc = "enable_a20" /\ kbd.step = 2 /\ ~ kbd.full /\ pc' = "head"
  /\ pic' = FoldLeft(Out, pic, Setup8259a)
  /\ UNCHANGED <<mem, read, errors, moved, kbd, a20, mmu>>

-----------------------------------------------------------------------------
(* head.S. It writes to address 0 as long as the A20 line is not there, and *)
(* once more; what it runs then lies behind the page that becomes the page  *)
(* directory.                                                               *)
CheckA20 ==
  /\ pc = "head" /\ a20 /\ pc' = "paging"
  /\ mem' = [mem EXCEPT ![0] = PageDir]
  /\ UNCHANGED <<read, errors, moved, kbd, a20, pic, mmu>>

(* setup_paging. The directory is the first page of the system. *)
EnablePaging ==
  /\ pc = "paging" /\ pc' = "copy"
  /\ mmu' = [mmu EXCEPT !.dir[Low] = Directory(Low, High), !.on = TRUE]
  /\ UNCHANGED <<mem, read, errors, moved, kbd, a20, pic>>

(* The first 4M are copied to 4M, the directory with them, and the copy    *)
(* is loaded, so that page 0 is once more fetched from Low.                *)
CopyUp ==
  /\ pc = "copy" /\ pc' = "first"
  /\ mmu' = [mmu EXCEPT !.dir[High] = mmu.dir[Low], !.cr3 = High, !.fetched = mmu.dir[Low][1]]
  /\ UNCHANGED <<mem, read, errors, moved, kbd, a20, pic>>

(* Page 0 becomes 4M, in the directory seen at 4M; then page 1 becomes 0,  *)
(* in the directory seen at 0: at 4M, if that is translated anew.          *)
EditFirst ==
  /\ pc = "first" /\ pc' = "second"
  /\ mmu' = [mmu EXCEPT !.dir[mmu.dir[mmu.cr3][2]][1] = High]
  /\ UNCHANGED <<mem, read, errors, moved, kbd, a20, pic>>

(* Mutant: page 1 first, while page 0 is still the old one. *)
EditOld ==
  /\ pc = "second" /\ pc' = "main"
  /\ mmu' = [mmu EXCEPT !.dir[mmu.fetched][2] = Low, !.fetched = mmu.dir[mmu.cr3][1]]
  /\ UNCHANGED <<mem, read, errors, moved, kbd, a20, pic>>

(* The second of them; the translations are dropped, and main is called.   *)
EditSecond ==
  /\ pc = "second" /\ pc' = "main"
  /\ LET seen == IF SplitTlb THEN mmu.dir[mmu.cr3][1] ELSE mmu.fetched
     IN  mmu' = [mmu EXCEPT !.dir[seen][2] = Low, !.fetched = mmu.dir[mmu.cr3][1]]
  /\ UNCHANGED <<mem, read, errors, moved, kbd, a20, pic>>

Code ==
  \/ MoveSelf \/ LoadSetup \/ ReadSector \/ AskBios \/ DoMove \/ Send \/ Protect
  \/ CheckA20 \/ EnablePaging \/ CopyUp \/ EditFirst \/ EditSecond
Next == Code \/ ReadFails \/ ControllerTakes

(* The processor goes on, and the keyboard controller takes what it is sent. *)
Spec == Init /\ [][Next]_vars /\ WF_vars(Code) /\ WF_vars(ControllerTakes)

-----------------------------------------------------------------------------
(* Nothing is written over the code that runs, and what is jumped to is    *)
(* there: bootsect where it has moved itself, setup behind it, and the     *)
(* system at 0, which goes on behind its page directory.                   *)
RunsItself ==
  CASE pc \in {"load_setup", "load_system"}        -> mem[INITSEG] = 0
    [] pc \in {"setup", "do_move", "enable_a20"}   -> mem[SETUPSEG] = 1
    [] pc = "head"                                 -> mem[0] = 2
    [] pc \in {"paging", "copy"}                   -> mem[Running] = Running + 2
    [] OTHER                                       -> TRUE

(* The system is read whole and in order, failed reads or not, and comes   *)
(* to 0 as it was on the diskette, but for what head.S makes in it itself: *)
(* the page directory over its first block and, left out of the model, the *)
(* table of interrupts (setup_idt), which has its place in it. What the    *)
(* BIOS told is still there when memory.c reads it (EXTEND_MEMORY).        *)
SystemAsOnDisk ==
  /\ pc \in {"setup", "do_move"} /\ moved = 0 => \A b \in 0 .. SegBlocks - 1 : mem[SYSSEG + b] = b + 2
  /\ pc \in {"enable_a20", "head", "paging", "copy", "first", "second", "main"} =>
       /\ \A b \in 0 .. SegBlocks - 1 : mem[b] = b + 2 \/ (b = 0 /\ pc \notin {"enable_a20", "head"})
       /\ mem[INITSEG] = Parameters

(* In main the directory in use has the system's copy at 0 and, at 4M, the *)
(* page with the memory of the screen, where console.c writes.             *)
ScreenMapped == pc = "main" => mmu.dir[mmu.cr3] = Directory(High, Low)

(* The system starts. *)
Boots == <>(pc = "main")

=============================================================================
