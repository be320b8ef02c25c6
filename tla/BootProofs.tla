------------------------------ MODULE BootProofs ------------------------------
(***************************************************************************)
(* Proofs about Boot, for a system of any size. What bootsect reads is in  *)
(* order when the diskette has the tracks bootsect takes it to have, and   *)
(* main has the screen mapped when the processor keeps the translations of *)
(* code and data apart: the theorems that need it say so.                  *)
(***************************************************************************)
EXTENDS Boot, TLAPS

(* The diskette has LastSector sectors to a track, and the first track     *)
(* holds the first sector that is read, the one behind bootsect and setup. *)
FormattedAsRead == TrackSectors = LastSector /\ LastSector >= 3

(* What is written over the system at 0. *)
IsSystem(b) == mem[b] = b + 2

(* The blocks that read_block has read. *)
Done == SegBlocks - read.left

ReadShape ==
  /\ read \in [ch : Nat, dh : {0, 1}, cl : 1 .. LastSector, left : 0 .. SegBlocks, es : Int]
  /\ read.es = SYSSEG + Done \/ read.left = 0
  /\ pc \in {"bootsect", "load_setup"} => read.left = SegBlocks
  /\ pc = "load_system" => read.left # 0
  /\ Sector = Done + 2 \/ read.left = 0

(* Where the system is: behind the first segment, as far as it was read,   *)
(* and after the first turn of do_move in it.                              *)
SystemShape ==
  /\ moved \in 0 .. LastMoved
  /\ pc \notin {"do_move", "enable_a20", "head", "paging", "copy", "first", "second", "main"}
       => moved = 0
  /\ pc \in {"enable_a20", "head", "paging", "copy", "first", "second", "main"}
       => moved = LastMoved
  /\ pc = "load_system" => \A b \in 0 .. Done - 1 : mem[SYSSEG + b] = b + 2
  /\ pc \in {"setup", "do_move"} /\ moved = 0 =>
       \A b \in 0 .. SegBlocks - 1 : mem[SYSSEG + b] = b + 2
  /\ moved > 0 =>
       \A b \in 1 .. SegBlocks - 1 : IsSystem(b)
  /\ moved > 0 /\ pc \in {"do_move", "enable_a20", "head"} => IsSystem(0)

(* What lies behind the segments that are moved: bootsect, then what setup *)
(* was told, and setup.                                                    *)
CodeShape ==
  /\ mem \in [Blocks -> Int]
  /\ pc = "bootsect" => mem[BOOTSEG] = 0
  /\ pc \in {"load_setup", "load_system"} => mem[INITSEG] = 0
  /\ pc \notin {"bootsect", "load_setup", "load_system", "setup"} => mem[INITSEG] = Parameters
  /\ pc \in {"setup", "do_move", "enable_a20", "load_system"} => mem[SETUPSEG] = 1

Parts == {"bootsect", "load_setup", "load_system", "setup", "do_move", "enable_a20", "head",
          "paging", "copy", "first", "second", "main"}

LoadInv == pc \in Parts /\ ReadShape /\ SystemShape /\ CodeShape

-----------------------------------------------------------------------------
(* The two page directories, and what the processor keeps of them. *)
Mmu(low, high, on, cr3, fetched) ==
  [dir |-> [p \in {Low, High} |-> IF p = Low THEN low ELSE high],
   on |-> on, cr3 |-> cr3, fetched |-> fetched]

Unset == Directory(Other, Other)
Boot0 == Directory(Low, High)

(* The directories after each part of head.S. *)
MmuInv ==
  /\ pc \in Parts
  /\ CASE pc = "copy"   -> mmu = Mmu(Boot0, Unset, TRUE, Low, Low)
       [] pc = "first"  -> mmu = Mmu(Boot0, Boot0, TRUE, High, Low)
       [] pc = "second" -> mmu = Mmu(Boot0, Directory(High, High), TRUE, High, Low)
       [] pc = "main"   -> mmu = Mmu(Boot0, Directory(High, Low), TRUE, High, High)
       [] OTHER         -> mmu = Mmu(Unset, Unset, FALSE, Low, Low)

LEMMA InitMmu == Init => MmuInv
<1> SUFFICES ASSUME Init PROVE MmuInv
  OBVIOUS
<1>1. pc = "bootsect" /\ mmu = Mmu(Unset, Unset, FALSE, Low, Low)
  BY Zenon DEF Init, Mmu, Unset
<1>2. QED
  BY <1>1 DEF MmuInv, Parts

(* The directories are changed by their parts of head.S and by no other:   *)
(* each works on the directory that the earlier ones have left.            *)
LEMMA NextMmu ==
  ASSUME SplitTlb = TRUE
  PROVE  MmuInv /\ [Next]_vars => MmuInv'
<1> SUFFICES ASSUME MmuInv, [Next]_vars PROVE MmuInv'
  OBVIOUS
<1>1. CASE EnablePaging
  <2>1. mmu = Mmu(Unset, Unset, FALSE, Low, Low) /\ pc' = "copy"
    BY <1>1 DEF EnablePaging, MmuInv
  <2>2. mmu' = [mmu EXCEPT !.dir[Low] = Boot0, !.on = TRUE]
    BY <1>1 DEF EnablePaging, Boot0
  <2>3. mmu' = Mmu(Boot0, Unset, TRUE, Low, Low)
    BY <2>1, <2>2 DEF Mmu, Low, High
  <2>4. QED
    BY <2>1, <2>3 DEF MmuInv, Parts
<1>2. CASE CopyUp
  <2>1. mmu = Mmu(Boot0, Unset, TRUE, Low, Low) /\ pc' = "first"
    BY <1>2 DEF CopyUp, MmuInv
  <2>2. mmu' = [mmu EXCEPT !.dir[High] = mmu.dir[Low], !.cr3 = High, !.fetched = mmu.dir[Low][1]]
    BY <1>2 DEF CopyUp
  <2>3. mmu.dir[Low] = Boot0 /\ Boot0[1] = Low
    BY <2>1 DEF Mmu, Low, High, Boot0, Directory
  <2>4. mmu' = Mmu(Boot0, Boot0, TRUE, High, Low)
    BY <2>1, <2>2, <2>3 DEF Mmu, Low, High
  <2>5. QED
    BY <2>1, <2>4 DEF MmuInv, Parts
<1>3. CASE EditFirst
  <2>1. mmu = Mmu(Boot0, Boot0, TRUE, High, Low) /\ pc' = "second"
    BY <1>3 DEF EditFirst, MmuInv
  <2>2. mmu' = [mmu EXCEPT !.dir[mmu.dir[mmu.cr3][2]][1] = High]
    BY <1>3 DEF EditFirst
  <2>3. mmu.dir[mmu.cr3][2] = High /\ mmu.dir[High] = Boot0
    BY <2>1 DEF Mmu, Low, High, Boot0, Directory
  <2>4. [Boot0 EXCEPT ![1] = High] = Directory(High, High)
    BY DEF Boot0, Directory
  <2>5. mmu' = Mmu(Boot0, Directory(High, High), TRUE, High, Low)
    BY <2>1, <2>2, <2>3, <2>4 DEF Mmu, Low, High
  <2>6. QED
    BY <2>1, <2>5 DEF MmuInv, Parts
<1>4. CASE EditSecond
  <2>1. mmu = Mmu(Boot0, Directory(High, High), TRUE, High, Low) /\ pc' = "main"
    BY <1>4 DEF EditSecond, MmuInv
  <2>2. mmu.dir[mmu.cr3][1] = High /\ mmu.dir[High] = Directory(High, High)
    BY <2>1 DEF Mmu, Low, High, Directory
  <2>3. mmu' = [mmu EXCEPT !.dir[High][2] = Low, !.fetched = High]
    BY <1>4, <2>2 DEF EditSecond
  <2>4. [Directory(High, High) EXCEPT ![2] = Low] = Directory(High, Low)
    BY DEF Directory
  <2>5. mmu' = Mmu(Boot0, Directory(High, Low), TRUE, High, High)
    BY <2>1, <2>2, <2>3, <2>4 DEF Mmu, Low, High
  <2>6. QED
    BY <2>1, <2>5 DEF MmuInv, Parts
<1>5. ASSUME \/ MoveSelf \/ LoadSetup \/ ReadSector \/ AskBios \/ DoMove \/ Send \/ Protect
             \/ CheckA20 \/ ReadFails \/ ControllerTakes \/ UNCHANGED vars
      PROVE  MmuInv'
  BY <1>5 DEF MoveSelf, LoadSetup, ReadSector, AskBios, DoMove, Send, Protect, CheckA20,
              ReadFails, ControllerTakes, vars, MmuInv, Parts
<1>6. QED
  BY <1>1, <1>2, <1>3, <1>4, <1>5 DEF Next, Code

(***************************************************************************)
(* boot/head.S leaves main with a directory that maps the memory of the    *)
(* screen at 4M, although it edits the directories through each other's    *)
(* mappings, if the store that follows the first edit is translated anew.  *)
(***************************************************************************)
THEOREM ScreenStaysMapped == ASSUME SplitTlb = TRUE PROVE Spec => []ScreenMapped
<1>1. MmuInv => ScreenMapped
  <2> SUFFICES ASSUME MmuInv, pc = "main" PROVE mmu.dir[mmu.cr3] = Directory(High, Low)
    BY DEF ScreenMapped
  <2>1. mmu = Mmu(Boot0, Directory(High, Low), TRUE, High, High)
    BY DEF MmuInv
  <2>2. QED
    BY <2>1 DEF Mmu, Low, High
<1>2. QED
  BY <1>1, InitMmu, NextMmu, PTL DEF Spec

-----------------------------------------------------------------------------
Loaded == {"enable_a20", "head", "paging", "copy", "first", "second", "main"}

LEMMA Layout ==
  /\ SegBlocks \in Nat /\ SegBlocks > 16
  /\ SYSSEG = SegBlocks /\ INITSEG = 9 * SegBlocks /\ SETUPSEG = 9 * SegBlocks + 1
  /\ Blocks = 0 .. 10 * SegBlocks - 1
  BY BootAssumption DEF SYSSEG, INITSEG, SETUPSEG, Blocks

(* next_sector goes to the next sector of the diskette.                    *)
LEMMA NextSectorFollows ==
  ASSUME FormattedAsRead,
         NEW r \in [ch : Nat, dh : {0, 1}, cl : 1 .. LastSector, left : 0 .. SegBlocks, es : Int]
  PROVE  LET n == NextSector(r)
         IN  /\ n \in [ch : Nat, dh : {0, 1}, cl : 1 .. LastSector, left : 0 .. SegBlocks, es : Int]
             /\ n.left = r.left /\ n.es = r.es
             /\ (n.ch * 2 + n.dh) * TrackSectors + n.cl - 1
                  = (r.ch * 2 + r.dh) * TrackSectors + r.cl
<1> DEFINE n == NextSector(r)
<1>1. TrackSectors = LastSector /\ LastSector \in Nat /\ LastSector >= 3
  BY BootAssumption DEF FormattedAsRead
<1>2. CASE r.cl < LastSector
  <2>1. n = [r EXCEPT !.cl = r.cl + 1]
    BY <1>2 DEF NextSector
  <2> HIDE DEF n
  <2>2. n.ch = r.ch /\ n.dh = r.dh /\ n.cl = r.cl + 1 /\ n.left = r.left /\ n.es = r.es
        /\ n \in [ch : Nat, dh : {0, 1}, cl : 1 .. LastSector, left : 0 .. SegBlocks, es : Int]
    BY <1>1, <1>2, <2>1
  <2> DEFINE k == (r.ch * 2 + r.dh) * TrackSectors
  <2>3. k \in Nat /\ r.cl \in Nat
    BY <1>1
  <2>4. k + (r.cl + 1) - 1 = k + r.cl
    BY <2>3
  <2>5. QED
    BY <2>2, <2>4 DEF n
<1>3. CASE r.cl = LastSector
  <2> DEFINE k == r.ch * 2 + r.dh
             m == n.ch * 2 + n.dh
  <2>1. n = [r EXCEPT !.cl = 1, !.dh = 1 - r.dh, !.ch = IF r.dh = 0 THEN r.ch ELSE r.ch + 1]
    BY <1>1, <1>3 DEF NextSector
  <2> HIDE DEF n
  <2>2. n = [ch |-> IF r.dh = 0 THEN r.ch ELSE r.ch + 1, dh |-> 1 - r.dh, cl |-> 1,
             left |-> r.left, es |-> r.es]
    BY <2>1
  <2>3. r.ch \in Nat /\ r.dh \in {0, 1} /\ r.left \in 0 .. SegBlocks /\ r.es \in Int
    OBVIOUS
  <2>4. n.cl = 1 /\ n.dh = 1 - r.dh /\ n.ch = (IF r.dh = 0 THEN r.ch ELSE r.ch + 1)
        /\ n.left = r.left /\ n.es = r.es
        /\ n \in [ch : Nat, dh : {0, 1}, cl : 1 .. LastSector, left : 0 .. SegBlocks, es : Int]
    BY <1>1, <2>2, <2>3
  <2>5. k \in Nat /\ m = k + 1
    BY <2>4
  <2> HIDE DEF k, m
  <2>6. m * TrackSectors = k * TrackSectors + TrackSectors /\ k * TrackSectors \in Nat
    BY <1>1, <2>5
  <2>7. m * TrackSectors + n.cl - 1 = k * TrackSectors + r.cl
    BY <1>1, <1>3, <2>4, <2>6
  <2>8. QED
    BY <2>4, <2>7 DEF n, k, m
<1>4. QED
  BY <1>1, <1>2, <1>3

LEMMA InitLoad == ASSUME FormattedAsRead PROVE Init => LoadInv
<1> SUFFICES ASSUME Init PROVE LoadInv
  OBVIOUS
<1>1. pc = "bootsect" /\ moved = 0 /\ mem = [b \in Blocks |-> IF b = BOOTSEG THEN 0 ELSE Other]
      /\ read = [ch |-> 0, dh |-> 0, cl |-> 3, left |-> SegBlocks, es |-> SYSSEG]
  BY DEF Init
<1>2. ReadShape
  <2>1. LastSector \in Nat /\ TrackSectors \in Nat
    BY BootAssumption
  <2>2. (read.ch * 2 + read.dh) * TrackSectors = 0
    <3>1. read.ch * 2 + read.dh = 0
      BY <1>1
    <3>2. QED
      BY <2>1, <3>1
  <2>3. Sector = 2 /\ Done = 0
    BY <1>1, <2>2, Layout DEF Sector, Done
  <2>4. QED
    BY <1>1, <2>1, <2>3, Layout DEF ReadShape, FormattedAsRead
<1>3. SystemShape
  BY <1>1 DEF SystemShape, LastMoved
<1>4. CodeShape
  BY <1>1, Layout DEF CodeShape, BOOTSEG, Other
<1>5. QED
  BY <1>1, <1>2, <1>3, <1>4 DEF LoadInv, Parts

(* What changes neither the memory nor the registers keeps all there is    *)
(* to know of them, as the boot goes on.                                   *)
LEMMA ReadKept ==
  ASSUME ReadShape, UNCHANGED read,
         pc' \in {"bootsect", "load_setup", "load_system"} => read.left = SegBlocks \/ pc' = pc
  PROVE  ReadShape'
  BY Layout DEF ReadShape, Sector, Done

LEMMA ReadSectorLoad ==
  ASSUME FormattedAsRead, LoadInv, ReadSector
  PROVE  LoadInv'
<1>1. /\ pc = "load_system" /\ mem' = [mem EXCEPT ![read.es] = Sector] /\ UNCHANGED moved
      /\ read.left # 0 /\ read.es = SYSSEG + Done /\ Sector = Done + 2 /\ moved = 0
      /\ read \in [ch : Nat, dh : {0, 1}, cl : 1 .. LastSector, left : 0 .. SegBlocks, es : Int]
      /\ mem \in [Blocks -> Int] /\ mem[INITSEG] = 0 /\ mem[SETUPSEG] = 1
  BY DEF ReadSector, LoadInv, ReadShape, SystemShape, CodeShape
<1>2. Done \in 0 .. SegBlocks - 1 /\ read.left = SegBlocks - Done
  <2>1. read.left \in 0 .. SegBlocks /\ read.left # 0
    BY <1>1
  <2>2. QED
    BY <2>1, Layout DEF Done
<1>3. mem' = [mem EXCEPT ![SYSSEG + Done] = Done + 2] /\ SYSSEG + Done \in Blocks
  BY <1>1, <1>2, Layout
<1>4. \A b \in 0 .. Done : mem'[SYSSEG + b] = b + 2
  <2>1. \A b \in 0 .. Done - 1 : mem[SYSSEG + b] = b + 2
    BY <1>1 DEF LoadInv, SystemShape
  <2>2. \A b \in 0 .. Done : SYSSEG + b \in Blocks
    BY <1>2, Layout
  <2>3. mem \in [Blocks -> Int]
    BY <1>1
  <2>4. ASSUME NEW b \in 0 .. Done, b = Done
        PROVE  mem'[SYSSEG + b] = b + 2
    BY <1>3, <2>3, <2>4
  <2>5. ASSUME NEW b \in 0 .. Done - 1
        PROVE  mem'[SYSSEG + b] = b + 2
    <3>1. SYSSEG + b \in Blocks /\ SYSSEG + b # SYSSEG + Done
      BY <1>2, <2>2, Layout
    <3>2. mem'[SYSSEG + b] = mem[SYSSEG + b]
      BY <1>3, <2>3, <3>1
    <3>3. QED
      BY <2>1, <3>2
  <2>6. \A b \in 0 .. Done : b \in 0 .. Done - 1 \/ b = Done
    BY <1>2
  <2>7. QED
    BY <2>4, <2>5, <2>6
<1>5. mem' \in [Blocks -> Int] /\ mem'[INITSEG] = 0 /\ mem'[SETUPSEG] = 1
  <2>1. mem \in [Blocks -> Int] /\ mem[INITSEG] = 0 /\ mem[SETUPSEG] = 1
    BY <1>1
  <2>2. INITSEG \in Blocks /\ SETUPSEG \in Blocks /\ Done + 2 \in Int
        /\ SYSSEG + Done # INITSEG /\ SYSSEG + Done # SETUPSEG
    BY <1>2, Layout
  <2>3. mem' = [mem EXCEPT ![SYSSEG + Done] = Done + 2] /\ SYSSEG + Done \in Blocks
    BY <1>3
  <2>4. mem' \in [Blocks -> Int]
    BY <2>1, <2>2, <2>3
  <2>5. mem'[INITSEG] = mem[INITSEG] /\ mem'[SETUPSEG] = mem[SETUPSEG]
    BY <2>1, <2>2, <2>3
  <2>6. QED
    BY <2>1, <2>4, <2>5
<1>6. CASE read.left = 1
  <2>1. pc' = "setup" /\ read' = [read EXCEPT !.left = 0] /\ Done = SegBlocks - 1
    BY <1>2, <1>6, Layout DEF ReadSector
  <2>2. ReadShape'
    <3>1. read'.left = 0
      BY <1>1, <2>1
    <3>2. read' \in [ch : Nat, dh : {0, 1}, cl : 1 .. LastSector, left : 0 .. SegBlocks, es : Int]
      <4>1. read' = [ch |-> read.ch, dh |-> read.dh, cl |-> read.cl, left |-> 0, es |-> read.es]
        BY <1>1, <2>1
      <4>2. 0 \in 0 .. SegBlocks
        BY Layout
      <4>3. QED
        BY <1>1, <4>1, <4>2
    <3>3. QED
      BY <2>1, <3>1, <3>2 DEF ReadShape
  <2>3. SystemShape'
    BY <1>1, <1>4, <2>1 DEF SystemShape, LastMoved
  <2>4. CodeShape'
    BY <1>5, <2>1 DEF CodeShape
  <2>5. QED
    BY <2>1, <2>2, <2>3, <2>4 DEF LoadInv, Parts
<1>7. CASE read.left # 1
  <2> DEFINE n == NextSector(read)
  <2>1. pc' = pc /\ read' = [n EXCEPT !.left = n.left - 1, !.es = n.es + 1]
    BY <1>7 DEF ReadSector
  <2>2. /\ n \in [ch : Nat, dh : {0, 1}, cl : 1 .. LastSector, left : 0 .. SegBlocks, es : Int]
        /\ n.left = read.left /\ n.es = read.es
        /\ (n.ch * 2 + n.dh) * TrackSectors + n.cl - 1
             = (read.ch * 2 + read.dh) * TrackSectors + read.cl
    BY <1>1, NextSectorFollows
  <2> HIDE DEF n
  <2>3. /\ read' \in [ch : Nat, dh : {0, 1}, cl : 1 .. LastSector, left : 0 .. SegBlocks, es : Int]
        /\ read'.left = read.left - 1 /\ read'.es = read.es + 1
        /\ read'.ch = n.ch /\ read'.dh = n.dh /\ read'.cl = n.cl
    <3>1. read.left \in 0 .. SegBlocks /\ read.left # 0 /\ read.left - 1 \in 0 .. SegBlocks
      <4>1. read.left \in 0 .. SegBlocks /\ read.left # 0
        BY <1>1
      <4>2. QED
        BY <4>1, Layout
    <3>2. n.es \in Int /\ n.ch \in Nat /\ n.dh \in {0, 1} /\ n.cl \in 1 .. LastSector
      BY <2>2
    <3>3. read' = [ch |-> n.ch, dh |-> n.dh, cl |-> n.cl, left |-> n.left - 1, es |-> n.es + 1]
      BY <2>1, <2>2
    <3>4. n.left - 1 = read.left - 1 /\ n.es + 1 = read.es + 1 /\ n.es + 1 \in Int
      BY <2>2, <3>2
    <3>5. n.left - 1 \in 0 .. SegBlocks
      BY <3>1, <3>4
    <3>6. read' \in [ch : Nat, dh : {0, 1}, cl : 1 .. LastSector, left : 0 .. SegBlocks, es : Int]
      BY <3>2, <3>3, <3>4, <3>5
    <3>7. QED
      BY <3>3, <3>4, <3>6
  <2>4. Done' = Done + 1
    BY <1>1, <2>3, Layout DEF Done
  <2>5. Sector' = Sector + 1
    <3> DEFINE k == (read.ch * 2 + read.dh) * TrackSectors
    <3>1. k \in Nat /\ read.cl \in Nat
      <4>1. TrackSectors \in Nat /\ LastSector \in Nat
        BY BootAssumption
      <4>2. read.ch \in Nat /\ read.dh \in Nat /\ read.cl \in 1 .. LastSector
        BY <1>1
      <4>3. (read.ch * 2 + read.dh) \in Nat /\ read.cl \in Nat
        BY <4>1, <4>2
      <4> DEFINE t == read.ch * 2 + read.dh
      <4> HIDE DEF t, k
      <4>4. t \in Nat /\ k = t * TrackSectors
        BY <4>3 DEF t, k
      <4>5. QED
        BY <4>1, <4>3, <4>4
    <3>2. Sector' = k + read.cl
      BY <2>2, <2>3 DEF Sector
    <3>3. Sector = k + read.cl - 1
      BY DEF Sector
    <3> HIDE DEF k
    <3>4. QED
      BY <3>1, <3>2, <3>3
  <2>6. ReadShape'
    <3>1. read'.es = SYSSEG + Done' /\ Sector' = Done' + 2 /\ read'.left # 0 /\ pc' = "load_system"
      <4>1. read.es = SYSSEG + Done /\ Sector = Done + 2 /\ Done \in Nat /\ SYSSEG \in Nat
        BY <1>1, <1>2, Layout
      <4>2. read'.es = read.es + 1 /\ Sector' = Sector + 1 /\ Done' = Done + 1
        BY <2>3, <2>4, <2>5
      <4>3. read.left \in Nat /\ read'.left = read.left - 1 /\ read.left # 1
        BY <1>2, <1>7, <2>3, Layout
      <4>4. pc' = "load_system"
        BY <1>1, <2>1
      <4>5. QED
        BY <4>1, <4>2, <4>3, <4>4
    <3>2. QED
      BY <2>3, <3>1 DEF ReadShape
  <2>7. SystemShape'
    <3>1. \A b \in 0 .. Done' - 1 : mem'[SYSSEG + b] = b + 2
      BY <1>2, <1>4, <2>4
    <3>2. pc' = "load_system" /\ moved' = 0
      BY <1>1, <2>1
    <3>3. QED
      BY <3>1, <3>2 DEF SystemShape, LastMoved
  <2>8. CodeShape'
    BY <1>1, <1>5, <2>1 DEF CodeShape
  <2>9. QED
    BY <1>1, <2>1, <2>6, <2>7, <2>8 DEF LoadInv, Parts
<1>8. QED
  BY <1>6, <1>7

(* The first turn of do_move takes the system to 0, the later ones move    *)
(* what lies behind it, and none reaches the segment of setup.             *)
LEMMA DoMoveLoad ==
  ASSUME LoadInv, DoMove
  PROVE  LoadInv'
<1>1. /\ pc = "do_move" /\ UNCHANGED read /\ moved \in 0 .. 8 /\ mem \in [Blocks -> Int]
      /\ mem[INITSEG] = Parameters /\ mem[SETUPSEG] = 1
  BY DEF DoMove, LoadInv, SystemShape, CodeShape, LastMoved
<1>2. CASE moved = LastMoved
  <2>1. pc' = "enable_a20" /\ UNCHANGED <<mem, moved>>
    BY <1>2 DEF DoMove
  <2>2. ReadShape'
    BY <1>1, <2>1, ReadKept DEF LoadInv
  <2>3. QED
    BY <1>1, <1>2, <2>1, <2>2 DEF LoadInv, Parts, SystemShape, CodeShape, IsSystem, LastMoved
<1>3. CASE moved # LastMoved
  <2>1. /\ pc' = pc /\ moved' = moved + 1 /\ moved \in 0 .. 7
        /\ mem' = [b \in Blocks |->
             IF b \in moved * SegBlocks .. (moved + 1) * SegBlocks - 1 /\ b + SegBlocks \in Blocks
               THEN mem[b + SegBlocks] ELSE mem[b]]
    BY <1>1, <1>3 DEF DoMove, LastMoved
  <2>2. ReadShape'
    BY <1>1, <2>1, ReadKept DEF LoadInv
  <2>3. (moved + 1) * SegBlocks <= 8 * SegBlocks /\ (moved > 0 => moved * SegBlocks >= SegBlocks)
    BY <2>1, Layout
  <2>4. mem' \in [Blocks -> Int]
    BY <1>1, <2>1
  <2>5. mem'[INITSEG] = Parameters /\ mem'[SETUPSEG] = 1
    <3> DEFINE low == moved * SegBlocks
               high == (moved + 1) * SegBlocks
    <3>1. high <= 8 * SegBlocks /\ high \in Int /\ low \in Int
      BY <2>1, <2>3, Layout
    <3>2. mem' = [b \in Blocks |-> IF b \in low .. high - 1 /\ b + SegBlocks \in Blocks
                                     THEN mem[b + SegBlocks] ELSE mem[b]]
      BY <2>1
    <3> HIDE DEF low, high
    <3>3. QED
      BY <1>1, <3>1, <3>2, Layout
  <2>6. \A b \in 0 .. SegBlocks - 1 : mem'[b] = b + 2
    <3>1. CASE moved = 0
      <4>1. mem' = [b \in Blocks |-> IF b \in 0 .. SegBlocks - 1 /\ b + SegBlocks \in Blocks
                                       THEN mem[b + SegBlocks] ELSE mem[b]]
        BY <2>1, <3>1, Layout
      <4>2. \A b \in 0 .. SegBlocks - 1 : mem[SYSSEG + b] = b + 2
        BY <1>1, <3>1 DEF LoadInv, SystemShape
      <4>3. \A b \in 0 .. SegBlocks - 1 : b \in Blocks /\ b + SegBlocks \in Blocks /\ SYSSEG + b = b + SegBlocks
        BY Layout
      <4>4. QED
        BY <4>1, <4>2, <4>3
    <3>2. CASE moved # 0
      <4> DEFINE low == moved * SegBlocks
                 high == (moved + 1) * SegBlocks
      <4>1. moved > 0 /\ low >= SegBlocks /\ low \in Int /\ high \in Int
        BY <2>1, <2>3, <3>2, Layout
      <4>2. mem' = [b \in Blocks |-> IF b \in low .. high - 1 /\ b + SegBlocks \in Blocks
                                       THEN mem[b + SegBlocks] ELSE mem[b]]
        BY <2>1
      <4> HIDE DEF low, high
      <4>3. \A b \in 0 .. SegBlocks - 1 : b \in Blocks /\ mem'[b] = mem[b]
        BY <4>1, <4>2, Layout
      <4>4. \A b \in 0 .. SegBlocks - 1 : mem[b] = b + 2
        <5>1. (\A b \in 1 .. SegBlocks - 1 : mem[b] = b + 2) /\ mem[0] = 0 + 2
          BY <1>1, <4>1 DEF LoadInv, SystemShape, IsSystem
        <5>2. \A b \in 0 .. SegBlocks - 1 : b = 0 \/ b \in 1 .. SegBlocks - 1
          BY Layout
        <5>3. QED
          BY <5>1, <5>2
      <4>5. QED
        BY <4>3, <4>4
    <3>3. QED
      BY <3>1, <3>2
  <2>7. SystemShape'
    <3>1. moved' \in 1 .. 8 /\ pc' = "do_move"
      BY <1>1, <2>1
    <3>2. (\A b \in 1 .. SegBlocks - 1 : mem'[b] = b + 2) /\ mem'[0] = 0 + 2
      BY <2>6, Layout
    <3>3. QED
      BY <3>1, <3>2 DEF SystemShape, IsSystem, LastMoved
  <2>8. CodeShape'
    BY <1>1, <2>1, <2>4, <2>5 DEF CodeShape
  <2>9. QED
    BY <1>1, <2>1, <2>2, <2>7, <2>8 DEF LoadInv, Parts
<1>4. QED
  BY <1>2, <1>3

(* The other stores of bootsect and setup hit neither the system nor code  *)
(* that is still to run.                                                   *)
LEMMA OtherStoresLoad ==
  ASSUME LoadInv, MoveSelf \/ LoadSetup \/ ReadFails \/ AskBios \/ CheckA20
  PROVE  LoadInv'
<1>1. /\ mem \in [Blocks -> Int] /\ moved \in 0 .. 8
      /\ INITSEG \in Blocks /\ SETUPSEG \in Blocks /\ 0 \in Blocks /\ BOOTSEG \in Blocks
      /\ INITSEG # SETUPSEG /\ 0 # INITSEG /\ 0 # SETUPSEG
      /\ \A b \in 0 .. SegBlocks - 1 : /\ SYSSEG + b \in Blocks /\ SYSSEG + b # INITSEG
                                       /\ SYSSEG + b # SETUPSEG /\ b \in Blocks /\ b # INITSEG
  BY Layout DEF LoadInv, CodeShape, SystemShape, LastMoved, BOOTSEG
<1>2. CASE MoveSelf
  <2>1. pc = "bootsect" /\ pc' = "load_setup" /\ mem' = [mem EXCEPT ![INITSEG] = 0]
        /\ UNCHANGED <<read, moved>> /\ read.left = SegBlocks /\ moved = 0
    BY <1>2 DEF MoveSelf, LoadInv, CodeShape, ReadShape, SystemShape
  <2>2. ReadShape'
    BY <2>1, ReadKept DEF LoadInv
  <2>3. QED
    BY <1>1, <2>1, <2>2 DEF LoadInv, Parts, SystemShape, CodeShape, LastMoved
<1>3. CASE LoadSetup
  <2>1. pc = "load_setup" /\ pc' = "load_system" /\ mem' = [mem EXCEPT ![SETUPSEG] = 1]
        /\ UNCHANGED <<read, moved>> /\ read.left = SegBlocks /\ moved = 0 /\ mem[INITSEG] = 0
    BY <1>3 DEF LoadSetup, LoadInv, CodeShape, ReadShape, SystemShape
  <2>2. ReadShape'
    BY <2>1, ReadKept DEF LoadInv
  <2>3. CodeShape'
    BY <1>1, <2>1 DEF CodeShape
  <2>4. SystemShape'
    <3>1. Done' = 0 /\ pc' = "load_system" /\ moved' = 0
      BY <2>1, Layout DEF Done
    <3>2. QED
      BY <3>1 DEF SystemShape, LastMoved
  <2>5. QED
    BY <2>1, <2>2, <2>3, <2>4 DEF LoadInv, Parts
<1>4. CASE ReadFails
  <2>1. UNCHANGED <<pc, read, moved>> /\ ReadShape'
    BY <1>4, ReadKept DEF ReadFails, LoadInv
  <2>2. CASE pc = "load_setup" /\ mem' = [mem EXCEPT ![SETUPSEG] = Half]
    <3>1. CodeShape'
      BY <1>1, <2>1, <2>2 DEF CodeShape, LoadInv, Half
    <3>2. SystemShape'
      BY <1>1, <2>1, <2>2 DEF SystemShape, LoadInv, LastMoved
    <3>3. QED
      BY <2>1, <3>1, <3>2 DEF LoadInv
  <2>3. CASE pc = "load_system" /\ mem' = [mem EXCEPT ![read.es] = Half]
    <3>1. /\ read.es = SYSSEG + Done /\ Done \in 0 .. SegBlocks - 1 /\ moved = 0
          /\ mem[INITSEG] = 0 /\ mem[SETUPSEG] = 1
          /\ \A b \in 0 .. Done - 1 : mem[SYSSEG + b] = b + 2
      <4>1. read.left \in 0 .. SegBlocks /\ read.left # 0 /\ read.es = SYSSEG + Done
        BY <2>3 DEF LoadInv, ReadShape
      <4>2. Done \in 0 .. SegBlocks - 1
        BY <4>1, Layout DEF Done
      <4>3. moved = 0 /\ \A b \in 0 .. Done - 1 : mem[SYSSEG + b] = b + 2
        BY <2>3 DEF LoadInv, SystemShape
      <4>4. mem[INITSEG] = 0 /\ mem[SETUPSEG] = 1
        BY <2>3 DEF LoadInv, CodeShape
      <4>5. QED
        BY <4>1, <4>2, <4>3, <4>4
    <3>2. mem' \in [Blocks -> Int] /\ mem'[INITSEG] = 0 /\ mem'[SETUPSEG] = 1
      BY <1>1, <2>3, <3>1 DEF Half
    <3>3. \A b \in 0 .. Done - 1 : mem'[SYSSEG + b] = b + 2
      BY <1>1, <2>3, <3>1, Layout
    <3>4. Done' = Done
      BY <2>1 DEF Done
    <3>5. SystemShape'
      BY <2>1, <2>3, <3>1, <3>3, <3>4 DEF SystemShape, LastMoved
    <3>6. CodeShape'
      BY <2>1, <2>3, <3>2 DEF CodeShape
    <3>7. QED
      BY <2>1, <3>5, <3>6 DEF LoadInv
  <2>4. QED
    BY <1>4, <2>2, <2>3 DEF ReadFails
<1>5. CASE AskBios
  <2>1. pc = "setup" /\ pc' = "do_move" /\ mem' = [mem EXCEPT ![INITSEG] = Parameters]
        /\ UNCHANGED <<read, moved>> /\ moved = 0 /\ mem[SETUPSEG] = 1
        /\ \A b \in 0 .. SegBlocks - 1 : mem[SYSSEG + b] = b + 2
    BY <1>5 DEF AskBios, LoadInv, CodeShape, SystemShape
  <2>2. ReadShape'
    BY <2>1, ReadKept DEF LoadInv
  <2>3. CodeShape'
    BY <1>1, <2>1 DEF CodeShape, Parameters
  <2>4. SystemShape'
    <3>1. \A b \in 0 .. SegBlocks - 1 : mem'[SYSSEG + b] = b + 2
      BY <1>1, <2>1
    <3>2. QED
      BY <2>1, <3>1 DEF SystemShape, LastMoved
  <2>5. QED
    BY <2>1, <2>2, <2>3, <2>4 DEF LoadInv, Parts
<1>6. CASE CheckA20
  <2>1. pc = "head" /\ pc' = "paging" /\ mem' = [mem EXCEPT ![0] = PageDir]
        /\ UNCHANGED <<read, moved>> /\ moved = 8 /\ mem[INITSEG] = Parameters
        /\ \A b \in 1 .. SegBlocks - 1 : mem[b] = b + 2
    BY <1>6 DEF CheckA20, LoadInv, CodeShape, SystemShape, IsSystem, LastMoved
  <2>2. ReadShape'
    BY <2>1, ReadKept DEF LoadInv
  <2>3. CodeShape'
    BY <1>1, <2>1 DEF CodeShape, PageDir
  <2>4. SystemShape'
    <3>1. \A b \in 1 .. SegBlocks - 1 : mem'[b] = b + 2
      BY <1>1, <2>1, Layout
    <3>2. QED
      BY <2>1, <3>1 DEF SystemShape, IsSystem, LastMoved
  <2>5. QED
    BY <2>1, <2>2, <2>3, <2>4 DEF LoadInv, Parts
<1>7. QED
  BY <1>2, <1>3, <1>4, <1>5, <1>6

(* Nor do the parts that store nothing there. *)
LEMMA OtherPartsLoad ==
  ASSUME LoadInv,
         \/ Send \/ Protect \/ EnablePaging \/ CopyUp \/ EditFirst \/ EditSecond
         \/ ControllerTakes \/ UNCHANGED vars
  PROVE  LoadInv'
<1>1. UNCHANGED <<mem, read, moved>>
  BY DEF Send, Protect, EnablePaging, CopyUp, EditFirst, EditSecond, ControllerTakes, vars
<1>2. \/ pc' = pc
      \/ pc = "enable_a20" /\ pc' = "head"
      \/ pc \in {"paging", "copy", "first", "second"} /\ pc' \in {"copy", "first", "second", "main"}
  BY DEF Send, Protect, EnablePaging, CopyUp, EditFirst, EditSecond, ControllerTakes, vars
<1>3. ReadShape'
  BY <1>1, <1>2, ReadKept DEF LoadInv
<1>4. QED
  BY <1>1, <1>2, <1>3 DEF LoadInv, Parts, SystemShape, CodeShape, IsSystem, Done

LEMMA LoadInductive == ASSUME FormattedAsRead PROVE Spec => []LoadInv
<1>1. LoadInv /\ [Next]_vars => LoadInv'
  BY ReadSectorLoad, DoMoveLoad, OtherStoresLoad, OtherPartsLoad DEF Next, Code
<1>2. QED
  BY <1>1, InitLoad, PTL DEF Spec

(***************************************************************************)
(* However often a read fails, nothing is written over code that is still  *)
(* to run, through the two moves of bootsect and setup and the page        *)
(* directory that head.S writes over itself.                               *)
(***************************************************************************)
THEOREM CodeStaysWhole == ASSUME FormattedAsRead PROVE Spec => []RunsItself
<1>1. LoadInv => RunsItself
  <2> SUFFICES ASSUME LoadInv PROVE RunsItself
    OBVIOUS
  <2>1. pc = "head" => mem[0] = 2
    BY DEF LoadInv, SystemShape, IsSystem, LastMoved
  <2>2. pc \in {"paging", "copy"} => mem[Running] = Running + 2
    BY Layout DEF LoadInv, SystemShape, IsSystem, LastMoved, Running
  <2>3. QED
    BY <2>1, <2>2 DEF RunsItself, LoadInv, CodeShape
<1>2. QED
  BY <1>1, LoadInductive, PTL

(***************************************************************************)
(* A system of any number of sectors comes to 0 whole and in order, across *)
(* the tracks, sides and cylinders of next_sector and the eight moves of   *)
(* do_move, and what setup was told stays for memory.c.                    *)
(***************************************************************************)
THEOREM SystemStaysAsOnDisk == ASSUME FormattedAsRead PROVE Spec => []SystemAsOnDisk
<1>1. LoadInv => SystemAsOnDisk
  <2> SUFFICES ASSUME LoadInv PROVE SystemAsOnDisk
    OBVIOUS
  <2>1. pc \in Loaded => moved > 0 /\ mem[INITSEG] = Parameters
    BY DEF Loaded, LoadInv, SystemShape, CodeShape, LastMoved
  <2>2. pc \in Loaded =>
          \A b \in 0 .. SegBlocks - 1 : mem[b] = b + 2 \/ (b = 0 /\ pc \notin {"enable_a20", "head"})
    <3>1. \A b \in 0 .. SegBlocks - 1 : b = 0 \/ b \in 1 .. SegBlocks - 1
      BY Layout
    <3>2. QED
      BY <2>1, <3>1 DEF LoadInv, SystemShape, IsSystem
  <2>3. pc \in {"setup", "do_move"} /\ moved = 0 => \A b \in 0 .. SegBlocks - 1 : mem[SYSSEG + b] = b + 2
    BY DEF LoadInv, SystemShape
  <2>4. QED
    BY <2>1, <2>2, <2>3 DEF SystemAsOnDisk, Loaded
<1>2. QED
  BY <1>1, LoadInductive, PTL

=============================================================================
