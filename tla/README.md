# Scheme OS in TLA+

Scheme OS is a small x86 kernel that boots into a Scheme interpreter, and a
Scheme compiler with a virtual machine beside it. This directory holds TLA+
modules of its parts, TLC instances that check them, and TLAPS proofs. Paths
below are relative to the repository (`src/` there).

Check a module with `tlc -config X.cfg M`, a proof module with `tlapm M.tla`.

## 1. Inventory

One process runs in the kernel, interrupts are never enabled, nothing is stored
on disk. What makes the code hard is therefore not scheduling but *sequences*: a
legal call that leaves a list, a buffer or a table in a state that a much later
call trips over, resources that run out half way through an operation, and
pointers that two functions keep for the same thing.

| Component | State | Operations | Uses | What makes it correct |
|---|---|---|---|---|
| boot (`boot/*.S`) | first megabyte, registers of the reader, 8042, 8259A, page directories | read with retry, move to 0, A20, `setup_8259a`, `setup_paging` | BIOS, devices | the system arrives whole, nothing is written over what runs, the directory maps what `main` needs |
| paging (`mm/memory.c`) | `_mm_bitmap`, page directory and tables, TLB entry of the window, `kscm_kernel_mm` | `kscm_init_paging`, `get_free_frame`, `put_page`, `expand_region` | boot's directory | no frame for two pages, tables out of reach, regions apart, bitmap and tables agree |
| kernel heap (`lib/malloc.c`) | free list in the heap region, `_g_free_mem_list` | `kmalloc`, `kfree` | `expand_region(mm_heap)` | blocks tile the heap, calls return |
| slot allocator (`mm/gc.c`, not linked) | list of slots | alloc, free | `expand_region(mm_slots)` | a slot has one owner |
| console (`kscm/console.c`) | cursor, video memory | `console_print`, `scroll_down` | `memmove` | the screen is a scrolling terminal |
| library (`lib/*.c`, `include/string.h`, `ctype.h`) | none | string, number, print functions | console | a number is read back as it was printed, strings compare as the caller expects |
| ports (`kscm/scheme/port.c`) | `_line_buffer`, `_offset`, tag of a stream | get, peek, string | keyboard | lines come whole, once, in order |
| reader (`kscm/scheme/read.c`) | token and scan buffers | `_make_token_seq`, `_create_*` | port, symbols | one expression per read, read of what was displayed is the same |
| symbols (`kscm/scheme/symbol.c`) | hash table | `scheme_make_symbol` | heap | one symbol per name |
| environments (`kscm/scheme/env.c`) | frames, blocks of bindings | lookup, extend, define, set | heap | frames behave as scopes |
| evaluator (`kscm/scheme/eval.c`, `proc.c`, `bool.c`) | expressions, the shared `scheme_null` and `scheme_void` | analyse, eval, apply | environments, symbols | value of an expression depends on its text and scope only |
| Scheme collector (`kscm/scheme/gc.c`, `gc.h`; linked, never initialised) | regions, generations, entries, eval stack | region ring, write barrier | `expand_region(mm_slots)` | a region has one owner, what is reachable survives |
| primitives (`list.c`, `numb.c`, `sstring.c`), display | cells of the heap | the registered procedures | heap | what they are given is not changed, what is printed can be read |
| kernel main (`kscm/start.c`, `proc.c`, `core.c`) | none of its own | initialisation order, read-eval-print loop | all | each part is initialised before it is used |
| compiler (`tools/compiler/src`) | next label | expression to code, variables to places | | labels are unique, code keeps the stack discipline |
| SVM (`tools/compiler/lib`, `include`) | registers, stack, continuations | instructions, builtins | its bump allocator | a program has the value the language gives it |
| generated (Happy, Alex, disassembly, linker map) | | | | no source of its own |

Calls run strictly downwards: the loop of `start.c` calls the reader, which calls
the port and `scheme_make_symbol`; the evaluator calls the environment; both
allocate with `kmalloc`; `kmalloc` calls `expand_region`, which calls
`get_free_frame` and `put_page`. Two parts share state across that order: the
region table is written by paging and read by every allocator's growth, and the
blocks of `env.c` go back to `kfree`, the only caller it has outside error paths.

Hard behaviours, by part (each is in `PROJECT.json` under `hazards`, at its line):

* paging: a page table costs a frame too, and nothing checks that one exists;
  regions are enlarged before a frame is there and stay enlarged; the temporary
  window goes through a TLB entry that may be old.
* heap: `kfree` ties a block to itself unless the block below is free; an exact
  fit on the head leaves the head dangling; an empty list.
* console: cursor and video pointer are kept apart and must scroll together.
* port: the buffer keeps earlier lines; a full line loses its end; a key without
  a character cuts the line.
* environments: a frame moves to another block while procedures hold it; the old
  block may be reused at once; arguments are not counted.
* reader: a token is put into a slot that earlier characters, or an earlier read,
  wrote; `isprint` takes two characters for one; what ends a form.
* symbols and evaluator: variables are compared by address, so one symbol made
  twice breaks lookup long after; two constants are cells that a form without
  parts or an illegal form gets at; a procedure outlives the frame of its maker;
  lists share cells.
* compiler and SVM: what is pushed by one piece of code is popped by another, or
  by a builtin as well; labels are global to the assembler; the stack and the
  memory for continuations end in the middle of a call.
* boot: code is moved and written over while it runs, a read is retried with the
  registers of the one that failed, two page directories are changed through each
  other's mappings, a device must have taken one byte before the next.

## 2. Modules

| Module | Models | Role |
|---|---|---|
| `AddressSpace` | | abstract: pages get frames, once, without holes |
| `Paging` | `mm/memory.c`, `include/asm/page.h`, `include/kscm/mm.h` | implements `AddressSpace` |
| `PagingProofs` | | proofs about `Paging` |
| `Allocator` | | abstract: blocks are given, held and given back |
| `KHeap` | `lib/malloc.c` | one action per turn of the loops; implements `Allocator` |
| `KHeapProofs` | | proofs about `KHeap` |
| `Terminal` | | abstract: lines of cells, a cursor, scrolling |
| `Console` | `kscm/console.c` | implements `Terminal` |
| `ConsoleProofs` | | proofs about `Console` |
| `Scopes` | | abstract: nested scopes, one variable changed at a time |
| `Environment` | `kscm/scheme/env.c` (the half without `USE_ENV2`) | implements `Scopes` |
| `EnvironmentProofs` | | proofs about `Environment`, and about the `SymbolTable` its variables are compared by |
| `LineInput` | | abstract: lines handed over when they are ended |
| `KeyboardPort` | `scheme_port_get_char` of `kscm/scheme/port.c` | implements `LineInput` |
| `KeyboardPortProofs` | | proofs about `KeyboardPort` |
| `Lexer` | `_make_token_seq` of `kscm/scheme/read.c` | the text is written as it is read |
| `LexerProofs` | | proofs about `Lexer` |
| `Numerals` | `lib/strtol.c`, `number.c`, `print.c`, `include/string.h`, `ctype.h` | numbers and texts as the library turns one into the other |
| `SymbolTable` | `kscm/scheme/symbol.c`, cells of `scheme.h` | the memory of the interpreter, symbols |
| `Objects` | `kscm/scheme/scheme.h` | constants, fields and lists of that memory |
| `Reader` | `kscm/scheme/read.c`, `display.c` | tokens to objects and back |
| `Primitives` | `list.c`, `numb.c`, `sstring.c`, `bool.c` | the registered procedures |
| `Evaluator` | `eval.c`, `proc.c`, `env.c` as scopes | forms to expressions to values |
| `Interpreter` | `kscm/start.c`, `core.c` | composes the four above: a session |
| `SvmCode` | `Exptype.hs`, `SVM.hs` | data and instructions, what compiler and machine share |
| `Compiler` | `tools/compiler/src` | expressions to code |
| `Svm` | `tools/compiler/include`, `lib` | the machine, running any code that is fit |
| `SvmProofs` | | proofs about `Svm` |
| `MCSvm` | | composes `Compiler` with `Svm` |
| `Boot` | `boot/*.S` | from the BIOS to `main` |
| `BootProofs` | | proofs about `Boot` |
| `MC...` | | the instances TLC checks, and the references they check against |

An operator with the name of another and a word in front, directly above it
(`LateCanGrow` above `CanGrow`, `StaleDefineGrowing` above `DefineGrowing`), is
that operator with a mistake in it, a dropped check or a wrong bound. Nothing uses
it; put in the other's place it breaks the property `PROJECT.json` names for it.
They show that the property depends on that piece of the code.

### Paging

Addresses are counted in pages and frames in frames from `LOW_MEM` on. `region`
is the array `kscm_kernel_mm`, `used` the zero bits of `_mm_bitmap`, `pageDir` the
directory entries from the heap on, `table` the words of every frame, since a
frame is whatever its words are read as. `tlb` is the large page the processor
remembers for the window of `temp_map_page`: `Reached` sends a store where the
TLB says, `InvalidateTlbs` ends `put_page`. `InitStack` and `InitHeap` are the two
halves of `kscm_init_paging` (the stack is moved between them); `Expand` is
`expand_region`, split by how it ends: `ExpandRefused`, `ExpandMapped`,
`ExpandFailed`. `put_page` may take a second frame for a page table (line 192);
`PutPage` does so without a range check, as the code does. Stores to frames
outside `RAM` go nowhere.

### KHeap

Units of `sizeof(fm_header_t)`. `mem` reads every unit as a header, so a block that
is freed while the allocator still follows it shows what is really there; callers
overwrite the blocks they hold (`Scribble`). `kmalloc` is `StartMalloc`,
`StartMallocEmpty` or `StartMallocNull`, then turns `Advance` and `Extend` and an
end in `TakeExact`, `TakeTail` or `GiveUp`; `kfree` is `StartFree`, `Seek`, then
`MergeBelow` or `LinkFreed`. The history variable `broken` becomes true at the
steps the code gets wrong: an exact fit on the head (115-118), a release without a
free block below it (156-164), a release into an empty list (148), and a NULL from
`expand_region` that is written through (106-108). The properties of the list hold
up to such a step, and so does what `Allocator` promises of blocks, whatever the list
behind them looks like (`ImplementsAllocator`): that these are the only steps that
lose the list is part of it, as `Allocator` allows no other (`FollowsHeaders`).
`expand_region` is the operator `Expands`: a page, or NULL from then on.

### Console

Cells of two bytes; the attribute byte is constant. `StartPrint` and `EndPrint`
bracket the loop of `console_print`, one action per character between them
(`NewLine`, `CarriageReturn`, `Put`, with `Moved` for the wrap and the scroll that
end every turn). `scroll_down` moves more than the screen, `Scrolled` models the
cells behind it too.

### Environment

`cnt`, `max`, `block` are `bind_cnt`, `max_bind`, `binds`; a block is a piece of
memory the allocator may hand on as soon as it is freed, and the allocator itself
is `\E b \in Blocks \ given`. `ExtendEnv` binds any number of arguments to any
parameter list (`Wild` is what the walk finds past the end of the arguments: the
code does not look). `scheme_define_var` is `Redefine`, `DefineInPlace` or
`DefineGrowing`; `scheme_set_var` is `SetBound` or `SetUnbound`. Where a NULL is
written through (`ExtendEnvFailed`, `DefineFailed`) the behaviour ends with `lost`.

### KeyboardPort

One call of `scheme_port_get_char` is `GetBuffered`, `GetNewline`, or
`StartPolling` followed by one action per key until `PressEnter`. Keys that are
released change nothing unless they are shift keys and have no action. A read past
`_line_buffer` finds anything (`Found`). `spoiled` is not in the code: it marks the
lines the code does not keep whole (`Spoils`), of which `LineInput` promises
nothing until the next is begun.

### Lexer

One action per case of the `switch` in `_make_token_seq`, one per character in the
loops inside it. Characters are classes, a token is its type. `slot` is the type
in `_lex_token_buff[i]`, `inWord` is `stat`; `Stale` is what an earlier read left in a
slot, whose type a test finds to be anything (`IsSlot`). The kernel is built with
`-nostdinc`, so `isprint` is the macro of `include/ctype.h`, which evaluates its
argument twice: `Skip` is the character that is compared with `0x7e` and lost,
`InString` and `InChar` are the one that is kept. `debug/dasm` (2360, 2364) has the
two calls. The text is written lexeme by lexeme by the other end of the port;
`spoiled` marks texts the scanner takes for others (`Misread`, after which only a
blank is still written, and strings and characters whose length the double
evaluation does not suit, which `MCLexer` declares illegal). `Spells` says how a
lexeme of each type is spelled; that the lexemes of the instance are is part of
`LexerAssumption`.

### SymbolTable, Objects, Reader, Primitives, Evaluator, Interpreter

A machine `m` is the memory of the interpreter: `heap` (cells; the first two are
`scheme_null` and `scheme_void`, which can be written like others), `frames`,
`table` (the chains of `_HTable_`) and `halt`, which says that the program has left
its text: a jump through a word that is no function, a pointer nothing was written
to, a division by 0 (`"wild"`), or a walk that never ends (`"loops"`). Each function
of the source is an operator from a machine to a result and a machine. `Junk` is
what nothing was written to: the last `cdr` of `list`, a missing argument.
`SymbolTable` has the memory itself and `MakeSymbol`, and nothing that recurses over
trees, so that it can be proved about; `Objects` and the others build on it.

`Reader` has `_create_list`, `_create_vector` with its count of the elements,
`_create_quoted`, and `scheme_obj_to_string` as the tokens it prints. The digits of a
number go through `StrToL` and `FormatD` of `Numerals`, character by character as in
`lib/strtol.c` and `lib/number.c`, and what compares strings through its `strcmp` and
`strcasecmp`. `Primitives`
has the procedures `scheme_init` registers, with their counts of arguments and
without those that take characters from a port. `Evaluator` has `_find_keyword`,
one `Analyze...` for each `_analyze_...`, and one line of `EvalFun` for each entry of
`_eval_funs_`. Frames are those of `Scopes`, which `Environment` is proved to
implement; `ExtendEnv` and `SetVar` here keep what that module says of missing
arguments and of `set!`.

`Interpreter` is the session: `Booted` is the state after `scheme_init` and
`SelfTest` the `(+ 1 2)` of `main`, then `ReadText`, `Evaluate` and `PrintValue` in
turn, with what is typed chosen at each prompt. `buf` keeps the last text where
nothing is written to it.

### Compiler, Svm

`Compile` is `compileExprM`, with the next label threaded through as `CodeM` does;
`Convert` is `instr2c`, variables to places; `Error` stands for a form the compiler
gives up on. `Svm` knows nothing of the compiler: a program is a record with its
code, its instructions and the number of its variables. `MCSvm` makes these with
`Unit`, and states what they mean. `pc` is the rest of the code that runs, so a jump
is a suffix of it; `stack` has its top first and `over` counts how far the top was moved past
the base. One action per macro of `svm.h` and per builtin. A full stack and a lack
of memory return from the C function (`"returned"`), `ACCESS_STACK` may abort.
Procedures get no frame and their arguments are not popped, as in `apply_procedure`
and `resume_continuation`. A program also comes with its points: the places control
can be at, each with the number of words on the stack the code from there on may
take and whether there is a caller to leave to (`After` says which points follow
from one). It is *fit* if no point takes more than that, none calls or leaves without
a caller, and offsets, counts and constants are in their ranges; `SvmAssumption` asks
for it.

### Boot

`mem` is the first megabyte by sectors, each with the number of the sector of the
diskette that is in it. `ReadSector` and `NextSector` are the loop of `bootsect.S`,
`ReadFails` the read that is tried again. `DoMove` is one turn of `do_move`. `Send` and
`ControllerTakes` are the two sides of the 8042, `Setup8259a` the sequence of words
for the interrupt controllers and `Out` what they make of it. The five steps of
`setup_paging` change two page directories, of which each is seen where the other
maps it; `fetched` is the translation that may still be in use, `SplitTlb` whether
data has one of its own.

## 3. What is checked

| Run | Instance and bounds | Shows |
|---|---|---|
| `paging` | tables of 4 entries, 10 frames of memory in a bitmap of 14, heap and stack that meet in one table, slots over two tables | types, regions apart, frames apart, bitmap agrees with tables, mapped pages are owned, `AddressSpace` implemented |
| `kheap` | 3 pages of 3 units, sizes 2, 3, 4 | up to the first marked step: tiling, order of the list, NULL only when nothing fits, calls return, `Allocator` implemented |
| `kheap_search` | 2 pages of 4 units, sizes 2, 3, 5 | after a marked release a search may go on for ever |
| `console` | 3 lines of 2 cells, one hidden cell, 2 characters, every initial screen and cursor | pointer and cursor agree, `Terminal` implemented |
| `environment` | 2 frames, 3 blocks, 2 variables, 2 values, blocks of 1 slot, parameter lists of 0 to 2 with a repeated one, 0 to 2 arguments, with and without rest parameter | slots fit, blocks held, defined is found, `Scopes` implemented |
| `environment_set` | same | `set!` misses variables of enclosing frames |
| `keyboard` | buffer of 3, two letters, one key without a character, shift, one byte past the buffer | buffer bounds, `LineInput` implemented |
| `lexer` | 21 lexemes, every type of token, up to 5 in a read | tokens as they were written, the read stops at the end of the form |
| `interpreter` | 32 expressions, any two of them one after the other, 8-bit integers, 3 chains of symbols | the symbol table has one symbol per name and variables are symbols of it, keywords, data and all numbers that are not negative read back as printed, forms agree, lexical scope, evaluation only allocates |
| `interpreter_illegal` | one expression | an illegal form ends the session |
| `svm` | about 900 programs, a stack of 3, 4 continuations, 4-bit integers | stack within its array, labels unique, values and output right; programs end, those that recur too, but for tail calls without operands |
| `boot` | a segment of 40 sectors (128 in the code), tracks of 18, up to three failed reads anywhere, translations of code and of data kept apart | system whole, code not written over, screen mapped, `main` is reached |

Why the bounds are enough: each instance is the smallest in which every action and
every combination the properties speak of happens. Paging has a region that starts
a new table, two regions in one table, and frames that run out at each of the three
places a frame is taken. The heap has a block that fits exactly, one that is
split, one that needs two joined pages, and lists of up to three free blocks. The
console scrolls with the cursor in each column. In `environment` every definition
past the first makes a frame grow, and there is one block more than frames, so a
freed block is the next one given. The keyboard's lines are shorter than, as long
as, and longer than the buffer, and than the line before. Five lexemes are a list in
a list with a word, or a list of two words and what comes before or behind it; a
blank may follow each. Two
expressions are one that changes the memory of the interpreter and one that meets
what it left; in every such state `MCInterpreter` also asks for the answers to some
hundred texts, in pairs that must agree. The programs of `svm` are every form in
every form over the atoms that tell a value from a call from a side effect, and a
stack of 3 overflows in some of them; two dozen recur, in and out of tail position, with
and without operands, some a fixed number of times, some for ever. Forty sectors cross the ends of two
tracks, one to the other side and one to the next cylinder, and are more than the 16 after which the system jumps.
Where there are proofs (section 4) the bounds limit only what TLC looks at.

`environment`, `interpreter`, `svm` and `boot` end (a bound, a halt, the last
instruction, `main`), programs of `svm` that loop apart; `environment` sets `CHECK_DEADLOCK FALSE` because behaviours end when a NULL was
written through, the heap runs because a wild pointer ends them too. Symmetry is
used for the blocks of `environment` only, in a run without liveness properties.

Fairness: `WF_vars(Turn)` in `KHeap`, for the loops of `kmalloc` and `kfree`. They run
in the kernel with interrupts off and nothing preempts them, so a turn that can be
taken is taken. `WF_vars(Next)` in `Svm` and `WF_vars(Code)` in `Boot` say the same of
a processor that nothing interrupts (`setup.S` runs after `cli`, the reads of
`bootsect.S` return, failed or not), `WF_vars(ControllerTakes)` that the 8042 takes
what it is sent. A read fails at most `MaxErrors` times: `bootsect.S` retries for ever.
No fairness is assumed of callers or of the keyboard.

Findings (`PROJECT.json`, `findings`):

1. `kfree` overwrites `p->next` before it uses it (`lib/malloc.c:157`): a later search
   of `kmalloc` never ends, where the comment at 128 has it enlarge the region.
2. `scheme_set_var` searches one frame (`env.c:388`) and reports variables of
   enclosing ones as unbound (comment at 397).
3. An illegal form is analysed to `scheme_void` (comment at `eval.c:217`), and
   `scheme_eval` takes its function from before the table (151): `(1 2)` ends the
   session instead of returning `scheme_void`.

The models also show, without a run of their own, where the code does something a
reader might not expect; the properties are stated around it:

* `put_page` takes a page-table frame without comparing it with `HIGH_MEMORY`
  (`mm/memory.c:192`).
* An empty line leaves `_offset` in the middle of an older line (`port.c:257`), which
  is handed over again.
* `_make_token_seq` reads on behind a form that no `)` and no word ends (`read.c:380`),
  and `isprint` of a call takes two characters (`read.c:393`), so strings lose every
  other one.
* `isfloat` is reset only where a blank ends a word (`read.c:358`): in `(f (g 1.5) 2.5)`
  the second number is read as a symbol. A model that took `isfloat` to be reset by
  every end of a word passed with four lexemes in a read; the proof of
  `TokensStayAsWritten` did not go through, and five show it.
* `%d` prints a negative integer as an unsigned one (`lib/print.c`, `lib/number.c`);
  `strcmp` (`include/string.h:105`) is 0 when one string begins the other; `isalpha`
  (`include/ctype.h:47`) asks for a letter that is upper and lower case, so
  `string-ci=?` tells case apart; `memset` writes as many words as it has bytes to
  fill, less what is over a multiple of 4, so `make-string` of 4 characters or more
  writes past its block.
* `-` and `/` copy their first argument whatever it is (`numb.c:256`, `numb.c:293`): `(- 'x 1)`
  makes a second symbol `x`, which is not in the table. `Interned` is therefore about
  the symbols of the table and the variables of frames; that no two symbols of the
  whole memory are alike is wrong, which the attempt to prove it brought out, and
  `(- 'x 1)` is now among the expressions of the run.
* `(and)`, `(or)`, `(begin)` and procedures without a body retag `scheme_null`
  (`eval.c:388`); a name with which a keyword begins is that keyword (`eval.c:616`);
  `append` uses its first argument twice and drops the last (`list.c:279`).
* `builtin_add` and the code behind it both pop the arguments of a sum; procedures
  of the virtual machine have no frame of their own. The frame that encloses the
  global one is at NULL, so that a procedure finds neither the others nor itself by
  name: `(define (g) (g))` reads through NULL when `g` is called. It can call what it is
  given, so programs do recur: `(define (g x) (x))`, `(g g)` runs for ever on the memory it
  has, as a tail call should. Other recursion without an end uses up the stack, from
  which arguments are never popped, or the memory for continuations, of which none
  comes back, and returns from the C function in the middle of the program. That is
  what `Ends` says. Where a sum pops the arguments of others too, tail calls with
  operands can go on for ever as well.
* `setup_paging` writes the second entry of the new directory through address 0 just
  after the first entry moved that (`head.S:229-230`). `ScreenMapped` holds where data
  at address 0 is translated anew; a processor that used the translation its code
  was fetched by (`SplitTlb = FALSE`) would change the old directory and leave the
  screen unmapped.
* `setup.S` never writes ICW2 of the second interrupt controller (92), which takes 2
  for its vectors; `max_sec_per_track`, which `bootsect.S` stores (50), is not used.

## 4. What is proved

`PagingProofs`, for every page size, layout and memory size of `PagingAssumption`:
`TypeOK`, `RegionsApart`, `FramesApart`, `FramesAccounted`, `MappedIsOwned` are
invariants, and `Paging` implements `AddressSpace`. The invariants are not inductive by
themselves. The strengthening `IInv` adds `UsedIsPrefix` (a frame is given back only
in the step that took it, so the used frames are the first n, and `get_free_frame`
returns n: every frame handed out is fresh), `RegionShape` (each region grows at
one end only), `BootShape` (the one state in which the TLB entry is old, and why it
is the right one), `TablesApart` and `BackedByUsed`. The core lemma is the effect of
`put_page`: the MMU finds the new page where it was put and every other where it
was. Assumptions: the order of the layout in `include/kscm/config.h`, at least four
frames, all four in one large page, and memory below `TOTAL_MEMORY`.

`EnvironmentProofs`, for any number of frames, slots, variables, values and any
parameter and argument lists: `TypeOK`, `SlotsFit`, `BlocksHeld` are invariants, and
`Environment` implements `Scopes`. The three together are inductive and none is
alone: a store through `binds` stays in its block because of `SlotsFit`, and away
from other frames because of `BlocksHeld`. `FirstIsLeast` (the walk finds the first
slot) rests on the well-foundedness of `<`. `StoreIInv` and `FreshIInv` are the two
ways memory changes; each action is an instance of one. For the refinement,
`StoreBinds` shows that a store changes one variable of one scope even when the
block moved. Assumptions: `Slots` positive, the marker values are not values.

`DefinedIsFound` is proved too: `Lookup` is a recursive function along the
enclosing frames, which are always older, so a frame for which it were wrong has a
least one, and that leads to a contradiction.

Four theorems of the same module are about what a variable *is*: the address of a
symbol (`SAME_OBJ` in `env.c`). For any number of chains, any hash and any names,
`OneSymbolPerName` says that `scheme_make_symbol` on an interned table (`InternedIn`)
gives the symbol of that name, leaves every earlier cell as it was, keeps the table
interned, and gives the same address when it is asked again; `WritesKeepSymbols` that
a new pair, a copy of any cell, and writing to a `car` or a `cdr` keep it interned,
`EmptyTableIsInterned` that it is to begin with, and `SymbolsAreFoundAgain` that whatever was written in between, the name still leads
to that address. `IsMemory` fixes only what a memory looks like: the cells are a
sequence, the chains hold references to cells. The first clauses of `InternedIn` are
not enough by themselves: that each symbol is in the chain its name hashes to is what
makes a search that looks at one chain find it, and that copies are spelled like a
symbol of the table is what survives `-` and `/`.

`KHeapProofs`, for every size and number of pages and all sizes callers ask for:
`TypeOK` always; `BlocksTile`, `ListSorted` and `FollowsHeaders` up to a marked step,
`NullOnlyWhenFull`, and the refinement of `Allocator`. The properties walk along the list from the head, which is
no way to argue about a step. `ListInv` says the same without a walk: the blocks of
the memory are apart and fill it (`Tiled`), what callers hold are blocks and the
block being freed is none of theirs (`Held`), the links of the blocks nobody holds
go up through the addresses and from the last back to `_g_free_mem_list` (`IsRing`),
`p` and `q` are such blocks with `q` before `p` (`Locals`), and those the search has
passed are too small (`Searched`). `LEMMA Smallest` takes the least address of a set;
with it the walk is shown to meet all of the ring.

`KHeap` implements `Allocator` by the same invariant (`HeapImplementsAllocator`). The
point of it is what a step writes: `mem` changes at headers of blocks nobody holds
only, and `Held` and `Tiled` keep these outside of every block somebody does
(`HeldKept`). `CallsTakeFiniteTurns` is the half of `CallsReturn` that needs no
fairness: a turn that does not end its call goes to a higher address, or makes the
heap larger and goes round again (`TurnsRise`), and addresses and pages are bounded.
For `kfree` that needs `Sought`, that the search has not passed the block unless
the block lies below the whole list.

`ConsoleProofs`, for every size of the screen and of the page behind it:
`PointerAtCursor` is inductive, and `Console` implements `Terminal`. For the latter the
cells below the screen must be blank (`BlankBelow`), as `scroll_down` brings the
first of them into view.

`KeyboardPortProofs`, for every keyboard, size of the buffer and number of bytes
behind it: `TypeOK`, and `KeyboardPort` implements `LineInput`. `LineInv` is what the
refinement needs of the buffer: no newline before `_offset` while keys are polled,
and, in a line that is not spoiled, one ahead of it before any NUL.

`LexerProofs`, for any lexemes spelled as the grammar `Spells` says and any length of
the text: `TypeOK`, `TokensAsWritten` and `StopsAtForm`. Their invariant (`Synced`,
for texts the scanner takes) says for each loop of `_make_token_seq` what the
characters still to come of a lexeme have to be, given the type in its slot, and
that `stack` is the depth of the tokens so far. `Spells` leaves the
content of words open: it fixes what tells a number from a symbol, and which
strings and names of characters the double evaluation of `isprint` brings to
their end.

`BootProofs`, for a system of any size, any number of failed reads:
`RunsItself`, and `SystemAsOnDisk` if the diskette is formatted with as many sectors to
the track as `bootsect.S` has built in and the first one holds the first that is
read (`FormattedAsRead`), and `ScreenMapped` if data is translated apart from code
(`SplitTlb`). With either condition dropped the property is wrong (section 3).
`LoadInv` relates the registers of `read_block` to the blocks read so far
(`ReadShape`), the turns of `do_move` to the blocks that are in place
(`SystemShape`) and keeps `setup` and its parameters whole (`CodeShape`). `MmuInv` has
the two page directories and the translation in use at every part of `head.S`.

`SvmProofs`, for every fit program, size of the stack, memory and width of
integers: `TypeOK`, `StackWithin`, that without sums the top of the stack never
passes its base, and `ReturnsFindCallers`, that `resume_continuation` finds a
continuation. Neither the code nor a call can see how many words belong to it;
the invariant supplies them. `Standing` says there are numbers, one for each
continuation that can still be resumed, that grow from the oldest to the latest,
such that the code a continuation resumes may take what lies between its number
and the next, and the code that runs what lies above the latest. A call hands what its
caller had to the continuation and starts with nothing, a return takes it back; what
a procedure leaves on the stack only adds to it. `Ready` adds whether the code has a
caller, and if so that there is a continuation below it: a tail call passes the
continuation on, a return in the main program would have none. `Holding` says that procedures in
the registers, the variables and on the stack begin at a point of the program.
That the code is fit is an assumption: TLC evaluates it for the programs of the
run, which the compiler made, and it is not proved of the compiler.

Not proved, only model-checked:

* `CallsReturn`, `Ends`, `Boots`: liveness under fairness is out of the prover's reach
  (of `CallsReturn` the measure of each turn is proved, see above).
* The properties of `Interpreter` (`TypeOK`, `Interned`, `KeywordsOnly`, `ReadsBack`,
  `FormsAgree`, `LexicalScope`, `OnlyAllocates`) and `LabelsUnique` and `RightValue` of the
  compiler: reading, analysing, evaluating and compiling recurse over trees with
  RECURSIVE operators, which the prover's backends do not take. An induction along
  numbers (addresses, frames, the characters of a text) is made by taking the least
  counterexample, as above; one along data is not to be had that way, as the library's
  induction theorems have an operator for a parameter, which the backends cannot
  instantiate.
  Of `Interned` each operation on the table and on cells is proved to keep it (see
  above), the evaluation of a whole expression is not.
* The three violations.

## 5. Not modelled

* `page_copy`, attributes and formatting, debug output: no property depends on them.
* What happens after a NULL was written over the page directory, and after a wild
  pointer: marked, and the behaviour ends.
* The half of `env.c` under `USE_ENV2`, `hash.c` and the vector procedures: not built or
  not registered. `mm/gc.c`: not among the objects that are linked.
* The Scheme collector: `USE_GC` is not defined, objects come from `kmalloc`; `gc.c` is
  linked, nothing calls it, and the functions that would collect are empty.
* Peeking at, and taking strings from, character streams: no caller. File ports:
  empty functions.
* The objects of `Interpreter` do not run out of memory: what `kmalloc` does then is in
  `KHeap`, what the frames do in `Environment`.
* The sizes of the reader's buffers, and which character of its class a character of
  a token is (`Lexer`; `Numerals` has the digits); DEL and characters past 126; the
  text of the C file the compiler writes, its grammar, and the forms it has no code for (`lambda`, rest parameters, `let`, `case`).
* Primitives that read ports (`arch.c`), and of the C library in `lib` what copies
  strings or prints addresses: no state.
* What the 8042 holds while keys are polled: keys arrive as the code polls them.
* Descriptor tables, interrupt stubs, what the boot sector prints. `setup_idt` writes
  its table into the place the system has for it, before paging is set up:
  `SystemAsOnDisk` does not see that.
* The stack of `bootsect.S` and `setup.S`, which set neither `ss` nor `sp`: it is where
  the BIOS left it, and is taken to be where nothing is moved to.
* Generated files and disassembly.

## 6. Plan

The system is modelled as far as its code is linked and has state, and every
specification that needs no RECURSIVE operator is proved about. What is left, in this
order:

1. `SvmCode`, `Svm`: that no variable and no argument is read past its end needs the
   places `Convert` gives out; a point would have to carry the environment.
2. `Primitives`: that each of those that does not recurse keeps `InternedIn`, from
   `WritesKeepSymbols`; they would have to be split from the equality of trees first,
   as `SymbolTable` was from `Objects`.
3. `Numerals`: that `StrToL` and `FormatD` are inverse on what is not negative, by the
   least numeral for which they are not.
