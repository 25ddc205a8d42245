# A verification development for 42ARM68 / Emu68

42ARM68 wraps Emu68, a bare-metal just-in-time compiler that runs 68k (and, on
a second core, PowerPC) code of an Amiga on an AArch64 board.  This directory
holds TLA+ specifications of its core logic, the TLC configurations that check
them on small instances, and proofs checked by TLAPS.  Paths below are relative
to `src/emu68/`.

## The system

There is no operating system.  One ARM core executes the m68k main loop, one
(PiStorm) polls the Amiga's interrupt lines and reset, one may execute the
PowerPC main loop.  They share memory without locks.

| Component | State | Operations | Interacts with |
|---|---|---|---|
| Main loop (`src/ExecutionLoop.c`) | guest PC, `LAST_PC`, entry point in x12, CACR | take interrupts; find, verify or translate the unit at PC; jump into it | everything below |
| Unit cache (`src/M68k_Translator.c`, `src/ExecutionLoop.c`, `src/M68k_LINEF.c`, `src/M68k_LINE4.c`) | hash table `ICache`, list `LRU`, blocks of `jit_tlsf`, `JIT_UNIT_COUNT`, `EPOCH` | look up, verify, translate, evict, flush, `check_cacr` | quick cache, IC, allocator |
| Quick cache (`LRU_cache`, `LRU_alloc`) | 128 sets of 4 entries, a replacement word per set | find, insert, invalidate all | filled by the main loop, emptied by flush and `check_cacr` |
| Translator (`M68K_Translate`, emitters `M68k_LINE*.c`) | code pointer, return stack, loop counters, range for the checksum | emit one instruction, follow a branch, stop | reads guest code through IC |
| Software instruction cache (`src/cache.c`) | sets of lines of guest memory below 16 MB | read, replace, invalidate line or all | bus writes invalidate, writes to mapped RAM do not |
| PPC quick cache (`src/LRUCache.cpp`) | as the m68k one | as the m68k one | PPC main loop |
| PPC JIT (`src/PPC_ExecutionLoop.cpp`, `src/PPC_Translator.cpp`) | its own units, epoch, EXT and DEC flags | as the m68k one, evicting 8 | m68k core through interrupt flags |
| Interrupt flags (`INTF` of either core's state) | ARM, ARM_err, IPL, PPC; EXT, DEC | set by the housekeeper core, by device code, by the other CPU and by emulated bus writes; taken by the main loops | three cores |
| PPC kernel mailbox (`src/ppc/kernel.c`, `include/doorbell.h`) | two doorbells, a packet | send, receive, end | PPC core and the m68k library |
| Bus (`src/pistorm/*`) | GPIO, write buffer (compiled out), reset | read and write cycles, housekeeping | IC, interrupt flags |
| TLSF (`src/tlsf.c`) | block headers with boundary tags, lists of free blocks by class, two bitmaps | malloc, aligned malloc, realloc, free | unit cache, and both cores' own data |
| Register allocator (`src/aarch64/RegisterAllocator64.c`) | which ARM register holds what, dirty marks | map, allocate, free, store dirty | emitters |
| MMU (`src/aarch64/mmu.c`), fault emulation (`src/aarch64/vectors.c`) | page tables | map, unmap, emulate an access | bus |
| Exceptions and stacks (`src/M68k_Exception.c`, `src/M68k_ExceptionEntry.c`, emitters in `src/M68k_LINE0.c` and `src/M68k_LINE4.c`) | A7, the lanes of USP, ISP and MSP, SR with its lowest bits exchanged, frames in memory | enter, RTE, every write of SR, CCR or a stack pointer | emitters, main loop |
| Flags on demand (`src/M68k_SR.c`, the emitters, `include/A64.h`) | opcode tables, CC | scan ahead, compute the flags asked for | translator, IC |

What is hard in it: code that is cached at four levels (a unit, the quick
cache, x12, IC) and invalidated at other places; units released while something
still leads to them; an allocator that runs full; control registers that change
what a unit means while one is executing; bit tricks in the replacement words;
loop unrolling with two counters; flags and doorbells shared by cores; stack
pointers kept twice and moved by seven copies of the same code; condition codes
left uncomputed on the word of a scan; boundary tags that every operation keeps
for its neighbours.
`PROJECT.json` lists each hazard at its line.

What makes each component correct:

* Unit cache: every way into a unit ends in live memory, at the unit of the
  guest's PC, and its code is the guest's as of the last flush; lists, hash
  table, allocator and counter agree; the main loop never hangs in allocation.
* Quick cache: a lossy map, forgetting only when a set is full, never the entry
  used last.
* Translator: what it read is covered by the checksum; inlined calls return to
  their caller; loops are unrolled in whole copies, a bounded number of them.
* IC: nothing older than the last flush, nothing stale of words on the bus.
* Interrupt flags and mailbox: no request lost, none taken twice.
* TLSF: blocks tile the pool, no two free neighbours, lists and bitmaps name
  exactly the free blocks; what is handed out never overlaps and never leaks.
* Exceptions and stacks: each stack pointer has one value, whichever register
  holds it; only an instruction that names it, or a frame, changes it.
* Flags on demand: no instruction sees a flag that was not computed.

## Modules

| Module | Models | State and actions |
|---|---|---|
| `JITCache` | main loop and unit cache, with IC as the translator sees it | see below |
| `MCJITCache` | instance for TLC: two RAM words, one ROM word; the unit at `a` spans all the RAM, its fingerprint only `a` | |
| `JITCache_proofs` | theorems about `JITCache` | |
| `QuickTable` | abstract: a lossy map | `Hit`, `Insert`, `Forget` |
| `QuickLRU` | `LRU_cache` and `LRU_alloc` of the m68k core, bit by bit; implements `QuickTable` | `LRU_FindBlock`, `LRU_InsertBlock`, `LRU_InvalidateAll` |
| `QuickLRU_proofs` | theorems about `QuickLRU` | |
| `PPCLRUCache` | the class `LRUCache`: `QuickLRU` with the shift the class uses | |
| `TranslateUnit`, `MCTranslateUnit` | the loop of `M68K_Translate` | `Translate` is one pass of the loop, `GiveUp` its early exits |
| `TranslateUnit_proofs` | theorems about `TranslateUnit` | |
| `Interrupts` | the flags `INTF` from the cores that set them to the m68k main loop, a looping unit and STOP | one action per read of the main loop's head, per store and SEV of another core, per ARM exception, per guest instruction that matters |
| `Interrupts_proofs` | theorems about `Interrupts` | |
| `Housekeeper`, `MCHousekeeper` | `ps_housekeeper` and `ps_send_reset` | reading the lines and acting on them are two steps |
| `Housekeeper_proofs` | theorems about `Housekeeper` | |
| `StackFrames` | status words and exception frames in guest memory, shared by the next two | |
| `SupervisorStacks` | abstract: the three stacks of a 68040 as three values | one action per kind of access |
| `ExceptionStacks`, `MCExceptionStacks` | the same with one ARM register, three lanes and exchanged flag bits; implements `SupervisorStacks` | one action per emitter that writes SR, CCR or a stack pointer, exception and interrupt entry, the context save around a translation |
| `ExceptionStacks_proofs` | theorems about `ExceptionStacks`, the refinement among them | |
| `FlagTable` | per emitter: flags needed and set according to the opcode tables, flags read and computed by the code emitted | no state |
| `FlagScan`, `MCFlagScan` | `M68K_GetSRMask` and the programs it is used on | `Single` and `Fused`: an instruction, or several translated as one |
| `FlagScan_proofs` | theorems about `FlagScan` | |
| `Heap` | abstract: memory handed out and given back | `Allocate`, `Free`, `Resize` |
| `Tlsf`, `MCTlsf` | `src/tlsf.c` on headers, links, lists and bitmaps; implements `Heap` | one action per entry point; the move of `tlsf_realloc` in three |
| `Tlsf_proofs` | theorems about `Tlsf`, the refinement among them | |

### JITCache

A block of `jit_tlsf` is a member of `Slot`; `unit[s]` is what the block holds
and keeps holding after its release, as memory does.  `used` are the allocated
blocks, `lru` the list `LRU`, `hashed` the units linked in `ICache`, `quick` the
quick cache seen as a map, `lastPC` and `armCode` are `CTX_LAST_PC` and x12.
`hist` is a history variable: memory and JIT control at every moment since the
last flush.

The core is single threaded.  A pass of `MainLoop` up to the jump into a unit is
one step, except that each round of the allocation loop of
`M68K_GetTranslationUnit` is a step of its own (`Evict`, then `Translate`):

| Action | Code |
|---|---|
| `FastPath`, `QuickHit`, `HashHit` | the three shortcuts with CACR IE set |
| `VerifyOK`, `VerifyFails`, `Absent` | `FindUnitNoLRU` and `M68K_VerifyUnit` |
| `UncachedRun`, `UncachedFails`, `UncachedAbsent` | the branch with IE clear, `M68K_VerifyUnitCRC32` |
| `Evict`, `Translate` | `M68K_GetTranslationUnit` |
| `Write`, `WriteJITControl`, `Flush`, `WriteCACR`, `EndUnit` | what the guest code in a unit does |

Where the code reads guest words through IC, any line may have been replaced
before (`Replaced`): sets, ways and victim selection of `cache.c` decide which,
and the properties hold whatever they decide.  A line is one word here; a line
of several words is filled and dropped together, which `Replaced` covers for
dropping, and filling a neighbour reads memory at that moment, which is what
reading the neighbour itself would do.  Fingerprint and CRC32 are taken to tell
any two contents apart.  Writes by other bus masters (the chipset) do not appear:
the code has no way to see them, and needs a flush after them.

### TranslateUnit

An instruction is what the loop needs to know: length, kind, target.  Branch
handling (`EMIT_BRA`, `EMIT_Bcc`, `EMIT_DBcc`, `EMIT_RTS`) decides where the
translation continues, whether the return address is pushed, and whether it
breaks off.  Every emit step translates one instruction (some emitters fuse two;
`EmitINSN` then returns a larger count).  `calls` is a history variable: the
return addresses as an unbounded stack.

### QuickLRU

A word of `LRU_alloc` is the set of positions of its 1 bits from the most
significant bit, so `__builtin_clz` is the minimum.  `recent` is a history
variable.  An insertion happens only after a miss, as in `MainLoop`.

### Interrupts and Housekeeper

Both model the PiStorm32 build (`PISTORM`), in which the housekeeper core reads
the interrupt level and the main loop takes it from `INTF.IPL`; the classic build
asks the bus again at the head of the loop.  `Housekeeper` works on the lines
and shows that every level stored is one the chipset requested; `Interrupts` then
lets any level be stored at any time.

In `Interrupts` the m68k core is at a place of its own (`phase`): reading
`INT64`, each of the four tests at the head of the loop, pushing the frame, in a
unit, in a unit that jumps back to its start (`loop`), in STOP, and asleep in WFE.
Between any two of these the other cores and the ARM exception handlers act.
An emulated bus write runs in an exception handler with ARM interrupts masked, so
`WriteINTENA` and `WriteINTREQ` are one step each.  A store and the SEV after it
are two steps.  What a guest does inside a loop appears as steps of the unit
before the loop is entered, and a loop left by its own branch is `EndUnit`.
Stores of one core are seen by the others in the order of the program.  `frames` holds the masks in the exception
frames on the guest's stack; the guest is taken not to forge frames.

In `Housekeeper` three assumptions about the hardware are built into the guards:
at most `MaxSkew = 1` read falls into one change of level (the code's comment on
clock skew relies on the same), the chipset keeps a level until it was read once,
and the 10 ms wait of `ps_send_reset` is longer than a pass of the housekeeper.

### ExceptionStacks

While a stack is active, A7 is in an ARM register and its lane is out of date;
`Pointer` is what the guest would read.  The code that moves A7 between lanes when
S or M changes exists seven times.  `SwitchStack` is the form that MOVE to SR,
STOP, RTE, ANDI and EORI share; ORI and the two exception entries have their own
definitions.  The refinement to `SupervisorStacks` says that all of them do what
the manual says: no write of SR changes the value of any stack pointer, frames
hold SR in the guest's order of bits, RTE finds what an exception pushed.  Memory
keeps the last frame; a frame found anywhere else may hold any status word and
any format, since the guest may have put it there.  `SupervisorStacks` follows
the emulator in two points where the processor does more: an interrupt in master
state pushes one frame onto the master stack, and there is no trace exception.

### FlagScan

The translator emits code for a condition code only if `M68K_GetSRMask` says that
something may look at it.  The claim behind it spans every emitter: what the
tables say an instruction needs and sets must cover what its code reads and
computes, and the scan must look wherever control can go.  `FlagTable` has an
entry for each emitter of the integer instructions (`needs` and `sets` from the
table, `reads`, `writes` and `by`, the helper that computes, from the code);
`FlagScan` runs programs made of them and tracks the flags that are stale.  Where
an instruction needs all flags and may trap, or breaks the scan, control may go
anywhere.  The scan is evaluated where the instruction runs: the program does not
change, so this is what it was at translation time, and every depth is allowed at
each instruction.  The scan is a function of the depth left (`Scan`, and `Path` behind
a conditional branch) applied to the place it has come to, the flags still open and
those found needed (`Scanning`).  Lines A and F (traps, FPU, MOVE16, cache instructions) have no
table, the scan takes them to need every flag; they are not among the programs.

### Tlsf

The pool is one record (`heap`): headers by address, links of free blocks, heads
of the lists, both bitmaps, `free_size`.  A function of the source is an operator
on it, so the order of its calls is the order of composition.  Only headers in use
are in the domain of `heap.hdr`: if an operation followed a wrong tag, TLC
would report the read.  The lock makes each entry point one step, except that
`tlsf_realloc` releases it before it moves a block; `op` holds what such a move
still has to do.  `jit_tlsf` is used without the lock, by one core.  Clients are
taken to free and resize only what they own, each block by one thread at a time.

## Runs

| Run | Shows | Bounds, and why they are enough |
|---|---|---|
| `quick_lru` | five properties of the quick cache, and that it implements `QuickTable` | real ways (4) and word width (32); six addresses in one set overfill it by two, a seventh shows that sets are separate |
| `ppc_quick_lru` | violation: an insertion is not found | as above |
| `jit_core` | every way into a unit, no double units, CACR, while the allocator has room | one RAM and one ROM word, two blocks, so no eviction; two settings of JIT_CONTROL; two flushes, which give units of three epochs; quick-cache sets of one entry, so entries displace each other |
| `jit_evict` | lists, epochs and IC under eviction, and that the main loop always runs a unit again | a RAM word and a ROM word on the bus and one mapped RAM word, all read through IC; one block, so a translation at another address evicts; a unit of two words of which the fingerprint covers one |
| `jit_stale` | violation, see Findings | more entry points than blocks, quick cache on |
| `translate_unit` | five properties of a unit's extent, return stack and loops | every program of four words, depth 8, three loop copies, a return stack of two: nested calls overflow it, loops of one and two instructions reach both limits |
| `interrupts` | no wake-up lost, no request hidden by another, none without its cause | chipset level 3 or none, so the device's 6 and the PowerPC's 2 are above and below it; masks 0 and 7; one SError; the guest changes SR outside handlers (`MaxFrames = 1`), handlers nest by level |
| `housekeeper` | no false level, every lasting level arrives, the own reset is ignored | levels 0, 3 and 4 on three lines: from 3 to 4 every line changes |
| `supervisor_stacks` | `ExceptionStacks` implements `SupervisorStacks` | every status word of three (user; supervisor with trace; master with an odd flag), so all three stacks and both exchanged bits occur, and one pointer value per write; a stack has room for a frame of either format; ORI immediates leave M alone |
| `stacks_ori` | violation: ORI to SR that sets M | the same with every immediate |
| `flags` | no stale flag is read | every program of three instructions, a ring, from all emitters' classes; scan depths 0, 1, 2 and 5: none, shorter, as long as and longer than a loop |
| `tlsf` | seven properties of the allocator | a pool of fourteen granules, lengths that fall into three first-level classes, one of them shared by lists of several lengths; two alignments, one no power of two; two cores, so a move may be interrupted by any operation of the other |

`MaxEpoch` bounds the flushes explored; `EPOCH` has 32 bits and would repeat after
2^32 flushes, which is not considered.  Symmetry is used between blocks, entry
points and rival addresses, and only in runs without liveness.  Deadlock is
checked except in `translate_unit`, where a unit ends, and in
`supervisor_stacks` and `stacks_ori`, where `Low` and `High` bound the stacks.

The passing runs of `FlagScan` leave out two things the code gets wrong (see
below): conditions on V alone, and the fusion of ROL, SWAP and ROL.  `FlagScan` runs in
supervisor state, where privileged instructions do not trap.  `TlsfAssumption`
says that the granularity is a power of two (`ROUNDUP` masks bits off), that a pool is
a whole number of granules and smaller than the largest class (1 GB in the code, pools of
32 to 64 MB), that a step of the small classes is no wider than the granularity (4 and 16
bytes in the code), that `Null` is no address and that nobody asks for no bytes.  Addresses, and with
them alignments, count from the start of the pool; the clamp of an alignment to
`MAX_ALIGNMENT` (2 MB, `src/tlsf.c:491`) is left out.  A condition in `FlagScan` reads its flags
from CC; where `host_flags` says so the emitted code takes them from the ARM's own flags
(`src/M68k_CC.c`), and that these agree with CC is not modelled.

`AlwaysRunsAgain` assumes weak fairness of `MainLoop`: the core is single
threaded and its loop has no other way to go; once at the head of the loop or in
the allocation loop it executes the next step.  Nothing is assumed of the guest,
which may stay in a unit forever.

`PendingEndsWait` and `DeviceLevelIsTaken` assume weak fairness of the m68k core's
own steps at the head of the loop and in its waits (`MainLoop`, `Waiting`) and of
the SEV that follows a store of another core; a core that has started a sequence
finishes it.  Nothing is assumed of devices, of the chipset or of the guest:
`DeviceLevelIsTaken` has the premise that the guest returns to the main loop
with a mask below 6 again and again.  `LevelArrives` assumes that the
housekeeper's endless loop goes on and that the lines settle.

## Proofs

`JITCache_proofs` proves for every set of addresses, blocks, values and
settings, every span and every eviction batch:

| Theorem | Property |
|---|---|
| `TypeCorrect` | `TypeOK` |
| `ListsAlwaysAgree` | `ListsAgree`: `LRU`, hash table, allocator and `JIT_UNIT_COUNT` agree, no unit is linked twice |
| `OneUnit` | `OneUnitPerAddress` |
| `EpochSound` | `EpochMeansVerified`: a unit of the current epoch translates guest code of one moment since the last flush, except for words of mapped low RAM |
| `ICSound` | `ICSinceFlush` |
| `QuickSound` | `QuickCoherent`, while nothing is evicted and `enable_cache` is off |
| `LastPCSound` | `LastPCCoherent`, likewise |
| `RunningSound` | `RunningIsLive`, likewise |
| `RoomyLookup` | these three with a block for every address, whatever happens |
| `GuestCodeRuns` | `RunsGuestCode`, while nothing is evicted and `enable_cache` is off |
| `DisablingEmpties` | `DisablingEmptiesCache`, while `enable_cache` is off |

`Interrupts_proofs` proves, for every set of levels and masks and every depth of
nesting, `InterruptsTypeCorrect` (`TypeOK`: what is put into the IPL field of SR
fits it) and `DeviceLevelJustified` (`DeviceLevelIsJustified`), which is inductive
with `TypeOK`: the ARM handler sets the flag with `ARMPending`, and whoever
clears a cause clears the flag.  It assumes `InterruptsAssumption`: levels and
masks are 0 to 7.

`ExceptionStacks_proofs` proves `StacksTypeCorrect` (`TypeOK`) and
`StacksImplemented`, the refinement `ExceptionStacks!Spec => SupervisorStacks!Spec`
under the mapping `Pointer`, for any pointers, status words and bounds.  It assumes
`ExceptionStacksAssumption` and that no immediate in `OrSRs` contains M, which is
exactly what the finding below is about.  The argument: exchanging two
bits by an EOR and by reversing the word are the same involution, so `Reverse(cc)`
commutes with union, intersection and difference; and `SwitchStack` leaves every
value of `Pointer` alone but that of the stack it was given a new top for.  Each
action of the emulator then is one action of the processor, and the context save
around a translation is a stutter.

The first five theorems about `JITCache` assume `JITCacheAssumption` only.  The inductive invariant is `TypeOK`,
`ListsAgree`, `AllocatesAbsent` (the allocation loop runs only for an address
without a unit: the code never looks again after it) and `UnitsInv`: a unit's
epoch is not in the future (`Dated`), its checksum and fingerprint are those of
its code outside mapped low RAM (`Recorded`, `SumIsOfCode`), a ROM unit matches
the ROM (`RomUnits`: the verification does not look at it), and `ICSinceFlush`,
which is what makes a checksum read through IC a statement about memory.
`EpochMeansVerified` alone is not inductive: verification renews the epoch of a
unit whose code was recorded long before.  `ListsAgree` needs that the length of
`LRU` is the number of blocks in use; eviction of the tail of any length is the
lemma about a list split in two.

The other six say that the shortcuts of the main loop lead where they should.
Their hypotheses are necessary.  `jit_stale` shows the stale entries an eviction
leaves, so "nothing is evicted" is `[][~Evict]_vars`, and `RoomyLookup` derives it
from `Roomy`: with as many blocks as addresses the allocator is never full when an
address without a unit asks (`AllocatesAbsent` and a pigeonhole).  `BootIE = FALSE`
because `check_cacr` compares with a copy of CACR that starts at 0: after a boot
with `enable_cache` the first switch-off goes unnoticed.  The invariant that carries
the three (`LookupInv`) joins them with `EmptyWhenOff`: `check_cacr`'s copy of IE is IE,
and while IE is clear the quick cache is empty and `LAST_PC` unset, so what the
branch without cache releases has no other way in.  `GuestCodeRuns` is an action
property: for each of the ways into a unit it derives that the unit is the one at PC
and, from `EpochMeansVerified` where nothing is compared, that its code is the guest's.

`Housekeeper_proofs` proves `HousekeeperTypeCorrect` (`TypeOK`), `LevelsAreRequested`
(`NoFalseLevel`) and `OwnResetNeverRestarts` (`OwnResetIgnored`).  The second assumes
`MaxSkew <= 1`, that at most one read of the three lines falls into a change of
level: the filter compares two consecutive reads, and a second mixed read in a
row would pass it.  What is inductive there is that a read which is no
level has used up the skew and was not seen before; for the resets, that
`ignore_reset` is set while `ps_send_reset` runs and stays so until what was read
meanwhile has been looked at.

`QuickLRU_proofs` proves, for any number of sets, any word width and two ways or
more, `QuickTypeCorrect` (`TypeOK`), `VictimAlwaysInSet` (`VictimInSet`), `OneEntry`
(`OneEntryPerAddress`) and `RecentAlwaysSurvives` (`RecentSurvives`), from
`Geometry`, which fixes the shift of the m68k class: the bits left in a word after
it are as many as the ways (the PPC class does not satisfy it, see the finding).
`ArrayImplementsTable` is the refinement `QuickLRU!Spec => QuickTable!Spec`, again for
every geometry: the search returns the entry of the address because there is one
entry per address, and the ways of a set are in bijection with the addresses cached
in it exactly when no way is empty (`CachedCount`), so an insertion lets go of one
address when the set is full, and that is the victim, and of none otherwise.
The invariant adds that an entry is in the set of its address, that the way
used last is marked used, and that in a set with an empty way exactly the empty
ways are unmarked, so that a marking is forgotten only in full sets.

`TranslateUnit_proofs` proves, for every program, entry point and `JIT_CONTROL`,
`UnitTypeCorrect` (`TypeOK`), `ReturnsMatchCalls` (`ReturnStackIsSuffix`) and
`SpanAlwaysCovers` (`SpanCoversStraightCode`).  The type of the loop limit needs
that a copy is left as long as the translation runs (`CopyLeft`), the return stack
is compared with the calls element by element (`EndOfCalls`), and the span holds
`ptr` besides every instruction (`Spanned`), since `m68k_high` is raised to where
an instruction leads and not to where it ends.

`UnitsLoopWhole` (`LoopsBackWhole`) needs to know that the second pass through a loop
repeats the first.  What an emitter does depends on the program, the entry point and
the return stack, and the stack is not what it was: a loop that calls more than
it returns starts its second pass with more on it.  `LoopInv` therefore keeps a
witness of the first pass, the stack before each of its instructions (`Pass`),
and says of a later pass only that the stack *ends with* that witness (`EndsWith`);
`GoesSame` shows that this is enough for the same instruction to go the same way,
also when a push drops the oldest address.  `Whole` and `Begun` count the copies by the
loop limit and what was begun of the next one.  `LoopsLimited` (`LoopCopiesBounded`)
ties `max_rev_jumps` to the number of copies; it assumes `LoopCount >= 2`, which is
necessary: with `LoopCount = 1` in `TranslateUnit.cfg` TLC refutes `LoopCopiesBounded`
(see the differences below).

`Tlsf_proofs` proves, for every pool, granularity, division into classes and number
of threads that `TlsfAssumption` admits, all that the run `tlsf` checks:

| Theorem | Property |
|---|---|
| `TlsfTyped` | `TypeOK` |
| `TagsAgree` | `BoundaryTags` |
| `FreeBlocksMerged` | `FullyMerged` |
| `ListsExact` | `FreeLists`: lists, bitmaps and `free_size` |
| `SearchFinds` | `SearchIsExact` |
| `NoLeak` | `NothingLeaks` |
| `ThreadsShareHeap` | `ImplementsHeap`, the refinement `Tlsf!Spec => Heap!Spec` |

One invariant carries them (`Inv`): the pool is sound, the busy blocks are those
of the owners and each as long as its owner asked (`Owns`), and no two threads move the
same block (`Moves`, which is why the gap `tlsf_realloc` leaves between malloc and
free is harmless as long as a client gives a block to one thread at a time).  The
properties are not inductive one by one: a merge follows boundary tags, takes the
neighbour from its list and counts on the class its length gives.

Each function of the source has a lemma of its own.  Inside a function a pool is
sound only up to something, so `Sound(h, X, Y)` names it: X are the headers not
yet told what lies before them, Y the blocks in hand, which are in no list though marked free.
`MERGE`, splits and the alignment hand X and Y on to one another, and both are empty
when the lock is released.

Three things about a list or a sum need induction in general and do not here.
`Lists` gives each block of a list a rank that falls along the list, so that a
block is put in front with a rank above all others (`Carries`) and taken out
with no change of ranks; `Chain`, which follows a list from its head, is met by giving
the depth of each member in closed form.  `free_size` is the number of bytes as pairs of a
block and a place in it (`Held`), so that adding a block is a disjoint union;
the sum `FreeLists` states is equal to it.  For both recursions the closed form
satisfies the equation, and that nothing else does follows from the least number
at which two solutions differ (`HasSmallest`).  Powers of two come from the
library's count of subsets (`PowNat`, `PowDouble`), and `MAPPING_INSERT` is shown monotone,
which is what makes the search exact.

`FlagScan_proofs` proves `FlagsTyped` (`TypeOK`) and `NoFlagReadStale`
(`NoStaleRead`) for programs of any length, any depths of the scan and any
instructions of `InsnTable`.  `NoFlagReadStale` has two hypotheses, and TLC refutes
`NoStaleRead` without either: no instruction looks at V alone (`NoConditionOnV`:
`EMIT_GetNZ00` asked for V and C emits nothing, which does no harm as long as
whoever needs V needs N as well), and only moves and sign extensions are translated
as one (`MovesOnly`: ROL, SWAP, ROL takes the mask at its first instruction).  Both
exclusions are those of the run `flags` and are listed below as differences.

Stale flags are harmless because they are dead, so the invariant is `StaleIsDead`.
A flag is `Dead` at an address that lies in some set of addresses where nothing
looks at the flag and from which every way on leads back into the set or over
an instruction that overwrites it (`Idle`).  The set need not be reached by a path, so
loops need no induction.  `TableRegular` goes through the opcode tables: what an
entry says the instruction overwrites its code overwrites, and what the code looks
at the entry announces, or the scan ends there.  That the scan drops only dead flags is a
statement about a recursion over the depth left.  `Recursion` shows that such a
function exists, so that `Path` and `Scan` satisfy their equations (`PathUnfolds`,
`ScanUnfolds`); what every result of a scan has in common follows from the least
depth at which it would fail (`PathAlways`, `ScanAlways`).  `DoneCovers` says that
the emitters compute what the scan asks of them.

Every safety property of the passing runs is a theorem.  Checked by TLC only:
liveness (`AlwaysRunsAgain`, `PendingEndsWait`, `DeviceLevelIsTaken`,
`LevelArrives`), which the prover does not support, and `ppc_quick_lru`,
`jit_stale` and `stacks_ori`, which end in a violation.

## Findings

* **PPC quick cache** (`src/LRUCache.cpp:92`): shifts by `WAY_COUNT` where the
  m68k core shifts by `32 - WAY_COUNT`; insertions leave the set and are not found.
* **Stale entry points after eviction** (`src/M68k_Translator.c:955`): evicted
  units stay in the quick cache.
* **ORI to SR that sets M** (`src/M68k_LINE0.c:858`): the test branches to the
  wrong pair of moves, so the interrupt stack pointer is stored as MSP and A7 is
  loaded with an old ISP.

Differences from documentation, comments or the processor that no run checks:

* The first switch-off of the cache after the boot option `enable_cache`
  (`src/M68k_LINE4.c:3228`): `check_cacr` compares with a copy that starts at 0.
* Code in mapped RAM below 16 MB (`src/cache.c:410`): checksum and translator
  read it through IC, which writes do not invalidate.
* The checksummed range (`src/M68k_Translator.c:425`): an inlined backward branch
  at the end of a unit is outside.
* ROL.W #8, SWAP, ROL.W #8 (`src/M68k_LINEE.c:5692`): the mask is taken at the
  first instruction, whose flags SWAP overwrites, so the flags of the three are
  not computed; EXT (`src/M68k_LINE4.c:1248`) and MOVE (`src/M68k_MOVE.c:480`) take it at the last.
* `EMIT_GetNZ00` (`include/A64.h:829`) asked for V and C alone emits nothing.
* Traps out of an instruction that does not announce them (division by zero,
  `src/M68k_MULDIV.c:226`, privileged instructions in user state) push flags the
  scan may have left out.
* RTE (`src/M68k_LINE4.c:1717`) does not mask the status register it pops.
* An interrupt in master state (`src/ExecutionLoop.c:419`) neither clears M nor
  pushes a throwaway frame.
* Eviction (`src/M68k_Translator.c:955`) takes the unit translated longest ago,
  not the one used longest ago, as the message there says.
* The soft-flush threshold (JITSCFTHRESH, `docs/internals/ControlRegisters.md`) can be written and read back,
  but `src/M68k_LINEF.c:1908` does not look at it.
* With `JCC_LOOP_COUNT` = 1 the count of backward jumps starts at 0
  (`src/M68k_Translator.c:550`) and is decremented before it is compared with 0, so a
  loop behind the entry point fills the unit; `docs/internals/ControlRegisters.md:91`
  promises "up to ``JCC_LOOP_COUNT`` loops".
* The loop count (`src/M68k_Translator.c:541`) is not applied to a branch to
  itself, nor the inline range (`src/M68k_LINE6.c:146`) to conditional branches.
* STOP (`src/M68k_LINE4.c:1617`) ends on a pending interrupt that the mask forbids;
  the m68k goes on sleeping.
* Writes to INTENA (`src/aarch64/vectors.c:365`) are taken to be 16 bits wide.

## Not modelled, and the plan

Dead code is left out (`LRU_Invalidate*` by address, `LRU_MarkForVerify`,
`FindUnit`, `SYSValidateUnit`, the `#if 0` part of the flush), as are logging and
counters for statistics, remapping by overlay and autoconfig, and the ARM code
emitted: its correctness is a statement about AArch64 semantics.

Next, in this order:

1. `Interrupts` for the classic build and for the PowerPC core's EXT and DEC flags.
2. `PPCJITCache`: the PPC instance of the unit cache with `icbi` and a batch of 8.
3. `Mailbox`: doorbells and packets between PPC kernel and m68k library; an
   abstract channel it should implement.
4. `Cache040`: sets, ways and lines of `cache.c`, implementing the abstract IC of
   `JITCache`.
5. `RegisterAllocator`.  The write buffer is compiled out (`PISTORM_WRITE_BUFFER` 0 in
   `include/config.h`).
6. Memory layout of the lists (a search that starts at the header), MMU tables.
7. A second pool in `Tlsf`; trace exceptions and bus-error frames in
   `ExceptionStacks`; user state in `FlagScan`.

Theorems planned: the invariants of the modules above as they come.
