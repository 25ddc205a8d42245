------------------------------ MODULE JITCache ------------------------------
(***************************************************************************)
(* The main loop of the m68k core and the cache of translation units it    *)
(* runs from.  A unit is the ARM translation of the guest words Span[a]    *)
(* that start at guest address a.  It is reached in three ways: as the     *)
(* unit run last (LAST_PC and the entry point in register x12), through    *)
(* the quick cache, or through the hash table ICache, and it is trusted    *)
(* there when its epoch is the current one.  An instruction-cache flush    *)
(* only increments the epoch; a unit of an older epoch is checked against  *)
(* the memory it was translated from before it runs again.                 *)
(*                                                                         *)
(* Translator, fingerprint and checksum read guest code below 0x01000000   *)
(* through a software instruction cache, IC.  Writes to the bus drop the   *)
(* line they hit, writes to RAM the ARM maps in that range (Z2 RAM, the    *)
(* RAM at 0xc00000) do not.                                                *)
(*                                                                         *)
(* The core is single threaded, so a pass of the main loop up to the jump  *)
(* into a unit is one step, except that each round of the allocation loop  *)
(* is a step of its own.  While a unit runs the guest writes memory,       *)
(* flushes the instruction cache and writes CACR and JITCTRL.  CRC32 and   *)
(* fingerprint are taken to tell any two contents of a unit apart.         *)
(***************************************************************************)
EXTENDS Integers, FiniteSets, SequencesExt

CONSTANTS
    Addr,       \* guest words; code may start at each
    Rom,        \* the words from 0xf80000 to 0xffffff
    Val,        \* what a word may hold
    Low,        \* the words below 0x01000000, read through IC
    Mapped,     \* those of them in RAM that is mapped, not on the bus: writes
                \* leave IC alone
    Span,       \* [Addr -> SUBSET Addr], the words a unit is translated from
    FpSpan,     \* [Addr -> SUBSET Addr], those of its fingerprint; a unit of
                \* at most 8 bytes is verified without one
    Slot,       \* blocks of jit_tlsf a unit fits in
    Ctl,        \* values of JIT_CONTROL and JIT_CONTROL2
    EvictBatch, \* units released when the allocator is out of memory (64)
    SetOf,      \* the quick-cache set of an address
    WayCount,   \* entries of a quick-cache set
    BootIE,     \* CACR_IE at start: the boot option enable_cache
    MaxEpoch,   \* bound on the epochs explored
    NoAddr,     \* 0xffffffff as LAST_PC
    NoSlot,     \* no unit
    NoVal       \* no valid line of IC

ASSUME JITCacheAssumption ==
    /\ Rom \subseteq Addr
    /\ Low \subseteq Addr /\ Rom \subseteq Low
    /\ Mapped \subseteq Low /\ Rom \cap Mapped = {}
    /\ Span \in [Addr -> SUBSET Addr] /\ FpSpan \in [Addr -> SUBSET Addr]
    /\ \A a \in Rom : Span[a] \subseteq Rom
    /\ NoAddr \notin Addr /\ NoSlot \notin Slot /\ NoVal \notin Val
    /\ IsFiniteSet(Slot) /\ Slot # {}
    /\ EvictBatch \in Nat \ {0} /\ WayCount \in Nat \ {0} /\ MaxEpoch \in Nat
    /\ BootIE \in BOOLEAN

VARIABLES
    mem,        \* guest memory
    ic,         \* IC: what the software instruction cache holds of a word
    ctl,        \* JIT_CONTROL and JIT_CONTROL2
    hist,       \* history: memory and JIT control since the last flush
    unit,       \* the contents of the blocks; a released block keeps its own
    used,       \* the blocks allocated from jit_tlsf
    lru,        \* the list LRU, head first
    hashed,     \* the units linked into the buckets of ICache
    count,      \* JIT_UNIT_COUNT
    epoch,      \* EPOCH
    quick,      \* LRU_cache: the unit whose entry point an address has
    lastPC,     \* LAST_PC
    armCode,    \* ARMCode, the entry point in register x12
    ie,         \* CACR_IE of CACR
    oldIE,      \* CACR_IE of old_cacr in check_cacr
    pc,         \* the guest PC at the head of the main loop
    phase,      \* "loop", "alloc", "run", or "exit" after a flush
    running     \* the unit being run

guest == <<mem, ic, ctl, hist>>
units == <<unit, used, lru, hashed, count, epoch>>
fast  == <<quick, lastPC, armCode>>
cacr  == <<ie, oldIE>>
vars  == <<guest, units, fast, cacr, pc, phase, running>>

NoUnit    == [addr |-> NoAddr]
UnitAt(a) == [addr : {a}, code : [Span[a] -> Val], sum : [Span[a] -> Val],
              fp : [FpSpan[a] -> Val], epoch : Nat, ctl : Ctl]

-----------------------------------------------------------------------------
(* Units, lists and the quick cache                                        *)

(* cache_read_16, cache_read_32 and cache_read_64 when IC is c, and IC     *)
(* after they have read the words.                                         *)
Read(c, w) == IF w \in Low /\ c[w] # NoVal THEN c[w] ELSE mem[w]

Fill(c, words) == [w \in Low |-> IF w \in words THEN Read(c, w) ELSE c[w]]

(* Any line may have been replaced since IC was c.                         *)
Replaced(c) ==
    {[w \in Low |-> IF w \in lost THEN NoVal ELSE c[w]] : lost \in SUBSET Low}

(* Fingerprint and CalcCRC32 over [mt_M68kLow, mt_M68kHigh) when IC is c.  *)
FpMatches(u, c)  == \A w \in FpSpan[u.addr] : u.fp[w] = Read(c, w)
SumMatches(u, c) == \A w \in Span[u.addr] : u.sum[w] = Read(c, w)

(* The words of the unit outside mapped low RAM are those of memory m; of  *)
(* mapped low RAM IC may hold something else.                              *)
Unchanged(u, m) == \A w \in Span[u.addr] \ Mapped : u.code[w] = m[w]

Snapshot(m, c) == [mem |-> m, ctl |-> c]

(* The unit translates what memory and JIT control were at one moment      *)
(* since the last flush.                                                   *)
Fresh(u) == \E h \in hist : Unchanged(u, h.mem) /\ u.ctl = h.ctl

At(a) == {s \in hashed : unit[s].addr = a}

Unlinked(s) == RemoveAt(lru, CHOOSE i \in DOMAIN lru : lru[i] = s)

Release(s) ==
    /\ lru' = Unlinked(s)
    /\ hashed' = hashed \ {s}
    /\ used' = used \ {s}
    /\ count' = count - 1
    /\ UNCHANGED <<unit, epoch>>

QuickSet(a) == {b \in Addr : SetOf[b] = SetOf[a] /\ quick[b] # NoSlot}

(* LRU_InsertBlock: QuickLRU shows that the entry overwritten belongs to   *)
(* the same set and that there is none while the set has room.             *)
QuickInsert(a, s) ==
    \E gone \in SUBSET (QuickSet(a) \ {a}) :
       /\ Cardinality(gone) = IF Cardinality(QuickSet(a)) >= WayCount THEN 1 ELSE 0
       /\ quick' = [b \in Addr |-> IF b = a THEN s
                                   ELSE IF b \in gone THEN NoSlot ELSE quick[b]]

QuickEmpty == [a \in Addr |-> NoSlot]

(* Jump to the unit in block s.                                            *)
Run(s) == armCode' = s /\ running' = s /\ phase' = "run"

-----------------------------------------------------------------------------
Init ==
    /\ mem \in [Addr -> Val] /\ ic = [w \in Low |-> NoVal]
    /\ ctl \in Ctl /\ hist = {Snapshot(mem, ctl)}
    /\ unit = [s \in Slot |-> NoUnit] /\ used = {} /\ lru = <<>> /\ hashed = {}
    /\ count = 0 /\ epoch = 0
    /\ quick = QuickEmpty /\ lastPC = NoAddr /\ armCode = NoSlot
    /\ ie = BootIE /\ oldIE = FALSE
    /\ pc \in Addr /\ phase = "loop" /\ running = NoSlot

-----------------------------------------------------------------------------
(* The main loop with the instruction cache enabled                        *)

FastPath ==
    /\ phase = "loop" /\ ie /\ lastPC = pc
    /\ Run(armCode)
    /\ UNCHANGED <<guest, units, quick, lastPC, cacr, pc>>

(* FindUnitQuick, first half: an entry of the quick cache is not checked.  *)
QuickHit ==
    /\ phase = "loop" /\ ie /\ lastPC # pc /\ quick[pc] # NoSlot
    /\ lastPC' = pc /\ Run(quick[pc])
    /\ UNCHANGED <<guest, units, quick, cacr, pc>>

QuickMiss == phase = "loop" /\ ie /\ lastPC # pc /\ quick[pc] = NoSlot

(* FindUnitQuick, second half: search the bucket for address and epoch.    *)
HashHit ==
    /\ QuickMiss
    /\ \E s \in At(pc) :
          /\ unit[s].epoch = epoch
          /\ QuickInsert(pc, s) /\ lastPC' = pc /\ Run(s)
    /\ UNCHANGED <<guest, units, cacr, pc>>

HashMiss == QuickMiss /\ \A s \in At(pc) : unit[s].epoch # epoch

(* M68K_VerifyUnit: a unit of the ROM is not compared with memory; another *)
(* one's fingerprint is read when IC is c, its checksum when IC is d.      *)
Valid(u, c, d) ==
    /\ u.ctl = ctl
    /\ u.addr \in Rom \/ (FpMatches(u, c) /\ SumMatches(u, d))

ICAfter(u, c, d) ==
    IF u.ctl # ctl \/ u.addr \in Rom THEN ic
    ELSE IF FpMatches(u, c) THEN Fill(d, Span[u.addr]) ELSE Fill(c, FpSpan[u.addr])

VerifyOK ==
    /\ HashMiss
    /\ \E s \in At(pc) : \E c \in Replaced(ic) :
       \E d \in Replaced(Fill(c, FpSpan[pc])) :
          /\ Valid(unit[s], c, d) /\ ic' = ICAfter(unit[s], c, d)
          /\ unit' = [unit EXCEPT ![s].epoch = epoch]
          /\ lru' = Cons(s, Unlinked(s))
          /\ QuickInsert(pc, s) /\ lastPC' = pc /\ Run(s)
    /\ UNCHANGED <<mem, ctl, hist, used, hashed, count, epoch, cacr, pc>>

VerifyFails ==
    /\ HashMiss
    /\ \E s \in At(pc) : \E c \in Replaced(ic) :
       \E d \in Replaced(Fill(c, FpSpan[pc])) :
          /\ ~Valid(unit[s], c, d) /\ ic' = ICAfter(unit[s], c, d)
          /\ Release(s)
    /\ phase' = "alloc"
    /\ UNCHANGED <<mem, ctl, hist, fast, cacr, pc, running>>

(* Mutant: a unit of another epoch is not looked for.                      *)
AbsentFromEpoch ==
    /\ HashMiss
    /\ phase' = "alloc"
    /\ UNCHANGED <<guest, units, fast, cacr, pc, running>>

Absent ==
    /\ HashMiss /\ At(pc) = {}
    /\ phase' = "alloc"
    /\ UNCHANGED <<guest, units, fast, cacr, pc, running>>

(* The main loop with the instruction cache disabled: every unit is        *)
(* compared with memory (M68K_VerifyUnitCRC32) before it runs.             *)
(* Mutant: it is not compared.                                             *)
UncachedUnchecked ==
    /\ phase = "loop" /\ ~ie /\ lastPC' = NoAddr
    /\ \E s \in At(pc) : Run(s)
    /\ UNCHANGED <<guest, units, quick, cacr, pc>>

UncachedRun ==
    /\ phase = "loop" /\ ~ie /\ lastPC' = NoAddr
    /\ \E s \in At(pc) : \E c \in Replaced(ic) :
          SumMatches(unit[s], c) /\ ic' = Fill(c, Span[pc]) /\ Run(s)
    /\ UNCHANGED <<mem, ctl, hist, units, quick, cacr, pc>>

UncachedFails ==
    /\ phase = "loop" /\ ~ie /\ lastPC' = NoAddr
    /\ \E s \in At(pc) : \E c \in Replaced(ic) :
          ~SumMatches(unit[s], c) /\ ic' = Fill(c, Span[pc]) /\ Release(s)
    /\ phase' = "alloc"
    /\ UNCHANGED <<mem, ctl, hist, quick, armCode, cacr, pc, running>>

UncachedAbsent ==
    /\ phase = "loop" /\ ~ie /\ lastPC' = NoAddr /\ At(pc) = {}
    /\ phase' = "alloc"
    /\ UNCHANGED <<guest, units, quick, armCode, cacr, pc, running>>

-----------------------------------------------------------------------------
(* M68K_GetTranslationUnit                                                 *)

(* Mutants: the evicted units stay in the hash table, or in memory.        *)
EvictHashed ==
    /\ phase = "alloc" /\ used = Slot
    /\ LET kept == IF Len(lru) > EvictBatch THEN Len(lru) - EvictBatch ELSE 0
           gone == {lru[i] : i \in kept + 1 .. Len(lru)}
       IN  /\ lru' = SubSeq(lru, 1, kept)
           /\ used' = used \ gone
           /\ count' = count - Cardinality(gone)
    /\ lastPC' = NoAddr
    /\ UNCHANGED <<guest, unit, epoch, hashed, quick, armCode, cacr, pc, phase, running>>

EvictAllocated ==
    /\ phase = "alloc" /\ used = Slot
    /\ LET kept == IF Len(lru) > EvictBatch THEN Len(lru) - EvictBatch ELSE 0
           gone == {lru[i] : i \in kept + 1 .. Len(lru)}
       IN  /\ lru' = SubSeq(lru, 1, kept)
           /\ hashed' = hashed \ gone
           /\ count' = count - Cardinality(gone)
    /\ lastPC' = NoAddr
    /\ UNCHANGED <<guest, unit, epoch, used, quick, armCode, cacr, pc, phase, running>>

(* One round of the allocation loop without memory: the tail of LRU goes.  *)
Evict ==
    /\ phase = "alloc" /\ used = Slot
    /\ LET kept == IF Len(lru) > EvictBatch THEN Len(lru) - EvictBatch ELSE 0
           gone == {lru[i] : i \in kept + 1 .. Len(lru)}
       IN  /\ lru' = SubSeq(lru, 1, kept)
           /\ hashed' = hashed \ gone
           /\ used' = used \ gone
           /\ count' = count - Cardinality(gone)
    /\ lastPC' = NoAddr
    /\ UNCHANGED <<guest, unit, epoch, quick, armCode, cacr, pc, phase, running>>

(* Mutant: the checksum is taken of memory outside the unit, too.          *)
TranslationOfAll(c, d, e) ==
    [addr |-> pc, code |-> [w \in Span[pc] |-> Read(c, w)], sum |-> mem,
     fp |-> [w \in FpSpan[pc] |-> Read(d, w)], epoch |-> epoch, ctl |-> ctl]

(* IC is c when the code, d when the fingerprint, e when the checksum is   *)
(* read.                                                                   *)
Translation(c, d, e) ==
    [addr |-> pc, code |-> [w \in Span[pc] |-> Read(c, w)],
     sum |-> [w \in Span[pc] |-> Read(e, w)],
     fp |-> [w \in FpSpan[pc] |-> Read(d, w)], epoch |-> epoch, ctl |-> ctl]

Translate ==
    /\ phase = "alloc"
    /\ \E s \in Slot \ used : \E c \in Replaced(ic) :
       \E d \in Replaced(Fill(c, Span[pc])) : \E e \in Replaced(Fill(d, FpSpan[pc])) :
          /\ unit' = [unit EXCEPT ![s] = Translation(c, d, e)]
          /\ ic' = Fill(e, Span[pc])
          /\ used' = used \cup {s}
          /\ lru' = Cons(s, lru)
          /\ hashed' = hashed \cup {s}
          /\ Run(s)
          /\ IF ie THEN QuickInsert(pc, s) /\ lastPC' = pc
                   ELSE UNCHANGED <<quick, lastPC>>
    /\ count' = count + 1
    /\ UNCHANGED <<mem, ctl, hist, epoch, cacr, pc>>

-----------------------------------------------------------------------------
(* What the guest code in a unit does                                      *)

(* Mutant: a write to the bus leaves the line in IC.                       *)
WriteKeepsLine(a, v) ==
    /\ phase = "run" /\ a \notin Rom
    /\ mem' = [mem EXCEPT ![a] = v]
    /\ hist' = hist \cup {Snapshot(mem', ctl)}
    /\ UNCHANGED <<ic, ctl, units, fast, cacr, pc, phase, running>>

(* A write to the bus (ps_write_8 and so on) invalidates its line of IC.   *)
Write(a, v) ==
    /\ phase = "run" /\ a \notin Rom
    /\ mem' = [mem EXCEPT ![a] = v]
    /\ ic' = IF a \in Low \ Mapped THEN [ic EXCEPT ![a] = NoVal] ELSE ic
    /\ hist' = hist \cup {Snapshot(mem', ctl)}
    /\ UNCHANGED <<ctl, units, fast, cacr, pc, phase, running>>

WriteJITControl(c) ==
    /\ phase = "run"
    /\ ctl' = c
    /\ hist' = hist \cup {Snapshot(mem, c)}
    /\ UNCHANGED <<mem, ic, units, fast, cacr, pc, phase, running>>

(* Mutants: the quick cache, LAST_PC or IC survives a flush.               *)
FlushKeepsQuick ==
    /\ phase = "run" /\ epoch < MaxEpoch
    /\ ic' = [w \in Low |-> NoVal] /\ hist' = {Snapshot(mem, ctl)}
    /\ lastPC' = NoAddr /\ epoch' = epoch + 1 /\ phase' = "exit"
    /\ UNCHANGED <<mem, ctl, unit, used, lru, hashed, count, quick, armCode, cacr, pc, running>>

FlushKeepsLastPC ==
    /\ phase = "run" /\ epoch < MaxEpoch
    /\ ic' = [w \in Low |-> NoVal] /\ hist' = {Snapshot(mem, ctl)}
    /\ quick' = QuickEmpty /\ epoch' = epoch + 1 /\ phase' = "exit"
    /\ UNCHANGED <<mem, ctl, unit, used, lru, hashed, count, lastPC, armCode, cacr, pc, running>>

FlushKeepsIC ==
    /\ phase = "run" /\ epoch < MaxEpoch
    /\ hist' = {Snapshot(mem, ctl)}
    /\ lastPC' = NoAddr /\ quick' = QuickEmpty /\ epoch' = epoch + 1
    /\ phase' = "exit"
    /\ UNCHANGED <<mem, ic, ctl, unit, used, lru, hashed, count, armCode, cacr, pc, running>>

(* CINV and CPUSH of the instruction cache: invalidate_instruction_cache.  *)
(* The rest of the unit is its epilogue, run from a copy.                  *)
Flush ==
    /\ phase = "run" /\ epoch < MaxEpoch
    /\ ic' = [w \in Low |-> NoVal] /\ hist' = {Snapshot(mem, ctl)}
    /\ lastPC' = NoAddr /\ quick' = QuickEmpty /\ epoch' = epoch + 1
    /\ phase' = "exit"
    /\ UNCHANGED <<mem, ctl, unit, used, lru, hashed, count, armCode, cacr, pc, running>>

(* Mutants: the calling unit is released too; old_cacr is not updated.     *)
WriteCACRKeepsNone(on) ==
    /\ phase = "run"
    /\ ie' = on /\ oldIE' = on
    /\ IF oldIE /\ ~on
         THEN /\ lru' = <<>> /\ hashed' = {} /\ used' = {} /\ count' = 0
              /\ lastPC' = NoAddr /\ quick' = QuickEmpty
         ELSE UNCHANGED <<lru, hashed, used, count, lastPC, quick>>
    /\ UNCHANGED <<guest, unit, epoch, armCode, pc, phase, running>>

WriteCACRForgets(on) ==
    /\ phase = "run" /\ ie' = on
    /\ UNCHANGED <<guest, units, fast, oldIE, pc, phase, running>>

(* MOVEC to CACR: check_cacr, called by the unit.  When it sees IE go from *)
(* 1 to 0 it releases every unit but the one it was called from.           *)
WriteCACR(on) ==
    LET gone == Range(lru) \ {running} IN
    /\ phase = "run"
    /\ ie' = on /\ oldIE' = on
    /\ IF oldIE /\ ~on
         THEN /\ lru' = IF running \in Range(lru) THEN <<running>> ELSE <<>>
              /\ hashed' = hashed \ gone
              /\ used' = used \ gone
              /\ count' = count - Cardinality(gone)
              /\ lastPC' = NoAddr /\ quick' = QuickEmpty
         ELSE UNCHANGED <<lru, hashed, used, count, lastPC, quick>>
    /\ UNCHANGED <<guest, unit, epoch, armCode, pc, phase, running>>

EndUnit(next) ==
    /\ phase \in {"run", "exit"}
    /\ phase' = "loop" /\ running' = NoSlot /\ pc' = next
    /\ UNCHANGED <<guest, units, fast, cacr>>

-----------------------------------------------------------------------------
Cached   == FastPath \/ QuickHit \/ HashHit \/ VerifyOK \/ VerifyFails \/ Absent
Uncached == UncachedRun \/ UncachedFails \/ UncachedAbsent
MainLoop == Cached \/ Uncached \/ Evict \/ Translate

Guest == \/ \E a \in Addr, v \in Val : Write(a, v)
         \/ \E c \in Ctl : WriteJITControl(c)
         \/ Flush
         \/ \E on \in BOOLEAN : WriteCACR(on)
         \/ \E next \in Addr : EndUnit(next)

Next == MainLoop \/ Guest

Spec == Init /\ [][Next]_vars

FairSpec == Spec /\ WF_vars(MainLoop)

-----------------------------------------------------------------------------
TypeOK ==
    /\ mem \in [Addr -> Val] /\ ic \in [Low -> Val \cup {NoVal}] /\ ctl \in Ctl
    /\ hist \subseteq [mem : [Addr -> Val], ctl : Ctl]
    /\ unit = [s \in Slot |-> unit[s]]
    /\ \A s \in Slot : unit[s] = NoUnit \/ \E a \in Addr : unit[s] \in UnitAt(a)
    /\ used \subseteq Slot /\ hashed \subseteq Slot /\ lru \in Seq(Slot)
    /\ count \in Int /\ epoch \in Nat
    /\ quick \in [Addr -> Slot \cup {NoSlot}]
    /\ lastPC \in Addr \cup {NoAddr} /\ armCode \in Slot \cup {NoSlot}
    /\ ie \in BOOLEAN /\ oldIE \in BOOLEAN
    /\ pc \in Addr /\ phase \in {"loop", "alloc", "run", "exit"}
    /\ running \in Slot \cup {NoSlot}

(* The list LRU, the hash table and the allocator hold the same units,     *)
(* none of them twice, and JIT_UNIT_COUNT counts them: a unit missing from *)
(* one is leaked or found after its release.                               *)
ListsAgree ==
    /\ IsInjective(lru)
    /\ Range(lru) = used /\ hashed = used
    /\ count = Cardinality(used)

(* No address has two units: a second one would answer a search that the   *)
(* verification of the first had just failed.                              *)
OneUnitPerAddress ==
    \A s, t \in hashed : unit[s].addr = unit[t].addr => s = t

(* FindUnitQuick runs a unit of the current epoch without looking at it:   *)
(* such a unit translates what memory and JIT control were at one moment   *)
(* since the last flush of the instruction cache.  Words of mapped low RAM *)
(* are excepted (see Unchanged): their lines of IC survive a write.        *)
EpochMeansVerified ==
    \A s \in hashed : unit[s].epoch = epoch => Fresh(unit[s])

(* IC holds nothing from before the last flush, and what it holds of words *)
(* on the bus is what is there now: only RAM that is mapped below          *)
(* 0x01000000 can be out of date.                                          *)
ICSinceFlush ==
    \A w \in Low : ic[w] # NoVal =>
       /\ \E h \in hist : h.mem[w] = ic[w]
       /\ w \notin Mapped => ic[w] = mem[w]

(* An entry of the quick cache leads to the live unit of its address, and  *)
(* that unit is of the current epoch.                                      *)
QuickCoherent ==
    \A a \in Addr : quick[a] # NoSlot =>
       quick[a] \in used /\ unit[quick[a]].addr = a /\ unit[quick[a]].epoch = epoch

(* LAST_PC is the address of the unit whose entry point is in x12, so the  *)
(* shortcut of the main loop runs that address's live, current unit.       *)
LastPCCoherent ==
    lastPC # NoAddr =>
       armCode \in used /\ unit[armCode].addr = lastPC /\ unit[armCode].epoch = epoch

(* The code being executed is not in released memory.                      *)
RunningIsLive == phase \in {"run", "exit"} => running \in used

(* What the main loop jumps to translates the guest code at PC: as memory  *)
(* was since the last flush when the cache is enabled, as memory is now    *)
(* when it is disabled.                                                    *)
RunsGuestCode ==
    [][phase # "run" /\ phase' = "run" =>
          LET u == unit'[running'] IN
          /\ u.addr = pc
          /\ IF ie THEN Fresh(u) ELSE Unchanged(u, mem)]_vars

(* check_cacr on IE going from 1 to 0: "Keep only one entry in cache - the *)
(* one that flushed it, throw everything else away".                       *)
DisablingEmptiesCache ==
    [][ie /\ ~ie' => Range(lru') \subseteq {running} /\ quick' = QuickEmpty]_vars

(* M68K_GetTranslationUnit "never fails": the main loop always gets to run *)
(* a unit again, however full the cache is.                                *)
AlwaysRunsAgain == phase \in {"loop", "alloc"} ~> phase = "run"
=============================================================================
