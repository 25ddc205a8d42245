------------------------------ MODULE QuickLRU ------------------------------
(***************************************************************************)
(* The quick cache as the program keeps it: LRU_cache, one flat array of   *)
(* {m68k, arm} entries, and LRU_alloc, one 32-bit word per set in which a  *)
(* 1 bit marks a way that was not used lately.  A word is the set of the   *)
(* positions of its 1 bits, counted from the most significant bit: way i   *)
(* of a set is bit i, so __builtin_clz returns the smallest member.        *)
(*                                                                         *)
(* The main loop inserts an address only after LRU_FindBlock missed it, so *)
(* an insertion here has the miss as its guard.                            *)
(***************************************************************************)
EXTENDS Integers, FiniteSets

CONSTANTS
    Addr,       \* guest code addresses
    Arm,        \* entry points of translated code
    SetCount,   \* EMU68_LRU_SET_COUNT
    SetOf,      \* [Addr -> 0 .. SetCount - 1], ADDR_2_SET
    WayCount,   \* EMU68_LRU_WAY_COUNT
    Bits,       \* width of a word of LRU_alloc
    Shift,      \* the shift that leaves the bits of a set's ways
    NoArm,      \* the null entry point
    NoAddr      \* the address 0xffffffff of an empty entry

ASSUME QuickLRUAssumption ==
    /\ SetCount \in Nat \ {0} /\ WayCount \in Nat \ {0}
    /\ Bits \in Nat /\ WayCount < Bits /\ Shift \in 0 .. Bits - 1
    /\ SetOf \in [Addr -> 0 .. SetCount - 1]
    /\ NoArm \notin Arm /\ NoAddr \notin Addr

VARIABLES
    cache,      \* LRU_cache
    alloc,      \* LRU_alloc
    recent      \* history: the address found or inserted last in each set

vars == <<cache, alloc, recent>>

Set   == 0 .. SetCount - 1
Way   == 0 .. WayCount - 1
Bit   == 0 .. Bits - 1
Empty == [m68k |-> NoAddr, arm |-> NoArm]

(* Mutant: the set number is not scaled by the number of ways.             *)
IndexUnscaled(s, w) == s + w

Index(s, w) == s * WayCount + w

(* __builtin_clz *)
Victim(word) == CHOOSE i \in word : \A j \in word : i <= j

(* Mutants: the complement of the mask is taken in 64 bits; the shift is    *)
(* the number of ways; the way just used stays available after a reset.    *)
TouchWide(word, i) ==
    LET current == word \ {i}
    IN  IF \A j \in current : j >= Bits - Shift THEN (0 .. 2 * Bits - 1) \ {i} ELSE current

TouchByWays(word, i) ==
    LET current == word \ {i}
    IN  IF \A j \in current : j >= Bits - WayCount THEN Bit \ {i} ELSE current

TouchResetAll(word, i) ==
    LET current == word \ {i}
    IN  IF \A j \in current : j >= Bits - Shift THEN Bit ELSE current

(* Clear the bit of way i; when the bits of the ways are used up, all bits *)
(* but that one are set again.                                             *)
Touch(word, i) ==
    LET current == word \ {i}
    IN  IF \A j \in current : j >= Bits - Shift THEN Bit \ {i} ELSE current

Holds(a, w) == cache[Index(SetOf[a], w)].m68k = a

Init == /\ cache = [i \in 0 .. SetCount * WayCount - 1 |-> Empty]
        /\ alloc = [s \in Set |-> Bit]
        /\ recent = [s \in Set |-> NoAddr]

LRU_FindBlock(a) ==
    LET s == SetOf[a] IN
    \E w \in Way :
       /\ Holds(a, w)
       /\ \A v \in Way : Holds(a, v) => w <= v
       /\ alloc' = [alloc EXCEPT ![s] = Touch(@, w)]
       /\ recent' = [recent EXCEPT ![s] = a]
       /\ UNCHANGED cache

(* A victim beyond the ways of the set is an entry of a later set, or no   *)
(* entry at all.                                                           *)
LRU_InsertBlock(a, x) ==
    LET s   == SetOf[a]
        loc == Victim(alloc[s])
        at  == Index(s, loc)
    IN  /\ \A w \in Way : ~Holds(a, w)
        /\ cache' = [i \in DOMAIN cache |->
                       IF i = at THEN [m68k |-> a, arm |-> x] ELSE cache[i]]
        /\ alloc' = [alloc EXCEPT ![s] = Touch(@, loc)]
        /\ recent' = [recent EXCEPT ![s] = a]

(* Mutant: only the words are reset.                                       *)
InvalidateWordsOnly ==
    /\ alloc' = [s \in Set |-> Bit]
    /\ recent' = [s \in Set |-> NoAddr]
    /\ UNCHANGED cache

LRU_InvalidateAll ==
    /\ cache' = [i \in DOMAIN cache |-> Empty]
    /\ alloc' = [s \in Set |-> Bit]
    /\ recent' = [s \in Set |-> NoAddr]

Next == \/ \E a \in Addr : LRU_FindBlock(a)
        \/ \E a \in Addr, x \in Arm : LRU_InsertBlock(a, x)
        \/ LRU_InvalidateAll

Spec == Init /\ [][Next]_vars

-----------------------------------------------------------------------------
TypeOK ==
    /\ cache \in [0 .. SetCount * WayCount - 1 ->
                    [m68k : Addr \cup {NoAddr}, arm : Arm \cup {NoArm}]]
    /\ alloc \in [Set -> SUBSET Bit]
    /\ recent \in [Set -> Addr \cup {NoAddr}]

(* The entry the next insertion overwrites belongs to the set the address  *)
(* maps to: LRU_InsertBlock writes e[loc] without a bound check, and LRU   *)
(* searches only the ways of the set.                                      *)
VictimInSet == \A s \in Set : alloc[s] # {} /\ Victim(alloc[s]) \in Way

(* An address is held by one way of its own set at most: a second copy     *)
(* would outlive the invalidation or replacement of the first.             *)
OneEntryPerAddress ==
    \A i, j \in DOMAIN cache :
       cache[i].m68k # NoAddr /\ cache[i].m68k = cache[j].m68k
          => i = j /\ i \div WayCount = SetOf[cache[i].m68k]

(* The replacement words only approximate recency, but the block found or  *)
(* inserted last is still there and is not the next one overwritten, and a *)
(* way is overwritten only when no way of its set is empty.                *)
RecentSurvives ==
    \A s \in Set :
       /\ recent[s] # NoAddr =>
             \E w \in Way : cache[Index(s, w)].m68k = recent[s] /\ w # Victim(alloc[s])
       /\ (\E w \in Way : cache[Index(s, w)] = Empty)
             => cache[Index(s, Victim(alloc[s]))] = Empty

(* The array and the words implement the lossy map of QuickTable.          *)
Table == INSTANCE QuickTable WITH
    table <- [a \in Addr |->
                IF \E w \in Way : Holds(a, w)
                THEN cache[Index(SetOf[a], CHOOSE w \in Way : Holds(a, w))].arm
                ELSE NoArm]
ImplementsTable == Table!Spec

=============================================================================
