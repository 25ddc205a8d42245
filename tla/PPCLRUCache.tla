---------------------------- MODULE PPCLRUCache ----------------------------
(***************************************************************************)
(* The quick cache of the PowerPC core.  It is the structure of QuickLRU   *)
(* rewritten as a class; the one difference is the shift by which          *)
(* findBlock and insertBlock look at the bits of the ways: WAY_COUNT,      *)
(* where the m68k core uses 32 - WAY_COUNT.                                *)
(***************************************************************************)
EXTENDS Integers, FiniteSets

CONSTANTS Addr, Arm, SetCount, SetOf, WayCount, Bits, NoArm, NoAddr

VARIABLES cache, alloc, recent

LRU == INSTANCE QuickLRU WITH Shift <- WayCount

findBlock(a)      == LRU!LRU_FindBlock(a)
insertBlock(a, x) == LRU!LRU_InsertBlock(a, x)
invalidateAll     == LRU!LRU_InvalidateAll

Init == LRU!Init

Next == \/ \E a \in Addr : findBlock(a)
        \/ \E a \in Addr, x \in Arm : insertBlock(a, x)
        \/ invalidateAll

Spec == Init /\ [][Next]_LRU!vars

-----------------------------------------------------------------------------
(* insertBlock writes the entry under the comment "Insert new entry":      *)
(* afterwards the address is in the cache, in one of the ways findBlock    *)
(* searches.                                                               *)
InsertedIsFound ==
    [][\A a \in Addr, x \in Arm :
          insertBlock(a, x) => \E w \in LRU!Way : LRU!Holds(a, w)']_LRU!vars
=============================================================================
