----------------------------- MODULE MCQuickLRU -----------------------------
(* LRU_cache with its real four ways and 32-bit words and two sets: more   *)
(* addresses than ways compete for set 0, one address maps to set 1.       *)
EXTENDS QuickLRU, TLC

CONSTANT Rival      \* the addresses of set 0

MCSetOf == [a \in Addr |-> IF a \in Rival THEN 0 ELSE 1]

MCSymmetry == Permutations(Rival) \cup Permutations(Arm)
=============================================================================
