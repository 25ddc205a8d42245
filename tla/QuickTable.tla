----------------------------- MODULE QuickTable -----------------------------
(***************************************************************************)
(* What the quick cache in front of the translation-unit hash table        *)
(* promises: a lossy map from guest addresses to entry points.  An entry   *)
(* is lost only when its set is full, and never the one used last.         *)
(***************************************************************************)
EXTENDS Integers, FiniteSets

CONSTANTS
    Addr,       \* guest code addresses
    Arm,        \* entry points of translated code
    Set,        \* the sets of the cache
    SetOf,      \* [Addr -> Set], the set an address is kept in
    WayCount,   \* entries per set
    NoArm,      \* an address without an entry
    NoAddr      \* a set nothing was used in since the last invalidation

VARIABLES
    table,      \* [Addr -> Arm \cup {NoArm}]
    recent      \* [Set -> Addr \cup {NoAddr}], the address used last

Cached(s) == {a \in Addr : SetOf[a] = s /\ table[a] # NoArm}

Init == /\ table = [a \in Addr |-> NoArm]
        /\ recent = [s \in Set |-> NoAddr]

Hit(a) == /\ table[a] # NoArm
          /\ recent' = [recent EXCEPT ![SetOf[a]] = a]
          /\ UNCHANGED table

(* A new entry pushes out nothing while the set has room, and otherwise    *)
(* one entry that is not the one used last.                                *)
Insert(a, x) ==
    LET s == SetOf[a] IN
    /\ table[a] = NoArm
    /\ \E gone \in SUBSET (Cached(s) \ {recent[s]}) :
          /\ Cardinality(gone) = IF Cardinality(Cached(s)) = WayCount THEN 1 ELSE 0
          /\ table' = [b \in Addr |-> IF b = a THEN x
                                      ELSE IF b \in gone THEN NoArm ELSE table[b]]
    /\ recent' = [recent EXCEPT ![s] = a]

Forget == /\ table' = [a \in Addr |-> NoArm]
          /\ recent' = [s \in Set |-> NoAddr]

Next == \/ \E a \in Addr : Hit(a)
        \/ \E a \in Addr, x \in Arm : Insert(a, x)
        \/ Forget

Spec == Init /\ [][Next]_<<table, recent>>
=============================================================================
