-------------------------- MODULE QuickLRU_proofs --------------------------
(***************************************************************************)
(* Proofs about QuickLRU for any number of sets, at least two ways and any *)
(* width of the replacement words, when the shift leaves the bits of the   *)
(* ways, as that of the m68k core does and that of the PPC class does not. *)
(***************************************************************************)
EXTENDS QuickLRU, TLAPS, WellFoundedInduction, FiniteSetTheorems

Geometry == WayCount >= 2 /\ Bits - Shift = WayCount

LEMMA Numbers ==
  /\ SetCount \in Nat /\ SetCount > 0 /\ WayCount \in Nat /\ WayCount > 0
  /\ Bits \in Nat /\ WayCount < Bits /\ Way \subseteq Bit
  /\ SetOf \in [Addr -> Set] /\ NoAddr \notin Addr
  BY QuickLRUAssumption DEF QuickLRUAssumption, Way, Bit, Set

-----------------------------------------------------------------------------
(* The array: entry w of set s.                                            *)

LEMMA IndexInArray ==
  ASSUME NEW s \in Set, NEW w \in Way
  PROVE  Index(s, w) \in 0 .. SetCount * WayCount - 1 /\ Index(s, w) \div WayCount = s
  BY Numbers, SMT DEF Index, Set, Way

LEMMA IndexInjective ==
  ASSUME NEW s \in Set, NEW t \in Set, NEW w \in Way, NEW v \in Way,
         Index(s, w) = Index(t, v)
  PROVE  s = t /\ w = v
<1>1. s = t
  BY IndexInArray
<1> QED
  BY <1>1, Numbers DEF Index, Set, Way

LEMMA IndexOf ==
  ASSUME NEW i \in 0 .. SetCount * WayCount - 1
  PROVE  i \div WayCount \in Set /\ \E w \in Way : i = Index(i \div WayCount, w)
<1>1. i \div WayCount \in Set
  BY Numbers, SMT DEF Set
<1>2. i = (i \div WayCount) * WayCount + (i % WayCount) /\ i % WayCount \in 0 .. WayCount - 1
  BY Numbers, SMT
<1> QED
  BY <1>1, <1>2 DEF Index, Way

-----------------------------------------------------------------------------
(* The words.                                                              *)

LEMMA HasSmallest ==
  ASSUME NEW T \in SUBSET Nat, T # {}
  PROVE  \E i \in T : \A j \in T : i <= j
<1>1. PICK x \in T : \A y \in T : <<y, x>> \notin OpToRel(<, Nat)
  BY NatLessThanWellFounded, WFMin
<1>2. \A y \in T : ~(y < x)
  BY <1>1 DEF OpToRel
<1> QED
  BY <1>2

(* A word that names a way: LRU_InsertBlock stays inside the set.          *)
Names(word) == word \subseteq Bit /\ \E w \in Way : w \in word

LEMMA VictimIsWay ==
  ASSUME NEW word, Names(word)
  PROVE  Victim(word) \in word /\ Victim(word) \in Way
<1>1. word \in SUBSET Nat /\ word # {}
  BY DEF Names, Bit
<1>2. Victim(word) \in word /\ \A j \in word : Victim(word) <= j
  BY <1>1, HasSmallest DEF Victim
<1>3. PICK w \in Way : w \in word
  BY DEF Names
<1>4. Victim(word) \in Nat /\ Victim(word) <= w
  BY <1>1, <1>2, <1>3
<1>5. w \in Nat /\ w <= WayCount - 1
  BY Numbers DEF Way
<1>6. Victim(word) \in 0 .. WayCount - 1
  BY <1>4, <1>5, Numbers
<1> QED
  BY <1>2, <1>6 DEF Way

LEMMA TouchNames ==
  ASSUME Geometry, NEW word, Names(word), NEW i \in Way
  PROVE  Names(Touch(word, i)) /\ i \notin Touch(word, i)
<1>1. CASE \A j \in word \ {i} : j >= Bits - Shift
  <2>1. Touch(word, i) = Bit \ {i}
    BY <1>1 DEF Touch
  <2>2. \E w \in Way : w # i
    BY Numbers DEF Geometry, Way
  <2> QED
    BY <2>1, <2>2, Numbers DEF Names
<1>2. CASE ~ \A j \in word \ {i} : j >= Bits - Shift
  <2>1. Touch(word, i) = word \ {i}
    BY <1>2 DEF Touch
  <2>2. PICK j \in word \ {i} : ~(j >= Bits - Shift)
    BY <1>2
  <2>3. j \in Way
    BY <2>2, Numbers DEF Geometry, Names, Bit, Way
  <2> QED
    BY <2>1, <2>2, <2>3 DEF Names
<1> QED
  BY <1>1, <1>2

(* No reset as long as a way is left.                                      *)
LEMMA TouchLeaves ==
  ASSUME Geometry, NEW word, NEW i \in Way, NEW w \in Way, w \in word, w # i
  PROVE  Touch(word, i) = word \ {i}
  BY Numbers DEF Geometry, Touch, Way

-----------------------------------------------------------------------------
(***************************************************************************)
(* The invariant: words name ways; an entry is in the set of its address   *)
(* and no other entry has it; the way used last is marked as used; in a    *)
(* set with an empty way exactly the empty ways are marked as unused.      *)
(***************************************************************************)
Entries == 0 .. SetCount * WayCount - 1

WordsInv == \A s \in Set : Names(alloc[s])

InPlace(i) == cache[i].m68k = NoAddr \/ SetOf[cache[i].m68k] = i \div WayCount

Unique(i, j) == cache[i].m68k # NoAddr /\ cache[i].m68k = cache[j].m68k => i = j

RecentInv ==
    \A s \in Set : recent[s] # NoAddr =>
       \E w \in Way : cache[Index(s, w)].m68k = recent[s] /\ w \notin alloc[s]

HasEmpty(s) == \E w \in Way : cache[Index(s, w)] = Empty

EmptyInv ==
    \A s \in Set : HasEmpty(s) =>
       \A w \in Way : w \in alloc[s] <=> cache[Index(s, w)] = Empty

IInv ==
    /\ TypeOK /\ WordsInv /\ RecentInv /\ EmptyInv
    /\ \A i \in Entries : InPlace(i)
    /\ \A i, j \in Entries : Unique(i, j)

LEMMA IInvInit == Init => IInv
<1> SUFFICES ASSUME Init
             PROVE  IInv
  OBVIOUS
<1>1. TypeOK
  BY Numbers DEF Init, TypeOK, Empty, Set
<1>2. \A s \in Set : alloc[s] = Bit /\ recent[s] = NoAddr
  BY DEF Init
<1>3. \A s \in Set, w \in Way : w \in alloc[s] /\ cache[Index(s, w)] = Empty
  BY <1>2, IndexInArray, Numbers DEF Init
<1>4. \A i \in Entries : cache[i].m68k = NoAddr
  BY DEF Init, Entries, Empty
<1>5. \E w \in Way : w \in Bit
  BY Numbers DEF Way
<1>6. WordsInv
  BY <1>2, <1>5 DEF WordsInv, Names
<1>7. RecentInv /\ EmptyInv
  BY <1>2, <1>3 DEF RecentInv, EmptyInv
<1> QED
  BY <1>1, <1>4, <1>6, <1>7 DEF IInv, InPlace, Unique

(* What a step on the word of one set does to the words.                   *)
LEMMA WordsStep ==
  ASSUME Geometry, IInv, NEW s \in Set, NEW w \in Way,
         alloc' = [alloc EXCEPT ![s] = Touch(@, w)]
  PROVE  /\ alloc' \in [Set -> SUBSET Bit]
         /\ WordsInv' /\ w \notin alloc'[s]
         /\ alloc'[s] = Touch(alloc[s], w)
         /\ \A t \in Set \ {s} : alloc'[t] = alloc[t]
<1>1. alloc \in [Set -> SUBSET Bit] /\ Names(alloc[s])
  BY DEF IInv, TypeOK, WordsInv
<1>2. Names(Touch(alloc[s], w)) /\ w \notin Touch(alloc[s], w)
  BY <1>1, TouchNames
<1>3. \A t \in Set : alloc'[t] = IF t = s THEN Touch(alloc[s], w) ELSE alloc[t]
  BY <1>1
<1>4. alloc' \in [Set -> SUBSET Bit]
  BY <1>1, <1>2 DEF Names
<1>5. WordsInv'
  BY <1>2, <1>3 DEF IInv, WordsInv
<1> QED
  BY <1>2, <1>3, <1>4, <1>5

LEMMA FindStep ==
  ASSUME Geometry, IInv, NEW a \in Addr, LRU_FindBlock(a)
  PROVE  IInv'
<1> DEFINE s == SetOf[a]
<1>1. s \in Set /\ a # NoAddr
  BY Numbers
<1>2. PICK w \in Way : /\ Holds(a, w)
                        /\ alloc' = [alloc EXCEPT ![s] = Touch(@, w)]
  BY DEF LRU_FindBlock
<1>3. recent' = [recent EXCEPT ![s] = a] /\ cache' = cache
  BY DEF LRU_FindBlock
<1>4. /\ alloc' \in [Set -> SUBSET Bit]
      /\ WordsInv' /\ w \notin alloc'[s]
      /\ alloc'[s] = Touch(alloc[s], w)
      /\ \A t \in Set \ {s} : alloc'[t] = alloc[t]
  BY <1>1, <1>2, WordsStep
<1>5. TypeOK'
  BY <1>1, <1>3, <1>4 DEF IInv, TypeOK
<1>6. RecentInv'
  <2> SUFFICES ASSUME NEW t \in Set, recent'[t] # NoAddr
               PROVE  \E v \in Way : cache'[Index(t, v)].m68k = recent'[t] /\ v \notin alloc'[t]
    BY DEF RecentInv
  <2>1. CASE t = s
    BY <1>2, <1>3, <1>4, <2>1 DEF Holds, IInv, TypeOK
  <2>2. CASE t # s
    BY <1>3, <1>4, <2>2 DEF IInv, TypeOK, RecentInv
  <2> QED
    BY <2>1, <2>2
<1>7. EmptyInv'
  <2> SUFFICES ASSUME NEW t \in Set, HasEmpty(t)
               PROVE  \A v \in Way : v \in alloc'[t] <=> cache[Index(t, v)] = Empty
    BY <1>3 DEF EmptyInv, HasEmpty
  <2>1. \A v \in Way : v \in alloc[t] <=> cache[Index(t, v)] = Empty
    BY DEF IInv, EmptyInv
  <2>2. CASE t = s
    <3>1. cache[Index(s, w)] # Empty
      BY <1>1, <1>2 DEF Holds, Empty
    <3>2. PICK v \in Way : v \in alloc[s] /\ v # w
      BY <2>1, <2>2, <3>1 DEF HasEmpty
    <3>3. alloc'[s] = alloc[s] \ {w}
      BY <1>4, <3>2, TouchLeaves
    <3> QED
      BY <2>1, <2>2, <3>1, <3>3
  <2>3. CASE t # s
    BY <1>4, <2>1, <2>3
  <2> QED
    BY <2>2, <2>3
<1> QED
  BY <1>3, <1>4, <1>5, <1>6, <1>7 DEF IInv, InPlace, Unique

LEMMA InsertStep ==
  ASSUME Geometry, IInv, NEW a \in Addr, NEW x \in Arm, LRU_InsertBlock(a, x)
  PROVE  IInv'
<1> DEFINE s   == SetOf[a]
           loc == Victim(alloc[s])
           at  == Index(s, loc)
<1>1. s \in Set /\ a # NoAddr
  BY Numbers
<1>2. Names(alloc[s]) /\ loc \in alloc[s] /\ loc \in Way
  BY <1>1, VictimIsWay DEF IInv, WordsInv
<1>3. at \in Entries /\ at \div WayCount = s
  BY <1>1, <1>2, IndexInArray DEF Entries
<1>4. /\ \A w \in Way : ~Holds(a, w)
      /\ cache' = [i \in DOMAIN cache |-> IF i = at THEN [m68k |-> a, arm |-> x] ELSE cache[i]]
      /\ alloc' = [alloc EXCEPT ![s] = Touch(@, loc)]
      /\ recent' = [recent EXCEPT ![s] = a]
  BY DEF LRU_InsertBlock
<1>5. /\ alloc' \in [Set -> SUBSET Bit]
      /\ WordsInv' /\ loc \notin alloc'[s]
      /\ alloc'[s] = Touch(alloc[s], loc)
      /\ \A t \in Set \ {s} : alloc'[t] = alloc[t]
  BY <1>1, <1>2, <1>4, WordsStep
<1>6. /\ cache'[at] = [m68k |-> a, arm |-> x]
      /\ \A i \in Entries \ {at} : cache'[i] = cache[i]
  BY <1>3, <1>4 DEF IInv, TypeOK, Entries
<1>7. \A t \in Set, w \in Way : t # s \/ w # loc => cache'[Index(t, w)] = cache[Index(t, w)]
  BY <1>1, <1>2, <1>6, IndexInArray, IndexInjective DEF Entries
<1>8. recent'[s] = a /\ \A t \in Set \ {s} : recent'[t] = recent[t]
  BY <1>1, <1>4 DEF IInv, TypeOK
<1>9. TypeOK'
  <2>1. cache' \in [0 .. SetCount * WayCount - 1 ->
                      [m68k : Addr \cup {NoAddr}, arm : Arm \cup {NoArm}]]
    BY <1>4 DEF IInv, TypeOK
  <2>2. recent' \in [Set -> Addr \cup {NoAddr}]
    BY <1>4 DEF IInv, TypeOK
  <2> QED
    BY <1>5, <2>1, <2>2 DEF TypeOK
<1>10. RecentInv'
  <2> SUFFICES ASSUME NEW t \in Set, recent'[t] # NoAddr
               PROVE  \E v \in Way : cache'[Index(t, v)].m68k = recent'[t] /\ v \notin alloc'[t]
    BY DEF RecentInv
  <2>1. CASE t = s
    BY <1>2, <1>5, <1>6, <1>8, <2>1
  <2>2. CASE t # s
    BY <1>5, <1>7, <1>8, <2>2 DEF IInv, RecentInv
  <2> QED
    BY <2>1, <2>2
<1>11. EmptyInv'
  <2> SUFFICES ASSUME NEW t \in Set, NEW e \in Way, cache'[Index(t, e)] = Empty
               PROVE  \A v \in Way : v \in alloc'[t] <=> cache'[Index(t, v)] = Empty
    BY DEF EmptyInv, HasEmpty
  <2>1. cache'[at] # Empty
    BY <1>1, <1>6 DEF Empty
  <2>2. t # s \/ e # loc
    BY <2>1
  <2>3. HasEmpty(t)
    BY <1>7, <2>2 DEF HasEmpty
  <2>4. \A v \in Way : v \in alloc[t] <=> cache[Index(t, v)] = Empty
    BY <2>3 DEF IInv, EmptyInv
  <2>5. CASE t = s
    <3>1. e \in alloc[s] /\ e # loc
      BY <1>7, <2>2, <2>4, <2>5
    <3>2. alloc'[s] = alloc[s] \ {loc}
      BY <1>2, <1>5, <3>1, TouchLeaves
    <3> QED
      BY <1>7, <2>1, <2>4, <2>5, <3>2
  <2>6. CASE t # s
    BY <1>5, <1>7, <2>4, <2>6
  <2> QED
    BY <2>5, <2>6
<1>12. \A i \in Entries : InPlace(i)'
  BY <1>3, <1>6 DEF IInv, InPlace
<1>13. \A i \in Entries \ {at} : cache[i].m68k # a
  <2> SUFFICES ASSUME NEW i \in Entries, cache[i].m68k = a
               PROVE  FALSE
    OBVIOUS
  <2>1. i \div WayCount = s
    BY <1>1 DEF IInv, InPlace
  <2>2. PICK w \in Way : i = Index(s, w)
    BY <2>1, IndexOf DEF Entries
  <2> QED
    BY <1>4, <2>2 DEF Holds
<1>14. \A i, j \in Entries : Unique(i, j)'
  BY <1>6, <1>13 DEF IInv, Unique
<1> QED
  BY <1>5, <1>9, <1>10, <1>11, <1>12, <1>14 DEF IInv

LEMMA InvalidateStep ==
  ASSUME IInv, LRU_InvalidateAll
  PROVE  IInv'
<1>1. /\ cache' = [i \in Entries |-> Empty]
      /\ alloc' = [t \in Set |-> Bit] /\ recent' = [t \in Set |-> NoAddr]
  BY DEF IInv, TypeOK, Entries, LRU_InvalidateAll
<1>2. TypeOK'
  BY <1>1 DEF TypeOK, Empty, Entries
<1>3. \A t \in Set, w \in Way : w \in alloc'[t] /\ cache'[Index(t, w)] = Empty
  BY <1>1, IndexInArray, Numbers DEF Entries
<1>4. \A i \in Entries : cache'[i].m68k = NoAddr
  BY <1>1 DEF Empty
<1>5. \E w \in Way : w \in Bit
  BY Numbers DEF Way
<1>6. WordsInv'
  BY <1>1, <1>5 DEF WordsInv, Names
<1>7. RecentInv' /\ EmptyInv'
  BY <1>1, <1>3 DEF RecentInv, EmptyInv
<1> QED
  BY <1>2, <1>4, <1>6, <1>7 DEF IInv, InPlace, Unique

LEMMA IInvStep ==
  ASSUME Geometry, IInv, [Next]_vars
  PROVE  IInv'
<1>1. CASE UNCHANGED vars
  BY <1>1 DEF vars, IInv, TypeOK, WordsInv, RecentInv, EmptyInv, HasEmpty,
              InPlace, Unique
<1> QED
  BY <1>1, FindStep, InsertStep, InvalidateStep DEF Next

-----------------------------------------------------------------------------
LEMMA IInvAlways ==
  ASSUME Geometry
  PROVE  Spec => []IInv
<1>1. IInv /\ [Next]_vars => IInv'
  BY IInvStep
<1> QED
  BY <1>1, IInvInit, PTL DEF Spec

(* TypeOK: the replacement words keep their width.                         *)
THEOREM QuickTypeCorrect ==
  ASSUME Geometry
  PROVE  Spec => []TypeOK
<1>1. IInv => TypeOK
  BY DEF IInv
<1> QED
  BY <1>1, IInvAlways, PTL

(* VictimInSet: LRU_InsertBlock never writes outside the set of the        *)
(* address, for any geometry whose shift leaves the bits of the ways.      *)
THEOREM VictimAlwaysInSet ==
  ASSUME Geometry
  PROVE  Spec => []VictimInSet
<1>1. IInv => VictimInSet
  BY VictimIsWay DEF IInv, WordsInv, VictimInSet
<1> QED
  BY <1>1, IInvAlways, PTL

(* OneEntryPerAddress: no address is held twice or in another set.         *)
THEOREM OneEntry ==
  ASSUME Geometry
  PROVE  Spec => []OneEntryPerAddress
<1>1. IInv => OneEntryPerAddress
  BY DEF IInv, TypeOK, InPlace, Unique, Entries, OneEntryPerAddress
<1> QED
  BY <1>1, IInvAlways, PTL

(* RecentSurvives: the entry used last is never the next one overwritten,  *)
(* and none is overwritten while the set has an empty one.                 *)
THEOREM RecentAlwaysSurvives ==
  ASSUME Geometry
  PROVE  Spec => []RecentSurvives
<1>1. ASSUME IInv, NEW s \in Set
      PROVE  Victim(alloc[s]) \in alloc[s] /\ Victim(alloc[s]) \in Way
  BY <1>1, VictimIsWay DEF IInv, WordsInv
<1>2. ASSUME IInv, NEW s \in Set, recent[s] # NoAddr
      PROVE  \E w \in Way : cache[Index(s, w)].m68k = recent[s] /\ w # Victim(alloc[s])
  BY <1>1, <1>2 DEF IInv, RecentInv
<1>3. ASSUME IInv, NEW s \in Set, \E w \in Way : cache[Index(s, w)] = Empty
      PROVE  cache[Index(s, Victim(alloc[s]))] = Empty
  BY <1>1, <1>3 DEF IInv, EmptyInv, HasEmpty
<1>4. IInv => RecentSurvives
  BY <1>2, <1>3 DEF RecentSurvives
<1> QED
  BY <1>4, IInvAlways, PTL

-----------------------------------------------------------------------------
(***************************************************************************)
(* The refinement.  An entry is empty or leads somewhere, so the address   *)
(* held by a way of its set has an entry point, and only one.              *)
(***************************************************************************)
EntryInv ==
    \A i \in Entries :
       \/ cache[i] = Empty
       \/ cache[i].m68k \in Addr /\ cache[i].arm \in Arm

RInv == IInv /\ EntryInv

LEMMA RInvAlways ==
  ASSUME Geometry
  PROVE  Spec => []RInv
<1>1. Init => EntryInv
  BY DEF Init, EntryInv, Entries
<1>2. ASSUME IInv, EntryInv, cache' = cache \/ LRU_InvalidateAll PROVE EntryInv'
  BY <1>2 DEF LRU_InvalidateAll, EntryInv, IInv, TypeOK, Entries
<1>3. ASSUME IInv, EntryInv, NEW a \in Addr, NEW x \in Arm, LRU_InsertBlock(a, x)
      PROVE  EntryInv'
  <2>1. PICK at : cache' = [i \in Entries |-> IF i = at THEN [m68k |-> a, arm |-> x] ELSE cache[i]]
    BY <1>3 DEF LRU_InsertBlock, IInv, TypeOK, Entries
  <2> QED
    BY <1>3, <2>1 DEF EntryInv
<1>4. IInv /\ EntryInv /\ [Next]_vars => EntryInv'
  BY <1>2, <1>3 DEF Next, LRU_FindBlock, vars
<1> QED
  BY <1>1, <1>4, IInvAlways, PTL DEF Spec, RInv

(* The table the array stands for, and its entries by what they hold.      *)
Tab == [a \in Addr |->
          IF \E w \in Way : Holds(a, w)
          THEN cache[Index(SetOf[a], CHOOSE w \in Way : Holds(a, w))].arm
          ELSE NoArm]

Member(s, w) == cache[Index(s, w)].m68k

LEMMA OneWay ==
  ASSUME IInv, NEW a \in Addr, NEW v \in Way, NEW w \in Way, Holds(a, v), Holds(a, w)
  PROVE  v = w
<1>1. SetOf[a] \in Set /\ a # NoAddr
  BY Numbers
<1>2. Index(SetOf[a], v) \in Entries /\ Index(SetOf[a], w) \in Entries
  BY <1>1, IndexInArray DEF Entries
<1>3. Index(SetOf[a], v) = Index(SetOf[a], w)
  BY <1>1, <1>2 DEF IInv, Unique, Holds
<1> QED
  BY <1>1, <1>3, IndexInjective

LEMMA TabHeld ==
  ASSUME RInv, NEW a \in Addr, NEW w \in Way, Holds(a, w)
  PROVE  Tab[a] = cache[Index(SetOf[a], w)].arm /\ Tab[a] \in Arm /\ Tab[a] # NoArm
<1>1. (CHOOSE v \in Way : Holds(a, v)) = w
  BY OneWay DEF RInv
<1>2. Tab[a] = cache[Index(SetOf[a], w)].arm
  BY <1>1 DEF Tab
<1>3. Index(SetOf[a], w) \in Entries
  BY IndexInArray, Numbers DEF Entries
<1>4. cache[Index(SetOf[a], w)].arm \in Arm
  BY <1>3, Numbers DEF RInv, EntryInv, Holds, Empty
<1> QED
  BY <1>2, <1>4, QuickLRUAssumption

LEMMA TabAbsent ==
  ASSUME NEW a \in Addr, \A w \in Way : ~Holds(a, w)
  PROVE  Tab[a] = NoArm
  BY DEF Tab

(* Both, of any state.                                                     *)
TabIsHeld ==
    \A a \in Addr :
       /\ \A w \in Way : Holds(a, w) => Tab[a] = cache[Index(SetOf[a], w)].arm
       /\ (\A w \in Way : ~Holds(a, w)) => Tab[a] = NoArm

LEMMA TabFacts == RInv => TabIsHeld
  BY TabHeld, TabAbsent DEF TabIsHeld

(* A member of a way is in the table, in the set of the way.               *)
LEMMA MemberHeld ==
  ASSUME RInv, NEW s \in Set, NEW w \in Way, Member(s, w) # NoAddr
  PROVE  Member(s, w) \in Addr /\ SetOf[Member(s, w)] = s /\ Holds(Member(s, w), w)
<1>1. Index(s, w) \in Entries /\ Index(s, w) \div WayCount = s
  BY IndexInArray DEF Entries
<1>2. Member(s, w) \in Addr
  BY <1>1 DEF RInv, EntryInv, Member, Empty
<1>3. SetOf[Member(s, w)] = s
  BY <1>1 DEF RInv, IInv, InPlace, Member
<1> QED
  BY <1>2, <1>3 DEF Holds, Member

CachedIn(s) == {a \in Addr : SetOf[a] = s /\ Tab[a] # NoArm}

LEMMA CachedHeld ==
  ASSUME RInv, NEW s \in Set, NEW a
  PROVE  a \in CachedIn(s) <=> a \in Addr /\ SetOf[a] = s /\ \E w \in Way : Holds(a, w)
  BY TabHeld, TabAbsent DEF CachedIn

(* A set holds one address per way that is not empty.                      *)
LEMMA CachedCount ==
  ASSUME RInv, NEW s \in Set
  PROVE  Cardinality(CachedIn(s)) = WayCount <=> \A w \in Way : Member(s, w) # NoAddr
<1> DEFINE g == [a \in CachedIn(s) |-> CHOOSE w \in Way : Holds(a, w)]
<1>1. IsFiniteSet(Way) /\ Cardinality(Way) = WayCount
  BY FS_Interval, Numbers DEF Way
<1>2. \A a \in CachedIn(s) : g[a] \in Way /\ Holds(a, g[a]) /\ a \in Addr /\ SetOf[a] = s
  BY CachedHeld
<1>3. \A a, b \in CachedIn(s) : g[a] = g[b] => a = b
  BY <1>2 DEF Holds
<1>4. g \in [CachedIn(s) -> Way]
  BY <1>2
<1>5. g \in Injection(CachedIn(s), Way)
  BY <1>3, <1>4 DEF Injection, IsInjective
<1>6. \A w \in Way : (\E a \in CachedIn(s) : g[a] = w) <=> Member(s, w) # NoAddr
  <2> SUFFICES ASSUME NEW w \in Way
               PROVE  (\E a \in CachedIn(s) : g[a] = w) <=> Member(s, w) # NoAddr
    OBVIOUS
  <2>1. ASSUME NEW a \in CachedIn(s), g[a] = w PROVE Member(s, w) # NoAddr
    BY <1>2, <2>1, Numbers DEF Holds, Member
  <2>2. ASSUME Member(s, w) # NoAddr PROVE \E a \in CachedIn(s) : g[a] = w
    <3> DEFINE a == Member(s, w)
    <3>1. a \in Addr /\ SetOf[a] = s /\ Holds(a, w)
      BY <2>2, MemberHeld
    <3>2. a \in CachedIn(s)
      BY <3>1, CachedHeld
    <3>3. Holds(a, g[a]) /\ g[a] \in Way
      BY <1>2, <3>2
    <3>4. g[a] = w
      BY <3>1, <3>3, OneWay DEF RInv
    <3> QED
      BY <3>2, <3>4
  <2> QED
    BY <2>1, <2>2
<1>7. g \in Surjection(CachedIn(s), Way) <=> \A w \in Way : \E a \in CachedIn(s) : g[a] = w
  BY <1>4 DEF Surjection
<1> HIDE DEF g
<1>8. Cardinality(CachedIn(s)) = Cardinality(Way) <=> g \in Surjection(CachedIn(s), Way)
  BY <1>1, <1>5, FS_Injection
<1> QED
  BY <1>1, <1>6, <1>7, <1>8

(* What the insertion overwrites is what QuickTable lets go.               *)
Gone(s) ==
    LET old == Member(s, Victim(alloc[s]))
    IN  IF old = NoAddr THEN {} ELSE {old}

LEMMA GoneAllowed ==
  ASSUME RInv, NEW s \in Set
  PROVE  /\ Gone(s) \in SUBSET (CachedIn(s) \ {recent[s]})
         /\ Cardinality(Gone(s)) = IF Cardinality(CachedIn(s)) = WayCount THEN 1 ELSE 0
<1> DEFINE loc == Victim(alloc[s])
           old == Member(s, loc)
<1>1. loc \in alloc[s] /\ loc \in Way
  BY VictimIsWay DEF RInv, IInv, WordsInv
<1>2. CASE old = NoAddr
  <2>1. Cardinality(CachedIn(s)) # WayCount
    BY <1>1, <1>2, CachedCount
  <2> QED
    BY <1>2, <2>1, FS_EmptySet DEF Gone
<1>3. CASE old # NoAddr
  <2>1. old \in CachedIn(s)
    BY <1>1, <1>3, MemberHeld, CachedHeld
  <2>2. old # recent[s]
    <3> SUFFICES ASSUME old = recent[s] PROVE FALSE
      OBVIOUS
    <3>1. PICK w \in Way : Member(s, w) = old /\ w \notin alloc[s]
      BY <1>3 DEF RInv, IInv, RecentInv, Member
    <3>2. old \in Addr /\ Holds(old, w) /\ Holds(old, loc)
      BY <1>1, <1>3, <3>1, MemberHeld
    <3> QED
      BY <1>1, <3>1, <3>2, OneWay DEF RInv
  <2>3. \A w \in Way : Member(s, w) # NoAddr
    <3> SUFFICES ASSUME NEW w \in Way, Member(s, w) = NoAddr PROVE FALSE
      OBVIOUS
    <3>1. Index(s, w) \in Entries
      BY IndexInArray DEF Entries
    <3>2. cache[Index(s, w)] = Empty
      BY <3>1, Numbers DEF RInv, EntryInv, Member
    <3>3. cache[Index(s, loc)] = Empty
      BY <1>1, <3>2 DEF RInv, IInv, EmptyInv, HasEmpty
    <3> QED
      BY <1>3, <3>3 DEF Member, Empty
  <2>4. Cardinality(CachedIn(s)) = WayCount
    BY <2>3, CachedCount
  <2> QED
    BY <1>3, <2>1, <2>2, <2>4, FS_Singleton DEF Gone
<1> QED
  BY <1>2, <1>3

LEMMA TabInsert ==
  ASSUME RInv, RInv', NEW a \in Addr, NEW x \in Arm, LRU_InsertBlock(a, x)
  PROVE  Tab' = [b \in Addr |-> IF b = a THEN x
                                ELSE IF b \in Gone(SetOf[a]) THEN NoArm ELSE Tab[b]]
<1> DEFINE s == SetOf[a]
<1>s. s \in Set
  BY Numbers
<1>1. PICK loc \in Way : loc = Victim(alloc[s])
  BY <1>s, VictimIsWay DEF RInv, IInv, WordsInv
<1>2. /\ cache'[Index(s, loc)] = [m68k |-> a, arm |-> x]
      /\ \A t \in Set, w \in Way : t # s \/ w # loc => cache'[Index(t, w)] = cache[Index(t, w)]
  <2>1. cache' = [i \in Entries |-> IF i = Index(s, loc) THEN [m68k |-> a, arm |-> x]
                                    ELSE cache[i]]
    BY <1>1 DEF LRU_InsertBlock, RInv, IInv, TypeOK, Entries
  <2>2. \A t \in Set, w \in Way : Index(t, w) \in Entries
    BY IndexInArray DEF Entries
  <2>3. \A t \in Set, w \in Way : Index(t, w) = Index(s, loc) => t = s /\ w = loc
    BY <1>s, <1>1, IndexInjective
  <2> HIDE DEF s
  <2> QED
    BY <1>s, <1>1, <2>1, <2>2, <2>3
<1>0. TabIsHeld'
  <2>1. RInv' => TabIsHeld'
    BY TabFacts, PTL
  <2> QED
    BY <2>1
<1>3. Tab'[a] = x
  <2>1. Holds(a, loc)'
    BY <1>2 DEF Holds
  <2>2. Tab'[a] = cache'[Index(SetOf[a], loc)].arm
    BY <1>0, <1>1, <2>1 DEF TabIsHeld
  <2> QED
    BY <1>2, <2>2
<1>4. ASSUME NEW b \in Addr, b # a, b \in Gone(s)
      PROVE  Tab'[b] = NoArm
  <2>1. b = Member(s, loc) /\ b # NoAddr
    BY <1>1, <1>4 DEF Gone
  <2>2. SetOf[b] = s /\ Holds(b, loc)
    BY <1>s, <1>1, <2>1, MemberHeld
  <2>3. \A w \in Way : ~Holds(b, w)'
    BY <1>s, <1>1, <1>2, <1>4, <2>2, OneWay DEF Holds, RInv
  <2> QED
    BY <1>0, <2>3 DEF TabIsHeld
<1>5. ASSUME NEW b \in Addr, b # a, b \notin Gone(s)
      PROVE  Tab'[b] = Tab[b]
  <2>1. SetOf[b] \in Set /\ b # NoAddr
    BY Numbers
  <2>2. \A w \in Way : Holds(b, w) => SetOf[b] # s \/ w # loc
    BY <1>1, <1>5, <2>1 DEF Holds, Gone, Member
  <2>3. \A w \in Way : Holds(b, w) <=> Holds(b, w)'
    BY <1>s, <1>1, <1>2, <1>5, <2>1, <2>2 DEF Holds
  <2>4. CASE \E w \in Way : Holds(b, w)
    <3>1. PICK w \in Way : Holds(b, w)
      BY <2>4
    <3>2. Tab[b] = cache[Index(SetOf[b], w)].arm
      BY <3>1, TabHeld
    <3>3. Tab'[b] = cache'[Index(SetOf[b], w)].arm
      BY <1>0, <2>3, <3>1 DEF TabIsHeld
    <3> QED
      BY <1>s, <1>2, <2>1, <2>2, <3>1, <3>2, <3>3
  <2>5. CASE \A w \in Way : ~Holds(b, w)
    BY <1>0, <2>3, <2>5, TabAbsent DEF TabIsHeld
  <2> QED
    BY <2>4, <2>5
<1>6. Tab' = [b \in Addr |-> Tab'[b]]
  BY DEF Tab
<1> QED
  BY <1>3, <1>4, <1>5, <1>6

-----------------------------------------------------------------------------
(* The steps of the array are steps of the table.                          *)

LEMMA FindIsHit ==
  ASSUME RInv, NEW a \in Addr, LRU_FindBlock(a)
  PROVE  Table!Hit(a)
<1>1. PICK w \in Way : Holds(a, w)
  BY DEF LRU_FindBlock
<1>2. Tab[a] # NoArm
  BY <1>1, TabHeld
<1>3. recent' = [recent EXCEPT ![SetOf[a]] = a] /\ cache' = cache
  BY DEF LRU_FindBlock
<1>4. Tab' = Tab
  BY <1>3 DEF Tab, Holds
<1> QED
  BY <1>2, <1>3, <1>4 DEF Table!Hit, Tab

LEMMA SameCardinality == \A S : Table!Cardinality(S) = Cardinality(S)
  BY DEF Table!Cardinality, Cardinality

LEMMA InsertIsInsert ==
  ASSUME RInv, RInv', NEW a \in Addr, NEW x \in Arm, LRU_InsertBlock(a, x)
  PROVE  Table!Insert(a, x)
<1> DEFINE s == SetOf[a]
<1>1. s \in Set
  BY Numbers
<1>2. Tab[a] = NoArm
  BY TabAbsent DEF LRU_InsertBlock
<1>3. recent' = [recent EXCEPT ![s] = a]
  BY DEF LRU_InsertBlock
<1>4. /\ Gone(s) \in SUBSET (CachedIn(s) \ {recent[s]})
      /\ Cardinality(Gone(s)) = IF Cardinality(CachedIn(s)) = WayCount THEN 1 ELSE 0
      /\ Tab' = [b \in Addr |-> IF b = a THEN x
                                ELSE IF b \in Gone(s) THEN NoArm ELSE Tab[b]]
  BY <1>1, GoneAllowed, TabInsert
<1>5. CachedIn(s) = Table!Cached(s)
  BY DEF CachedIn, Tab, Table!Cached
<1> HIDE DEF s
<1>6. \E gone \in SUBSET (Table!Cached(s) \ {recent[s]}) :
         /\ Cardinality(gone) = IF Cardinality(Table!Cached(s)) = WayCount THEN 1 ELSE 0
         /\ Tab' = [b \in Addr |-> IF b = a THEN x
                                   ELSE IF b \in gone THEN NoArm ELSE Tab[b]]
  BY <1>4, <1>5
<1> QED
  BY <1>2, <1>3, <1>6, SameCardinality DEF Table!Insert, Tab, s

LEMMA InvalidateIsForget ==
  ASSUME RInv, LRU_InvalidateAll
  PROVE  Table!Forget
<1>1. cache' = [i \in Entries |-> Empty] /\ recent' = [t \in Set |-> NoAddr]
  BY DEF RInv, IInv, TypeOK, Entries, LRU_InvalidateAll
<1>2. \A a \in Addr, w \in Way : ~Holds(a, w)'
  BY <1>1, IndexInArray, Numbers DEF Holds, Entries, Empty
<1>3. Tab' = [a \in Addr |-> NoArm]
  BY <1>2 DEF Tab
<1> QED
  BY <1>1, <1>3 DEF Table!Forget, Tab

LEMMA InitIsInit == Init => Table!Init
<1> SUFFICES ASSUME Init PROVE Table!Init
  OBVIOUS
<1>1. \A a \in Addr, w \in Way : ~Holds(a, w)
  BY IndexInArray, Numbers DEF Init, Holds, Empty
<1>2. Tab = [a \in Addr |-> NoArm]
  BY <1>1 DEF Tab
<1> QED
  BY <1>2 DEF Init, Table!Init, Tab

LEMMA StutterIsStutter ==
  ASSUME UNCHANGED vars
  PROVE  UNCHANGED <<Tab, recent>>
  BY DEF vars, Tab, Holds

LEMMA StepIsStep ==
  RInv /\ RInv' /\ [Next]_vars => Table!Next \/ UNCHANGED <<Tab, recent>>
<1>1. ASSUME RInv, RInv', Next PROVE Table!Next
  BY <1>1, FindIsHit, InsertIsInsert, InvalidateIsForget DEF Next, Table!Next
<1> QED
  BY <1>1, StutterIsStutter

(* ImplementsTable: the flat array and the replacement words keep a lossy  *)
(* map, which loses an entry only when the set is full, then just one, and *)
(* never the one used last.                                                *)
THEOREM ArrayImplementsTable ==
  ASSUME Geometry
  PROVE  Spec => ImplementsTable
<1>1. RInv /\ RInv' /\ [Next]_vars => [Table!Next]_<<Tab, recent>>
  BY StepIsStep
<1> QED
  BY <1>1, InitIsInit, RInvAlways, PTL DEF Spec, ImplementsTable, Table!Spec, Tab
=============================================================================
