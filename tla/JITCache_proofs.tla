--------------------------- MODULE JITCache_proofs ---------------------------
(***************************************************************************)
(* Proofs about the translation-unit cache of JITCache, for any memory,    *)
(* any layout of units and any size of the cache.                          *)
(***************************************************************************)
EXTENDS JITCache, FiniteSetTheorems, SequenceTheorems, TLAPS

-----------------------------------------------------------------------------
(* Lists without duplicates                                                *)

(* REMOVE: a node taken out of a list leaves the other nodes, each once.   *)
LEMMA RemoveAtFacts ==
    ASSUME NEW S, NEW q \in Seq(S), IsInjective(q), NEW i \in 1 .. Len(q)
    PROVE  /\ RemoveAt(q, i) \in Seq(S)
           /\ IsInjective(RemoveAt(q, i))
           /\ Range(RemoveAt(q, i)) = Range(q) \ {q[i]}
<1> DEFINE r == RemoveAt(q, i)
           f == SubSeq(q, 1, i - 1)
           g == SubSeq(q, i + 1, Len(q))
<1>1. /\ f \in Seq(S) /\ Len(f) = i - 1
      /\ \A j \in 1 .. i - 1 : f[j] = q[j]
  BY SubSeqProperties
<1>2. /\ g \in Seq(S) /\ Len(g) = Len(q) - i
      /\ \A j \in 1 .. Len(q) - i : g[j] = q[j + i]
  BY SubSeqProperties
<1>3. r = f \o g
  BY DEF RemoveAt
<1> HIDE DEF r, f, g
<1>4. DOMAIN q = 1 .. Len(q)
  OBVIOUS
<1>5. /\ r \in Seq(S) /\ Len(r) = Len(q) - 1 /\ DOMAIN r = 1 .. Len(q) - 1
      /\ \A j \in 1 .. Len(q) - 1 : r[j] = IF j < i THEN q[j] ELSE q[j + 1]
  <2>1. /\ r \in Seq(S) /\ Len(r) = Len(f) + Len(g)
        /\ \A j \in 1 .. Len(f) + Len(g) :
              r[j] = IF j <= Len(f) THEN f[j] ELSE g[j - Len(f)]
    BY <1>1, <1>2, <1>3, ConcatProperties
  <2>2. Len(r) = Len(q) - 1 /\ DOMAIN r = 1 .. Len(q) - 1
    BY <1>1, <1>2, <2>1
  <2>3. ASSUME NEW j \in 1 .. Len(q) - 1
        PROVE  r[j] = IF j < i THEN q[j] ELSE q[j + 1]
    <3>1. j \in 1 .. Len(f) + Len(g) /\ Len(f) = i - 1 /\ Len(q) \in Nat
      BY <1>1, <1>2
    <3>2. CASE j < i
      <4>1. j \in 1 .. i - 1 /\ r[j] = f[j]
        BY <2>1, <3>1, <3>2
      <4> QED BY <1>1, <4>1
    <3>3. CASE j >= i
      <4>1. r[j] = g[j - (i - 1)]
        BY <2>1, <3>1, <3>3
      <4>2. j - (i - 1) \in 1 .. Len(q) - i /\ j - (i - 1) + i = j + 1
        BY <3>1, <3>3
      <4>3. g[j - (i - 1)] = q[j - (i - 1) + i]
        BY <1>2, <4>2
      <4> QED BY <3>3, <4>1, <4>2, <4>3
    <3> QED BY <3>1, <3>2, <3>3
  <2> QED BY <2>1, <2>2, <2>3
<1>6. IsInjective(r)
  <2> SUFFICES ASSUME NEW j \in DOMAIN r, NEW k \in DOMAIN r, r[j] = r[k]
               PROVE  j = k
    BY DEF IsInjective
  <2> DEFINE at(n) == IF n < i THEN n ELSE n + 1
  <2>1. /\ j \in 1 .. Len(q) - 1 /\ k \in 1 .. Len(q) - 1
        /\ r[j] = q[at(j)] /\ r[k] = q[at(k)]
    BY <1>5
  <2>2. at(j) \in DOMAIN q /\ at(k) \in DOMAIN q
    BY <1>4, <2>1
  <2>3. at(j) = at(k)
    <3> HIDE DEF at
    <3> QED BY <2>1, <2>2 DEF IsInjective
  <2> QED BY <2>1, <2>3
<1>7. Range(r) \subseteq Range(q) \ {q[i]}
  <2> SUFFICES ASSUME NEW j \in DOMAIN r PROVE r[j] \in Range(q) /\ r[j] # q[i]
    BY DEF Range
  <2>1. PICK k \in 1 .. Len(q) : r[j] = q[k] /\ k # i
    BY <1>5
  <2> QED BY <1>4, <2>1 DEF IsInjective, Range
<1>8. ASSUME NEW x \in Range(q), x # q[i]
      PROVE  x \in Range(r)
  <2>1. PICK j \in 1 .. Len(q) : x = q[j]
    BY <1>4 DEF Range
  <2>2. CASE j < i
    <3>1. j \in 1 .. Len(q) - 1 /\ r[j] = q[j]
      BY <1>5, <2>2
    <3> QED BY <1>5, <2>1, <3>1 DEF Range
  <2>3. CASE j > i
    <3>1. j - 1 \in 1 .. Len(q) - 1 /\ r[j - 1] = q[j]
      BY <1>5, <2>3
    <3> QED BY <1>5, <2>1, <3>1 DEF Range
  <2> QED BY <1>8, <2>1, <2>2, <2>3
<1> QED BY <1>5, <1>6, <1>7, <1>8 DEF r

(* ADDHEAD: a new node in front of a list of other nodes.                  *)
LEMMA ConsFacts ==
    ASSUME NEW S, NEW q \in Seq(S), IsInjective(q), NEW e \in S, e \notin Range(q)
    PROVE  /\ Cons(e, q) \in Seq(S)
           /\ IsInjective(Cons(e, q))
           /\ Range(Cons(e, q)) = Range(q) \cup {e}
<1> DEFINE r == Cons(e, q)
<1>1. <<e>> \in Seq(S) /\ Len(<<e>>) = 1 /\ <<e>>[1] = e
  OBVIOUS
<1>2. /\ r \in Seq(S) /\ Len(r) = Len(q) + 1 /\ DOMAIN r = 1 .. Len(q) + 1
      /\ r[1] = e /\ \A j \in 1 .. Len(q) : r[j + 1] = q[j]
  BY <1>1, ConcatProperties DEF Cons
<1> HIDE DEF r
<1>3. DOMAIN q = 1 .. Len(q)
  OBVIOUS
<1>4. ASSUME NEW j \in 2 .. Len(q) + 1 PROVE r[j] = q[j - 1] /\ j - 1 \in 1 .. Len(q)
  BY <1>2
<1>5. IsInjective(r)
  <2>1. SUFFICES ASSUME NEW j \in DOMAIN r, NEW k \in DOMAIN r, r[j] = r[k]
                 PROVE  j = k
    BY DEF IsInjective
  <2>2. ASSUME NEW l \in 2 .. Len(q) + 1 PROVE r[l] # e
    BY <1>3, <1>4 DEF Range
  <2>3. CASE j = 1 \/ k = 1
    BY <1>2, <2>1, <2>2, <2>3
  <2>4. CASE j # 1 /\ k # 1
    <3>1. j \in 2 .. Len(q) + 1 /\ k \in 2 .. Len(q) + 1
      BY <1>2, <2>4
    <3>2. q[j - 1] = q[k - 1] /\ j - 1 \in DOMAIN q /\ k - 1 \in DOMAIN q
      BY <1>3, <1>4, <2>1, <3>1
    <3>3. j - 1 = k - 1
      BY <3>2 DEF IsInjective
    <3> QED BY <3>1, <3>3
  <2> QED BY <2>3, <2>4
<1>6. Range(r) \subseteq Range(q) \cup {e}
  <2>1. ASSUME NEW j \in DOMAIN r PROVE r[j] \in Range(q) \cup {e}
    <3>1. CASE j = 1
      BY <1>2, <3>1
    <3>2. CASE j # 1
      <4>1. j \in 2 .. Len(q) + 1
        BY <1>2, <2>1, <3>2
      <4>2. r[j] = q[j - 1] /\ j - 1 \in 1 .. Len(q)
        BY <1>4, <4>1
      <4>3. \A i \in 1 .. Len(q) : q[i] \in Range(q)
        BY <1>3 DEF Range
      <4> QED BY <4>2, <4>3
    <3> QED BY <3>1, <3>2
  <2>2. \A x \in Range(r) : \E j \in DOMAIN r : x = r[j]
    BY DEF Range
  <2> QED BY <2>1, <2>2
<1>7. Range(q) \cup {e} \subseteq Range(r)
  <2>1. ASSUME NEW j \in 1 .. Len(q) PROVE q[j] \in Range(r)
    <3>1. j + 1 \in 1 .. Len(q) + 1
      OBVIOUS
    <3>2. j + 1 \in DOMAIN r /\ r[j + 1] = q[j]
      BY <1>2, <3>1
    <3>3. \A i \in DOMAIN r : r[i] \in Range(r)
      BY Zenon DEF Range
    <3> QED BY <3>2, <3>3, Zenon
  <2>2. e \in Range(r)
    BY <1>2 DEF Range
  <2>3. \A x \in Range(q) : \E j \in 1 .. Len(q) : x = q[j]
    BY <1>3 DEF Range
  <2> QED BY <2>1, <2>2, <2>3
<1> QED BY <1>2, <1>5, <1>6, <1>7 DEF r

(* REMTAIL, as often as needed: the nodes that stay and those that go.     *)
LEMMA PrefixFacts ==
    ASSUME NEW S, NEW q \in Seq(S), IsInjective(q), NEW k \in 0 .. Len(q)
    PROVE  /\ SubSeq(q, 1, k) \in Seq(S)
           /\ IsInjective(SubSeq(q, 1, k))
           /\ Range(SubSeq(q, 1, k)) = Range(q) \ {q[i] : i \in k + 1 .. Len(q)}
<1> DEFINE r == SubSeq(q, 1, k)
           gone == {q[i] : i \in k + 1 .. Len(q)}
<1>1. /\ r \in Seq(S) /\ Len(r) = k /\ DOMAIN r = 1 .. k
      /\ \A j \in 1 .. k : r[j] = q[j]
  BY SubSeqProperties
<1> HIDE DEF r
<1>2. DOMAIN q = 1 .. Len(q)
  OBVIOUS
<1>3. IsInjective(r)
  BY <1>1, <1>2 DEF IsInjective
<1>4. Range(r) \subseteq Range(q) \ gone
  BY <1>1, <1>2 DEF IsInjective, Range
<1>5. ASSUME NEW x \in Range(q), x \notin gone PROVE x \in Range(r)
  <2>1. PICK j \in 1 .. Len(q) : x = q[j]
    BY <1>2 DEF Range
  <2>2. j \in 1 .. k
    BY <1>5, <2>1
  <2> QED BY <1>1, <2>1, <2>2 DEF Range
<1> QED BY <1>1, <1>3, <1>4, <1>5 DEF r

-----------------------------------------------------------------------------
(* The lists LRU and hash table, the allocator and JIT_UNIT_COUNT          *)

ListTypes == used \subseteq Slot /\ lru \in Seq(Slot) /\ count \in Int

Lists == ListTypes /\ ListsAgree

(* Members of the list have a position, the one Unlinked removes.          *)
LEMMA UnlinkedFacts ==
    ASSUME Lists, NEW s \in used
    PROVE  /\ Unlinked(s) \in Seq(Slot)
           /\ IsInjective(Unlinked(s))
           /\ Range(Unlinked(s)) = used \ {s}
<1> DEFINE i == CHOOSE j \in DOMAIN lru : lru[j] = s
<1>1. i \in DOMAIN lru /\ lru[i] = s
  BY DEF Lists, ListsAgree, Range
<1>2. i \in 1 .. Len(lru)
  BY <1>1 DEF Lists, ListTypes
<1> HIDE DEF i
<1>3. /\ RemoveAt(lru, i) \in Seq(Slot)
      /\ IsInjective(RemoveAt(lru, i))
      /\ Range(RemoveAt(lru, i)) = Range(lru) \ {lru[i]}
  BY <1>2, RemoveAtFacts DEF Lists, ListTypes, ListsAgree
<1> QED BY <1>1, <1>3 DEF Unlinked, Lists, ListsAgree, i

(* Releasing a unit after a failed verification.                           *)
LEMMA ReleaseLists ==
    ASSUME Lists, NEW s \in used, Release(s)
    PROVE  Lists'
<1>1. IsFiniteSet(used)
  BY JITCacheAssumption, FS_Subset DEF Lists, ListTypes
<1>2. Cardinality(used \ {s}) = Cardinality(used) - 1
  BY <1>1, FS_RemoveElement
<1>3. ListTypes'
  BY UnlinkedFacts DEF Release, Lists, ListTypes
<1>4. ListsAgree'
  BY <1>2, UnlinkedFacts DEF Release, Lists, ListsAgree
<1> QED BY <1>3, <1>4 DEF Lists

(* A unit that passed the verification goes to the head of the list.       *)
LEMMA MoveToHeadLists ==
    ASSUME Lists, NEW s \in used, lru' = Cons(s, Unlinked(s)),
           UNCHANGED <<used, hashed, count>>
    PROVE  Lists'
<1> DEFINE q == Unlinked(s)
<1>1. q \in Seq(Slot) /\ IsInjective(q) /\ Range(q) = used \ {s} /\ s \in Slot
  BY UnlinkedFacts DEF Lists, ListTypes
<1> HIDE DEF q
<1>2. /\ Cons(s, q) \in Seq(Slot) /\ IsInjective(Cons(s, q))
      /\ Range(Cons(s, q)) = (used \ {s}) \cup {s}
  <2>1. s \notin Range(q)
    BY <1>1
  <2>2. Range(Cons(s, q)) = Range(q) \cup {s}
    BY <1>1, <2>1, ConsFacts
  <2> QED BY <1>1, <2>1, <2>2, ConsFacts
<1>3. lru' = Cons(s, q)
  BY DEF q
<1>4. Range(Cons(s, q)) = used
  BY <1>2
<1> QED BY <1>2, <1>3, <1>4 DEF Lists, ListTypes, ListsAgree

(* A new unit goes to the head of the list.                                *)
LEMMA InsertLists ==
    ASSUME Lists, NEW s \in Slot \ used, lru' = Cons(s, lru),
           used' = used \cup {s}, hashed' = hashed \cup {s}, count' = count + 1
    PROVE  Lists'
<1>1. IsFiniteSet(used)
  BY JITCacheAssumption, FS_Subset DEF Lists, ListTypes
<1>2. Cardinality(used \cup {s}) = Cardinality(used) + 1
  BY <1>1, FS_AddElement
<1>3. /\ lru' \in Seq(Slot) /\ IsInjective(lru') /\ Range(lru') = used \cup {s}
  BY ConsFacts DEF Lists, ListTypes, ListsAgree
<1> QED BY <1>2, <1>3 DEF Lists, ListTypes, ListsAgree

(* Releasing some of the units, in the list a set of its own members.      *)
LEMMA ReleaseSetLists ==
    ASSUME Lists, NEW gone \in SUBSET used,
           lru' \in Seq(Slot), IsInjective(lru'), Range(lru') = used \ gone,
           used' = used \ gone, hashed' = hashed \ gone,
           count' = count - Cardinality(gone)
    PROVE  Lists'
<1>1. IsFiniteSet(used) /\ IsFiniteSet(gone)
  BY JITCacheAssumption, FS_Subset DEF Lists, ListTypes
<1>2. Cardinality(used \ gone) = Cardinality(used) - Cardinality(gone)
  <2>1. Cardinality(used \ gone) = Cardinality(used) - Cardinality(used \cap gone)
    BY <1>1, FS_Difference
  <2> QED BY <2>1, Zenon
<1>3. Cardinality(gone) \in Int
  BY <1>1, FS_CardinalityType
<1> QED BY <1>2, <1>3 DEF Lists, ListTypes, ListsAgree

(* The eviction loop, one round.                                           *)
LEMMA EvictLists ==
    ASSUME Lists, Evict
    PROVE  Lists'
<1> DEFINE kept == IF Len(lru) > EvictBatch THEN Len(lru) - EvictBatch ELSE 0
           gone == {lru[i] : i \in kept + 1 .. Len(lru)}
<1>1. /\ lru' = SubSeq(lru, 1, kept) /\ hashed' = hashed \ gone
      /\ used' = used \ gone /\ count' = count - Cardinality(gone)
  BY DEF Evict
<1>2. kept \in 0 .. Len(lru)
  BY JITCacheAssumption DEF Lists, ListTypes
<1> HIDE DEF kept
<1>3. gone \subseteq used
  BY <1>2 DEF Lists, ListTypes, ListsAgree, Range
<1>4. lru' \in Seq(Slot) /\ IsInjective(lru') /\ Range(lru') = Range(lru) \ gone
  BY <1>1, <1>2, PrefixFacts DEF Lists, ListTypes, ListsAgree
<1> HIDE DEF gone
<1>5. Range(lru') = used \ gone
  BY <1>4 DEF Lists, ListsAgree
<1> QED BY <1>1, <1>3, <1>4, <1>5, ReleaseSetLists

(* check_cacr: everything but the unit that called it goes.                *)
LEMMA WriteCACRLists ==
    ASSUME Lists, NEW on \in BOOLEAN, WriteCACR(on)
    PROVE  Lists'
<1> DEFINE gone == Range(lru) \ {running}
<1>1. CASE oldIE /\ ~on
  <2>1. /\ lru' = IF running \in Range(lru) THEN <<running>> ELSE <<>>
        /\ hashed' = hashed \ gone /\ used' = used \ gone
        /\ count' = count - Cardinality(gone)
    BY <1>1 DEF WriteCACR
  <2>2. gone \subseteq used /\ used \subseteq Slot /\ Range(lru) = used
    BY DEF Lists, ListTypes, ListsAgree
  <2>3. CASE running \in Range(lru)
    <3>1. lru' = <<running>> /\ running \in Slot
      BY <2>1, <2>2, <2>3
    <3>2. lru' \in Seq(Slot) /\ IsInjective(lru')
      BY <3>1 DEF IsInjective
    <3>3. Range(lru') = {running}
      BY <3>1 DEF Range
    <3>4. Range(lru') = used \ gone
      BY <2>2, <2>3, <3>3
    <3> HIDE DEF gone
    <3> QED BY <2>1, <2>2, <3>2, <3>4, ReleaseSetLists
  <2>4. CASE running \notin Range(lru)
    <3>1. lru' = <<>>
      BY <2>1, <2>4
    <3>2. lru' \in Seq(Slot) /\ IsInjective(lru') /\ Range(lru') = {}
      BY <3>1 DEF IsInjective, Range
    <3>3. Range(lru') = used \ gone
      BY <2>2, <2>4, <3>2
    <3> HIDE DEF gone
    <3> QED BY <2>1, <2>2, <3>2, <3>3, ReleaseSetLists
  <2> QED BY <2>3, <2>4
<1>2. CASE ~(oldIE /\ ~on)
  BY <1>2 DEF WriteCACR, Lists, ListTypes, ListsAgree
<1> QED BY <1>1, <1>2

-----------------------------------------------------------------------------
(* Types                                                                   *)

OtherTypes ==
    /\ mem \in [Addr -> Val] /\ ic \in [Low -> Val \cup {NoVal}] /\ ctl \in Ctl
    /\ hist \subseteq [mem : [Addr -> Val], ctl : Ctl]
    /\ epoch \in Nat
    /\ ie \in BOOLEAN /\ oldIE \in BOOLEAN
    /\ pc \in Addr /\ phase \in {"loop", "alloc", "run", "exit"}

FastTypes ==
    /\ quick \in [Addr -> Slot \cup {NoSlot}]
    /\ lastPC \in Addr \cup {NoAddr} /\ armCode \in Slot \cup {NoSlot}
    /\ running \in Slot \cup {NoSlot}

UnitTypes ==
    /\ unit = [s \in Slot |-> unit[s]]
    /\ \A s \in Slot : unit[s] = NoUnit \/ \E a \in Addr : unit[s] \in UnitAt(a)

(* The type invariant, split into the parts different steps change.        *)
LEMMA TypeParts ==
    TypeOK /\ ListsAgree <=> OtherTypes /\ FastTypes /\ UnitTypes /\ Lists
BY DEF TypeOK, OtherTypes, FastTypes, UnitTypes, Lists, ListTypes, ListsAgree

(* A snapshot of the guest is a possible history.                          *)
LEMMA SnapshotType ==
    ASSUME NEW m \in [Addr -> Val], NEW c \in Ctl
    PROVE  Snapshot(m, c) \in [mem : [Addr -> Val], ctl : Ctl]
BY DEF Snapshot

(* What IC becomes by replacing lines and reading others: it holds what it *)
(* held, or what is in memory, or nothing.                                 *)
From(c) ==
    /\ c \in [Low -> Val \cup {NoVal}]
    /\ \A w \in Low : c[w] \in {NoVal, mem[w]} \/ (ic[w] # NoVal /\ c[w] = ic[w])

(* A read through such an IC yields a value.                               *)
LEMMA ReadType ==
    ASSUME OtherTypes, NEW c, From(c), NEW w \in Addr
    PROVE  Read(c, w) \in Val
BY DEF OtherTypes, From, Read

(* IC as it is, IC with lines replaced and IC with lines read.             *)
LEMMA FromIC == ASSUME OtherTypes PROVE From(ic)
BY DEF OtherTypes, From

(* Replacing lines.                                                        *)
LEMMA FromReplaced ==
    ASSUME NEW c, From(c), NEW d \in Replaced(c)
    PROVE  From(d)
<1>1. PICK lost \in SUBSET Low : d = [w \in Low |-> IF w \in lost THEN NoVal ELSE c[w]]
  BY DEF Replaced
<1> QED BY <1>1 DEF From

(* Reading words.                                                          *)
LEMMA FromFill ==
    ASSUME OtherTypes, NEW c, From(c), NEW words
    PROVE  From(Fill(c, words))
<1>1. \A w \in Low : Read(c, w) \in Val
  BY JITCacheAssumption, ReadType
<1>2. \A w \in Low : Read(c, w) = mem[w] \/ (c[w] # NoVal /\ Read(c, w) = c[w])
  BY DEF Read
<1> QED BY <1>1, <1>2 DEF Fill, From

(* The three IC contents of a translation, the two of a verification.      *)
LEMMA FromTranslate ==
    ASSUME OtherTypes, NEW c \in Replaced(ic), NEW d \in Replaced(Fill(c, Span[pc])),
           NEW e \in Replaced(Fill(d, FpSpan[pc]))
    PROVE  From(c) /\ From(d) /\ From(e)
BY FromIC, FromReplaced, FromFill

(* The IC contents of a verification, and what it leaves behind.           *)
LEMMA FromVerify ==
    ASSUME OtherTypes, NEW u, NEW c \in Replaced(ic), NEW d \in Replaced(Fill(c, FpSpan[pc]))
    PROVE  From(c) /\ From(d) /\ From(ICAfter(u, c, d))
<1>1. From(c) /\ From(d)
  BY FromIC, FromReplaced, FromFill
<1> QED BY <1>1, FromIC, FromFill DEF ICAfter

(* Every step of the main loop leaves IC in such a state.                  *)
LEMMA FromMainLoop ==
    ASSUME OtherTypes, MainLoop
    PROVE  From(ic')
<1>1. CASE VerifyOK
  BY <1>1, FromVerify DEF VerifyOK
<1>2. CASE VerifyFails
  BY <1>2, FromVerify DEF VerifyFails
<1>3. CASE UncachedRun \/ UncachedFails
  <2>1. PICK c \in Replaced(ic) : ic' = Fill(c, Span[pc])
    BY <1>3 DEF UncachedRun, UncachedFails
  <2> QED BY <2>1, FromIC, FromReplaced, FromFill
<1>4. CASE Translate
  <2>1. PICK c \in Replaced(ic) : \E d \in Replaced(Fill(c, Span[pc])) :
           \E e \in Replaced(Fill(d, FpSpan[pc])) : ic' = Fill(e, Span[pc])
    BY <1>4 DEF Translate
  <2> QED BY <2>1, FromTranslate, FromFill
<1>5. CASE UNCHANGED ic
  BY <1>5, FromIC
<1> QED
  BY <1>1, <1>2, <1>3, <1>4, <1>5 DEF MainLoop, Cached, Uncached, FastPath, QuickHit,
     HashHit, Absent, UncachedAbsent, Evict, guest

(* Memory, IC, registers and the epoch keep their types.                   *)
LEMMA OtherTypesStep ==
    ASSUME OtherTypes, Next
    PROVE  OtherTypes'
<1>1. CASE MainLoop
  <2>1. ic' \in [Low -> Val \cup {NoVal}]
    BY <1>1, FromMainLoop DEF From
  <2> QED
    BY <1>1, <2>1 DEF OtherTypes, MainLoop, Cached, Uncached, FastPath, QuickHit, HashHit,
       VerifyOK, VerifyFails, Absent, UncachedRun, UncachedFails, UncachedAbsent,
       QuickMiss, HashMiss, Evict, Translate, Release, Run, guest, units, cacr
<1>2. ASSUME NEW a \in Addr, NEW v \in Val, Write(a, v)
      PROVE  OtherTypes'
  <2>1. mem' \in [Addr -> Val]
    BY <1>2 DEF Write, OtherTypes
  <2>2. Snapshot(mem', ctl) \in [mem : [Addr -> Val], ctl : Ctl]
    BY <2>1, SnapshotType DEF OtherTypes
  <2>3. ic' \in [Low -> Val \cup {NoVal}]
    BY <1>2 DEF Write, OtherTypes
  <2> QED BY <1>2, <2>1, <2>2, <2>3 DEF Write, OtherTypes, units, cacr
<1>3. ASSUME NEW c \in Ctl, WriteJITControl(c)
      PROVE  OtherTypes'
  <2>1. Snapshot(mem, c) \in [mem : [Addr -> Val], ctl : Ctl]
    BY <1>3, SnapshotType DEF OtherTypes
  <2> QED BY <1>3, <2>1 DEF WriteJITControl, OtherTypes, units, cacr
<1>4. CASE Flush
  <2>1. Snapshot(mem, ctl) \in [mem : [Addr -> Val], ctl : Ctl]
    BY SnapshotType DEF OtherTypes
  <2> QED BY <1>4, <2>1 DEF Flush, OtherTypes, cacr
<1>5. ASSUME NEW on \in BOOLEAN, WriteCACR(on)
      PROVE  OtherTypes'
  BY <1>5 DEF WriteCACR, OtherTypes, guest
<1>6. ASSUME NEW next \in Addr, EndUnit(next)
      PROVE  OtherTypes'
  BY <1>6 DEF EndUnit, OtherTypes, guest, units, cacr
<1> QED BY <1>1, <1>2, <1>3, <1>4, <1>5, <1>6 DEF Next, Guest

(* LRU_InsertBlock changes entries of the quick cache only to s or none.   *)
LEMMA QuickInsertType ==
    ASSUME FastTypes, NEW s \in Slot, QuickInsert(pc, s)
    PROVE  quick' \in [Addr -> Slot \cup {NoSlot}]
BY DEF FastTypes, QuickInsert

(* The quick cache, LAST_PC and x12 keep their types.                      *)
LEMMA FastTypesStep ==
    ASSUME FastTypes, OtherTypes, Lists, Next
    PROVE  FastTypes'
<1>1. CASE FastPath
  BY <1>1 DEF FastPath, Run, FastTypes
<1>2. CASE QuickHit
  BY <1>2 DEF QuickHit, Run, FastTypes, OtherTypes
<1>3. CASE HashHit
  <2>1. PICK s \in Slot : QuickInsert(pc, s) /\ Run(s)
    BY <1>3 DEF HashHit, At, Lists, ListsAgree, ListTypes
  <2> QED BY <1>3, <2>1, QuickInsertType DEF HashHit, Run, FastTypes, OtherTypes
<1>4. CASE VerifyOK
  <2>1. PICK s \in Slot : QuickInsert(pc, s) /\ Run(s)
    BY <1>4 DEF VerifyOK, At, Lists, ListsAgree, ListTypes
  <2>2. lastPC' = pc
    BY <1>4 DEF VerifyOK
  <2> QED BY <2>1, <2>2, QuickInsertType DEF Run, FastTypes, OtherTypes
<1>5. CASE VerifyFails \/ Absent \/ UncachedFails \/ UncachedAbsent
  BY <1>5 DEF VerifyFails, Absent, UncachedFails, UncachedAbsent, FastTypes, fast
<1>6. CASE UncachedRun
  <2>1. PICK s \in Slot : Run(s)
    BY <1>6 DEF UncachedRun, At, Lists, ListsAgree, ListTypes
  <2> QED BY <1>6, <2>1 DEF UncachedRun, Run, FastTypes
<1>7. CASE Evict
  BY <1>7 DEF Evict, FastTypes
<1>8. CASE Translate
  <2>1. PICK s \in Slot : /\ Run(s)
                         /\ IF ie THEN QuickInsert(pc, s) /\ lastPC' = pc
                                  ELSE UNCHANGED <<quick, lastPC>>
    BY <1>8 DEF Translate
  <2>2. quick' \in [Addr -> Slot \cup {NoSlot}] /\ lastPC' \in Addr \cup {NoAddr}
    BY <2>1, QuickInsertType DEF FastTypes, OtherTypes
  <2> QED BY <2>1, <2>2 DEF Run, FastTypes
<1>9. CASE Guest
  BY <1>9 DEF Guest, Write, WriteJITControl, Flush, WriteCACR, EndUnit, FastTypes,
     QuickEmpty, fast
<1> QED BY <1>1, <1>2, <1>3, <1>4, <1>5, <1>6, <1>7, <1>8, <1>9
        DEF Next, MainLoop, Cached, Uncached

(* A unit of an address is not an empty block.                             *)
LEMMA AtIsUnit ==
    ASSUME UnitTypes, NEW s \in Slot, unit[s].addr \in Addr
    PROVE  unit[s] \in UnitAt(unit[s].addr)
<1>1. unit[s] # NoUnit
  BY JITCacheAssumption DEF NoUnit
<1>2. PICK a \in Addr : unit[s] \in UnitAt(a)
  BY <1>1 DEF UnitTypes
<1>3. unit[s].addr = a
  BY <1>2 DEF UnitAt
<1> QED BY <1>2, <1>3

(* A block holds a unit of one guest address, or nothing yet.              *)
LEMMA UnitTypesStep ==
    ASSUME UnitTypes, OtherTypes, Lists, Next
    PROVE  UnitTypes'
<1>1. CASE unit' = unit
  BY <1>1 DEF UnitTypes
<1>2. CASE VerifyOK
  <2>1. PICK s \in At(pc) : unit' = [unit EXCEPT ![s].epoch = epoch]
    BY <1>2 DEF VerifyOK
  <2>2. s \in Slot /\ unit[s].addr \in Addr
    BY DEF At, Lists, ListsAgree, ListTypes, OtherTypes
  <2>3. PICK a \in Addr : unit[s] \in UnitAt(a)
    BY <2>2, AtIsUnit
  <2>4. [unit[s] EXCEPT !.epoch = epoch] \in UnitAt(a)
    BY <2>3 DEF UnitAt, OtherTypes
  <2>5. /\ unit' = [t \in Slot |-> unit'[t]]
        /\ unit'[s] = [unit[s] EXCEPT !.epoch = epoch]
        /\ \A t \in Slot \ {s} : unit'[t] = unit[t]
    BY <2>1, <2>2 DEF UnitTypes
  <2>6. ASSUME NEW t \in Slot
        PROVE  unit'[t] = NoUnit \/ \E b \in Addr : unit'[t] \in UnitAt(b)
    BY <2>4, <2>5 DEF UnitTypes
  <2> QED BY <2>5, <2>6 DEF UnitTypes
<1>3. CASE Translate
  <2>1. PICK s \in Slot, c \in Replaced(ic) : \E d \in Replaced(Fill(c, Span[pc])) :
           \E e \in Replaced(Fill(d, FpSpan[pc])) :
              unit' = [unit EXCEPT ![s] = Translation(c, d, e)]
    BY <1>3 DEF Translate
  <2>2. PICK d \in Replaced(Fill(c, Span[pc])) : \E e \in Replaced(Fill(d, FpSpan[pc])) :
           unit' = [unit EXCEPT ![s] = Translation(c, d, e)]
    BY <2>1
  <2>3. PICK e \in Replaced(Fill(d, FpSpan[pc])) :
           unit' = [unit EXCEPT ![s] = Translation(c, d, e)]
    BY <2>2
  <2>4. Translation(c, d, e) \in UnitAt(pc)
    <3>1. \A w \in Addr : Read(c, w) \in Val /\ Read(d, w) \in Val /\ Read(e, w) \in Val
      BY FromTranslate, ReadType
    <3>2. pc \in Addr /\ Span[pc] \subseteq Addr /\ FpSpan[pc] \subseteq Addr
      BY JITCacheAssumption DEF OtherTypes
    <3> QED BY <3>1, <3>2 DEF Translation, UnitAt, OtherTypes
  <2>5. /\ unit' = [t \in Slot |-> unit'[t]]
        /\ unit'[s] = Translation(c, d, e)
        /\ \A t \in Slot \ {s} : unit'[t] = unit[t]
    BY <2>3 DEF UnitTypes
  <2>6. ASSUME NEW t \in Slot
        PROVE  unit'[t] = NoUnit \/ \E b \in Addr : unit'[t] \in UnitAt(b)
    BY <2>4, <2>5 DEF UnitTypes, OtherTypes
  <2> QED BY <2>5, <2>6 DEF UnitTypes
<1> QED
  BY <1>1, <1>2, <1>3 DEF Next, MainLoop, Cached, Uncached, Guest, FastPath, QuickHit,
     HashHit, VerifyFails, Absent, UncachedRun, UncachedFails, UncachedAbsent, Release,
     Evict, Write, WriteJITControl, Flush, WriteCACR, EndUnit, units

(* Every step keeps list, hash table, allocator and counter in agreement.  *)
LEMMA ListsStep ==
    ASSUME Lists, Next
    PROVE  Lists'
<1>1. CASE UNCHANGED <<used, lru, hashed, count>>
  BY <1>1 DEF Lists, ListTypes, ListsAgree
<1>2. CASE VerifyOK
  <2>1. PICK s \in At(pc) : lru' = Cons(s, Unlinked(s))
    BY <1>2 DEF VerifyOK
  <2>2. s \in used
    BY DEF At, Lists, ListsAgree
  <2> QED BY <1>2, <2>1, <2>2, MoveToHeadLists DEF VerifyOK
<1>3. CASE VerifyFails \/ UncachedFails
  <2>1. PICK s \in At(pc) : Release(s)
    BY <1>3 DEF VerifyFails, UncachedFails
  <2>2. s \in used
    BY DEF At, Lists, ListsAgree
  <2> QED BY <2>1, <2>2, ReleaseLists
<1>4. CASE Evict
  BY <1>4, EvictLists
<1>5. CASE Translate
  <2>1. PICK s \in Slot \ used : /\ used' = used \cup {s} /\ lru' = Cons(s, lru)
                                /\ hashed' = hashed \cup {s}
    BY <1>5 DEF Translate
  <2> QED BY <1>5, <2>1, InsertLists DEF Translate
<1>6. ASSUME NEW on \in BOOLEAN, WriteCACR(on) PROVE Lists'
  BY <1>6, WriteCACRLists
<1> QED
  BY <1>1, <1>2, <1>3, <1>4, <1>5, <1>6 DEF Next, MainLoop, Cached, Uncached, Guest,
     FastPath, QuickHit, HashHit, Absent, UncachedRun, UncachedAbsent,
     Write, WriteJITControl, Flush, EndUnit, units

-----------------------------------------------------------------------------
(* The invariant TypeOK /\ ListsAgree.  It is inductive only as a whole:   *)
(* Unlinked looks for a unit of the hash table in the list LRU.            *)
LEMMA TypedInit == Init => TypeOK /\ ListsAgree
<1> SUFFICES ASSUME Init PROVE TypeOK /\ ListsAgree
  OBVIOUS
<1>1. OtherTypes
  <2>1. Snapshot(mem, ctl) \in [mem : [Addr -> Val], ctl : Ctl]
    BY SnapshotType DEF Init
  <2> QED BY <2>1, JITCacheAssumption DEF Init, OtherTypes
<1>2. FastTypes
  BY DEF Init, FastTypes, QuickEmpty
<1>3. UnitTypes
  BY DEF Init, UnitTypes
<1>4. Lists
  <2>1. lru \in Seq(Slot) /\ IsInjective(lru) /\ Range(lru) = {}
    BY DEF Init, IsInjective, Range
  <2> QED BY <2>1, FS_EmptySet DEF Init, Lists, ListTypes, ListsAgree
<1> QED BY <1>1, <1>2, <1>3, <1>4, TypeParts

(* The parts together: one step keeps the types and the lists.             *)
LEMMA TypedStep == TypeOK /\ ListsAgree /\ [Next]_vars => (TypeOK /\ ListsAgree)'
<1> SUFFICES ASSUME TypeOK, ListsAgree, [Next]_vars PROVE (TypeOK /\ ListsAgree)'
  OBVIOUS
<1>1. OtherTypes /\ FastTypes /\ UnitTypes /\ Lists
  BY TypeParts
<1>2. CASE Next
  <2>1. OtherTypes' /\ FastTypes' /\ UnitTypes' /\ Lists'
    BY <1>1, <1>2, OtherTypesStep, FastTypesStep, UnitTypesStep, ListsStep
  <2> QED BY <2>1 DEF TypeOK, OtherTypes, FastTypes, UnitTypes, Lists, ListTypes, ListsAgree
<1>3. CASE UNCHANGED vars
  BY <1>3 DEF TypeOK, ListsAgree, vars, guest, units, fast, cacr
<1> QED BY <1>2, <1>3

(* Every variable of the translation-unit cache keeps its type, whatever   *)
(* the guest does and however full the cache is: the entries of the quick  *)
(* cache and x12 hold blocks or nothing, LRU a list of blocks.             *)
THEOREM TypeCorrect == Spec => []TypeOK
<1> QED BY TypedInit, TypedStep, PTL DEF Spec

(* The list LRU, the hash table, the allocator and JIT_UNIT_COUNT agree    *)
(* after every path that links or releases units: failed verification,     *)
(* eviction, check_cacr and translation.                                   *)
THEOREM ListsAlwaysAgree == Spec => []ListsAgree
<1> QED BY TypedInit, TypedStep, PTL DEF Spec

-----------------------------------------------------------------------------
(* What makes OneUnitPerAddress and EpochMeansVerified inductive           *)

(* The epoch of a unit is never ahead of EPOCH, so that none is of the new *)
(* epoch after a flush.                                                    *)
Dated ==
    \A s \in hashed : /\ unit[s].addr \in Addr
                      /\ unit[s].epoch \in Nat /\ unit[s].epoch <= epoch

(* Memory and JIT control as they are belong to the history a unit may be  *)
(* a translation of.                                                       *)
Recorded == Snapshot(mem, ctl) \in hist

(* Verification does not look at the code of a unit of the ROM.            *)
RomUnits == \A s \in hashed : unit[s].addr \in Rom => Unchanged(unit[s], mem)

(* Outside mapped low RAM the words a unit was translated from are those   *)
(* its checksum was taken of.                                              *)
SumIsOfCode ==
    \A s \in hashed : \A w \in Span[unit[s].addr] \ Mapped :
       unit[s].code[w] = unit[s].sum[w]

(* A unit is only translated after the search for one has failed.          *)
AllocatesAbsent == phase = "alloc" => At(pc) = {}

UnitsInv == /\ Dated /\ Recorded /\ ICSinceFlush /\ RomUnits /\ SumIsOfCode
            /\ OneUnitPerAddress /\ EpochMeansVerified

IndInv == TypeOK /\ ListsAgree /\ UnitsInv /\ AllocatesAbsent

(* The invariant holds with an empty cache.                                *)
LEMMA InvInit == Init => UnitsInv /\ AllocatesAbsent
BY DEF Init, UnitsInv, Dated, Recorded, ICSinceFlush, RomUnits, SumIsOfCode,
   OneUnitPerAddress, EpochMeansVerified, AllocatesAbsent

(* Reading through IC fills it with what memory is, or was since the last  *)
(* flush.                                                                  *)
LEMMA ICFrom ==
    ASSUME UnitsInv, From(ic'), UNCHANGED <<mem, ctl, hist>>
    PROVE  ICSinceFlush'
<1>1. ASSUME NEW w \in Low, ic'[w] # NoVal
      PROVE  ic'[w] = mem[w] \/ (ic[w] # NoVal /\ ic'[w] = ic[w])
  BY <1>1 DEF From
<1>2. \A w \in Low : \E h \in hist : h.mem[w] = mem[w]
  BY DEF UnitsInv, Recorded, Snapshot
<1> QED BY <1>1, <1>2 DEF UnitsInv, ICSinceFlush

(* A word read outside mapped low RAM is the word in memory.               *)
LEMMA ReadCoherent ==
    ASSUME UnitsInv, NEW c, From(c), NEW w \in Addr \ Mapped
    PROVE  Read(c, w) = mem[w]
BY DEF UnitsInv, ICSinceFlush, From, Read

(* Linking no unit and changing none keeps what is known of the units.     *)
LEMMA UnitsShrink ==
    ASSUME UnitsInv, hashed' \subseteq hashed, UNCHANGED <<mem, ctl, hist, unit, epoch>>,
           ICSinceFlush'
    PROVE  UnitsInv'
BY DEF UnitsInv, Dated, Recorded, RomUnits, SumIsOfCode, OneUnitPerAddress,
   EpochMeansVerified, Fresh, Unchanged

(* After M68K_VerifyUnit accepts a unit: it translates memory as it is.    *)
LEMMA UnitsVerifyOK ==
    ASSUME TypeOK, ListsAgree, UnitsInv, VerifyOK
    PROVE  UnitsInv'
<1>1. PICK s \in At(pc) : \E c, d : /\ From(d) /\ Valid(unit[s], c, d)
                                    /\ unit' = [unit EXCEPT ![s].epoch = epoch]
  BY FromVerify, TypeParts DEF VerifyOK
<1>2. s \in hashed /\ s \in Slot /\ unit[s].addr = pc /\ pc \in Addr
  BY DEF At, TypeOK
<1>3. UNCHANGED <<mem, ctl, hist, hashed, epoch>>
  BY DEF VerifyOK
<1>4. unit[s] \in UnitAt(pc)
  BY <1>2, AtIsUnit, TypeParts
<1>5. /\ unit'[s].addr = unit[s].addr /\ unit'[s].code = unit[s].code
      /\ unit'[s].sum = unit[s].sum
      /\ unit'[s].ctl = unit[s].ctl /\ unit'[s].epoch = epoch
  BY <1>1, <1>2, <1>4 DEF UnitAt, TypeOK
<1>6. \A t \in hashed \ {s} : unit'[t] = unit[t]
  BY <1>1, <1>2 DEF TypeOK
<1>7. Unchanged(unit[s], mem)
  <2>1. CASE unit[s].addr \in Rom
    BY <1>2, <2>1 DEF UnitsInv, RomUnits
  <2>2. CASE unit[s].addr \notin Rom
    <3>1. PICK d : From(d) /\ SumMatches(unit[s], d)
      BY <1>1, <2>2 DEF Valid
    <3>2. \A w \in Span[unit[s].addr] \ Mapped : Read(d, w) = mem[w]
      BY <1>2, <3>1, JITCacheAssumption, ReadCoherent
    <3> QED BY <1>2, <3>1, <3>2 DEF SumMatches, Unchanged, UnitsInv, SumIsOfCode
  <2> QED BY <2>1, <2>2
<1>8. Dated' /\ Recorded' /\ OneUnitPerAddress'
  <2>1. Dated'
    <3>1. epoch \in Nat /\ epoch <= epoch
      BY DEF TypeOK
    <3>2. unit'[s].addr \in Addr /\ unit'[s].epoch \in Nat /\ unit'[s].epoch <= epoch
      BY <1>2, <1>5, <3>1
    <3>3. \A t \in hashed \ {s} : /\ unit'[t].addr \in Addr /\ unit'[t].epoch \in Nat
                                  /\ unit'[t].epoch <= epoch
      BY <1>6 DEF UnitsInv, Dated
    <3>4. \A t \in hashed : /\ unit'[t].addr \in Addr /\ unit'[t].epoch \in Nat
                            /\ unit'[t].epoch <= epoch
      BY <3>2, <3>3, Zenon
    <3> QED BY <1>3, <3>4 DEF Dated
  <2>2. Recorded'
    BY <1>3 DEF UnitsInv, Recorded, Snapshot
  <2>3. \A t \in hashed : unit'[t].addr = unit[t].addr
    BY <1>5, <1>6
  <2>4. OneUnitPerAddress'
    BY <1>3, <2>3 DEF UnitsInv, OneUnitPerAddress
  <2> QED BY <2>1, <2>2, <2>4
<1>9. ICSinceFlush'
  BY <1>3, FromMainLoop, ICFrom, TypeParts DEF MainLoop, Cached
<1>10. RomUnits'
  BY <1>3, <1>5, <1>6, <1>7 DEF UnitsInv, RomUnits, Unchanged
<1>11. SumIsOfCode'
  BY <1>3, <1>5, <1>6 DEF UnitsInv, SumIsOfCode
<1>12. EpochMeansVerified'
  <2>1. Fresh(unit[s])
    BY <1>1, <1>7 DEF Fresh, Valid, UnitsInv, Recorded, Snapshot
  <2>2. Fresh(unit[s])'
    BY <1>3, <1>5, <2>1 DEF Fresh, Unchanged
  <2>3. \A t \in hashed \ {s} : unit'[t].epoch = epoch' => Fresh(unit[t])'
    BY <1>3, <1>6 DEF UnitsInv, EpochMeansVerified, Fresh, Unchanged
  <2> QED BY <1>3, <2>2, <2>3 DEF EpochMeansVerified
<1> QED BY <1>8, <1>9, <1>10, <1>11, <1>12 DEF UnitsInv

(* After M68K_GetTranslationUnit: the new unit translates memory as it is, *)
(* and no other unit has its address.                                      *)
LEMMA UnitsTranslate ==
    ASSUME TypeOK, ListsAgree, UnitsInv, AllocatesAbsent, Translate
    PROVE  UnitsInv'
<1>1. PICK s \in Slot \ used : \E c, d, e : /\ From(c) /\ From(e)
         /\ unit' = [unit EXCEPT ![s] = Translation(c, d, e)]
         /\ hashed' = hashed \cup {s}
  BY FromTranslate, TypeParts DEF Translate
<1>2. UNCHANGED <<mem, ctl, hist, epoch, pc>> /\ At(pc) = {} /\ pc \in Addr
  BY DEF Translate, AllocatesAbsent, TypeOK
<1>3. s \notin hashed
  BY <1>1 DEF ListsAgree
<1>4. /\ unit'[s].addr = pc /\ unit'[s].epoch = epoch /\ unit'[s].ctl = ctl
      /\ \E c, e : /\ From(c) /\ unit'[s].code = [w \in Span[pc] |-> Read(c, w)]
                   /\ From(e) /\ unit'[s].sum = [w \in Span[pc] |-> Read(e, w)]
  <2>1. PICK c, d, e : From(c) /\ From(e) /\ unit' = [unit EXCEPT ![s] = Translation(c, d, e)]
    BY <1>1
  <2>2. PICK u : u = Translation(c, d, e)
    OBVIOUS
  <2>3. unit'[s] = u
    BY <1>1, <2>1, <2>2 DEF TypeOK
  <2>4. /\ u.addr = pc /\ u.epoch = epoch /\ u.ctl = ctl
        /\ u.code = [w \in Span[pc] |-> Read(c, w)] /\ u.sum = [w \in Span[pc] |-> Read(e, w)]
    BY <2>2 DEF Translation
  <2> QED BY <2>1, <2>3, <2>4
<1>5. \A t \in hashed : unit'[t] = unit[t]
  BY <1>1, <1>3 DEF TypeOK
<1>6. \A w \in Span[pc] \ Mapped :
         unit'[s].code[w] = mem[w] /\ unit'[s].sum[w] = mem[w]
  <2>1. \A c : From(c) => \A w \in Span[pc] \ Mapped : Read(c, w) = mem[w]
    BY <1>2, JITCacheAssumption, ReadCoherent
  <2> QED BY <1>4, <2>1
<1>7. Unchanged(unit'[s], mem)
  BY <1>4, <1>6 DEF Unchanged
<1>8. Dated' /\ Recorded'
  <2>1. Dated'
    <3>1. hashed' = hashed \cup {s} /\ epoch \in Nat /\ epoch <= epoch
      BY <1>1 DEF TypeOK
    <3>2. /\ unit'[s].addr \in Addr /\ unit'[s].epoch = epoch /\ epoch' = epoch
      BY <1>2, <1>4
    <3>3. \A t \in hashed : /\ unit'[t].addr \in Addr /\ unit'[t].epoch \in Nat
                            /\ unit'[t].epoch <= epoch
      BY <1>5 DEF UnitsInv, Dated
    <3> QED BY <3>1, <3>2, <3>3 DEF Dated
  <2>2. Recorded'
    BY <1>2 DEF UnitsInv, Recorded, Snapshot
  <2> QED BY <2>1, <2>2
<1>9. ICSinceFlush'
  BY <1>2, FromMainLoop, ICFrom, TypeParts DEF MainLoop
<1>10. OneUnitPerAddress'
  BY <1>1, <1>2, <1>4, <1>5 DEF UnitsInv, OneUnitPerAddress, At
<1>11. RomUnits'
  BY <1>1, <1>2, <1>5, <1>7 DEF UnitsInv, RomUnits, Unchanged
<1>12. SumIsOfCode'
  BY <1>1, <1>4, <1>5, <1>6 DEF UnitsInv, SumIsOfCode
<1>13. EpochMeansVerified'
  <2>1. Fresh(unit[s])'
    BY <1>2, <1>4, <1>7 DEF Fresh, UnitsInv, Recorded, Snapshot, Unchanged
  <2>2. \A t \in hashed : unit'[t].epoch = epoch' => Fresh(unit[t])'
    BY <1>2, <1>5 DEF UnitsInv, EpochMeansVerified, Fresh, Unchanged
  <2> QED BY <1>1, <2>1, <2>2 DEF EpochMeansVerified
<1> QED BY <1>8, <1>9, <1>10, <1>11, <1>12, <1>13 DEF UnitsInv

(* A guest write, or a write of JITCTRL, adds to the history.              *)
LEMMA UnitsGuest ==
    ASSUME UnitsInv, hist \subseteq hist', Snapshot(mem, ctl)' \in hist',
           \A w \in Rom : mem'[w] = mem[w],
           UNCHANGED <<unit, hashed, epoch>>, ICSinceFlush'
    PROVE  UnitsInv'
<1>1. Dated' /\ Recorded' /\ OneUnitPerAddress' /\ SumIsOfCode'
  BY DEF UnitsInv, Dated, Recorded, OneUnitPerAddress, Snapshot, SumIsOfCode
<1>2. RomUnits'
  BY JITCacheAssumption DEF UnitsInv, RomUnits, Unchanged
<1>3. EpochMeansVerified'
  BY DEF UnitsInv, EpochMeansVerified, Fresh, Unchanged
<1> QED BY <1>1, <1>2, <1>3 DEF UnitsInv

(* A write drops the line of a word on the bus from IC.                    *)
LEMMA ICWrite ==
    ASSUME TypeOK, ICSinceFlush, NEW a \in Addr, NEW v \in Val, Write(a, v)
    PROVE  ICSinceFlush'
<1>1. /\ hist \subseteq hist' /\ mem \in [Addr -> Val] /\ mem' = [mem EXCEPT ![a] = v]
      /\ ic' = IF a \in Low \ Mapped THEN [ic EXCEPT ![a] = NoVal] ELSE ic
      /\ ic \in [Low -> Val \cup {NoVal}] /\ Low \subseteq Addr
  BY JITCacheAssumption DEF Write, TypeOK
<1>2. ASSUME NEW w \in Low, ic'[w] # NoVal
      PROVE  ic[w] # NoVal /\ ic'[w] = ic[w] /\ (w \notin Mapped => mem'[w] = mem[w])
  BY <1>1, <1>2
<1>3. ASSUME NEW w \in Low, ic'[w] # NoVal
      PROVE  (\E h \in hist' : h.mem[w] = ic'[w]) /\ (w \notin Mapped => ic'[w] = mem'[w])
  BY <1>1, <1>2, <1>3 DEF ICSinceFlush
<1> QED BY <1>3 DEF ICSinceFlush

(* After a flush no unit is of the current epoch, and IC is empty.         *)
LEMMA UnitsFlush ==
    ASSUME TypeOK, UnitsInv, Flush
    PROVE  UnitsInv'
<1>1. /\ UNCHANGED <<mem, ctl, unit, hashed>> /\ hist' = {Snapshot(mem, ctl)}
      /\ ic' = [w \in Low |-> NoVal] /\ epoch' = epoch + 1 /\ epoch \in Nat
  BY DEF Flush, TypeOK
<1>2. Dated'
  BY <1>1 DEF UnitsInv, Dated
<1>3. Recorded' /\ RomUnits' /\ OneUnitPerAddress' /\ SumIsOfCode'
  BY <1>1 DEF UnitsInv, Recorded, Snapshot, RomUnits, Unchanged, OneUnitPerAddress,
     SumIsOfCode
<1>4. ICSinceFlush'
  BY <1>1 DEF ICSinceFlush
<1>5. EpochMeansVerified'
  BY <1>1 DEF UnitsInv, Dated, EpochMeansVerified
<1> QED BY <1>2, <1>3, <1>4, <1>5 DEF UnitsInv

(* One step, by the kind of change it makes to the units.                  *)
LEMMA UnitsStep ==
    ASSUME TypeOK, ListsAgree, UnitsInv, AllocatesAbsent, Next
    PROVE  UnitsInv'
<1>1. CASE hashed' \subseteq hashed /\ UNCHANGED <<mem, ic, ctl, hist, unit, epoch>>
  <2>1. ICSinceFlush'
    BY <1>1 DEF UnitsInv, ICSinceFlush
  <2> QED BY <1>1, <2>1, UnitsShrink
<1>2. CASE VerifyOK
  BY <1>2, UnitsVerifyOK
<1>3. CASE VerifyFails \/ UncachedRun \/ UncachedFails
  <2>1. hashed' \subseteq hashed /\ UNCHANGED <<mem, ctl, hist, unit, epoch>>
    BY <1>3 DEF VerifyFails, UncachedRun, UncachedFails, Release, units
  <2>2. ICSinceFlush'
    BY <1>3, <2>1, FromMainLoop, ICFrom, TypeParts DEF MainLoop, Cached, Uncached
  <2> QED BY <2>1, <2>2, UnitsShrink
<1>4. CASE Translate
  BY <1>4, UnitsTranslate
<1>5. ASSUME NEW a \in Addr, NEW v \in Val, Write(a, v)
      PROVE  UnitsInv'
  <2>1. \A w \in Rom : mem'[w] = mem[w]
    BY <1>5, JITCacheAssumption DEF Write, TypeOK
  <2>2. ICSinceFlush'
    BY <1>5, ICWrite DEF UnitsInv
  <2> QED BY <1>5, <2>1, <2>2, UnitsGuest DEF Write, units, Snapshot
<1>6. ASSUME NEW c \in Ctl, WriteJITControl(c)
      PROVE  UnitsInv'
  <2>1. ICSinceFlush'
    BY <1>6 DEF WriteJITControl, UnitsInv, ICSinceFlush
  <2> QED BY <1>6, <2>1, UnitsGuest DEF WriteJITControl, units, Snapshot
<1>7. CASE Flush
  BY <1>7, UnitsFlush
<1> QED
  BY <1>1, <1>2, <1>3, <1>4, <1>5, <1>6, <1>7 DEF Next, MainLoop, Cached, Uncached, Guest,
     FastPath, QuickHit, HashHit, Absent, UncachedAbsent, Evict, WriteCACR, EndUnit,
     guest, units

(* A failed verification leaves no unit of the address behind, because     *)
(* there was only one.                                                     *)
LEMMA AbsentStep ==
    ASSUME UnitsInv, AllocatesAbsent, Next
    PROVE  AllocatesAbsent'
<1>1. CASE VerifyFails \/ UncachedFails
  <2>1. PICK s \in At(pc) : Release(s)
    BY <1>1 DEF VerifyFails, UncachedFails
  <2>2. hashed' = hashed \ {s} /\ unit' = unit /\ pc' = pc
    BY <1>1, <2>1 DEF Release, VerifyFails, UncachedFails
  <2> QED BY <2>2 DEF AllocatesAbsent, At, UnitsInv, OneUnitPerAddress
<1>2. CASE Absent \/ UncachedAbsent
  BY <1>2 DEF Absent, UncachedAbsent, AllocatesAbsent, At, units
<1>3. CASE Evict
  BY <1>3 DEF Evict, AllocatesAbsent, At
<1>4. CASE phase' # "alloc"
  BY <1>4 DEF AllocatesAbsent
<1> QED
  BY <1>1, <1>2, <1>3, <1>4 DEF Next, MainLoop, Cached, Uncached, Guest, FastPath,
     QuickHit, HashHit, VerifyOK, UncachedRun, Translate, Run, Write, WriteJITControl,
     Flush, WriteCACR, EndUnit

(* The inductive invariant is kept by every step.                          *)
LEMMA InvStep == IndInv /\ [Next]_vars => IndInv'
<1> SUFFICES ASSUME IndInv, [Next]_vars PROVE IndInv'
  OBVIOUS
<1>1. (TypeOK /\ ListsAgree)'
  BY TypedStep DEF IndInv
<1>2. CASE Next
  BY <1>1, <1>2, UnitsStep, AbsentStep DEF IndInv
<1>3. CASE UNCHANGED vars
  <2>1. UNCHANGED <<mem, ic, ctl, hist, unit, hashed, epoch, pc, phase>>
    BY <1>3 DEF vars, guest, units
  <2>2. UnitsInv'
    BY <2>1, UnitsShrink DEF IndInv, UnitsInv, ICSinceFlush
  <2>3. AllocatesAbsent'
    BY <2>1 DEF IndInv, AllocatesAbsent, At
  <2> QED BY <1>1, <2>2, <2>3 DEF IndInv
<1> QED BY <1>2, <1>3

(* The inductive invariant holds throughout.                               *)
LEMMA Invariance == Spec => []IndInv
<1>1. Init => IndInv
  BY TypedInit, InvInit DEF IndInv
<1> QED BY <1>1, InvStep, PTL DEF Spec

(* However units are verified, evicted and translated, no address ever has *)
(* two units: each path that translates has seen the search fail.          *)
THEOREM OneUnit == Spec => []OneUnitPerAddress
<1>1. IndInv => OneUnitPerAddress
  BY DEF IndInv, UnitsInv
<1> QED BY <1>1, Invariance, PTL

(* A unit whose epoch is EPOCH translates guest memory and JIT control as  *)
(* they were together at one moment since the last flush, so FindUnitQuick *)
(* may run it unseen; the words of mapped low RAM are the only exception.  *)
THEOREM EpochSound == Spec => []EpochMeansVerified
<1>1. IndInv => EpochMeansVerified
  BY DEF IndInv, UnitsInv
<1> QED BY <1>1, Invariance, PTL

(* The software instruction cache holds nothing older than the last flush, *)
(* and of words on the bus nothing but what is in memory now.              *)
THEOREM ICSound == Spec => []ICSinceFlush
<1>1. IndInv => ICSinceFlush
  BY DEF IndInv, UnitsInv
<1> QED BY <1>1, Invariance, PTL

-----------------------------------------------------------------------------
(***************************************************************************)
(* The ways into a unit that are not checked: LAST_PC with x12, and the    *)
(* quick cache.  Eviction breaks them, so what follows is about runs in    *)
(* which nothing is evicted, and about caches in which nothing needs to be.*)
(***************************************************************************)

(* While the cache is disabled, both are empty: check_cacr saw it go off.  *)
EmptyWhenOff ==
    /\ oldIE = ie
    /\ ie \/ (quick = QuickEmpty /\ lastPC = NoAddr)

LookupInv == EmptyWhenOff /\ QuickCoherent /\ LastPCCoherent /\ RunningIsLive

LEMMA LookupInit == Init /\ BootIE = FALSE => LookupInv
BY JITCacheAssumption DEF Init, LookupInv, EmptyWhenOff, QuickCoherent, QuickEmpty,
   LastPCCoherent, RunningIsLive

(* Nothing but the unit at pc changed, and that is in block s now.         *)
LEMMA InsertCoherent ==
    ASSUME TypeOK, QuickCoherent, NEW s \in Slot, QuickInsert(pc, s), pc \in Addr,
           s \in used', used \subseteq used', epoch' = epoch,
           unit'[s].addr = pc /\ unit'[s].epoch = epoch,
           \A t \in used \ {s} : unit'[t].addr = unit[t].addr /\ unit'[t].epoch = unit[t].epoch,
           s \in used => unit[s].addr = pc
    PROVE  QuickCoherent'
<1> SUFFICES ASSUME NEW a \in Addr, quick'[a] # NoSlot
             PROVE  /\ quick'[a] \in used' /\ unit'[quick'[a]].addr = a
                    /\ unit'[quick'[a]].epoch = epoch
  BY DEF QuickCoherent
<1>1. CASE a = pc
  <2>1. quick'[a] = s
    BY <1>1 DEF QuickInsert
  <2> QED BY <1>1, <2>1
<1>2. CASE a # pc
  <2>1. quick'[a] = quick[a]
    BY <1>2 DEF QuickInsert
  <2>2. quick[a] \in used /\ unit[quick[a]].addr = a /\ unit[quick[a]].epoch = epoch
    BY <2>1 DEF QuickCoherent
  <2>3. quick[a] # s
    BY <1>2, <2>2
  <2> QED BY <2>1, <2>2, <2>3
<1> QED BY <1>1, <1>2

(* A search that found the unit leaves it live, current and at pc.         *)
LEMMA LookupFound ==
    ASSUME IndInv, LookupInv, FastPath \/ QuickHit \/ HashHit
    PROVE  LookupInv'
<1>1. CASE FastPath
  <2>1. lastPC # NoAddr /\ armCode' = armCode /\ running' = armCode
        /\ UNCHANGED <<unit, used, epoch, quick, lastPC, ie, oldIE>>
    BY <1>1, JITCacheAssumption DEF FastPath, Run, IndInv, TypeOK, units, cacr
  <2> QED BY <2>1 DEF LookupInv, EmptyWhenOff, QuickCoherent, LastPCCoherent, RunningIsLive
<1>2. CASE QuickHit
  BY <1>2 DEF QuickHit, Run, IndInv, LookupInv, EmptyWhenOff, QuickCoherent,
     LastPCCoherent, RunningIsLive, guest, units, cacr, TypeOK
<1>3. CASE HashHit
  <2>1. PICK s \in At(pc) : unit[s].epoch = epoch /\ QuickInsert(pc, s) /\ Run(s)
    BY <1>3 DEF HashHit
  <2>2. s \in used /\ s \in Slot /\ unit[s].addr = pc /\ pc \in Addr
    BY DEF At, IndInv, TypeOK, ListsAgree
  <2>3. ie /\ lastPC' = pc /\ UNCHANGED <<unit, used, epoch, ie, oldIE>>
    BY <1>3 DEF HashHit, QuickMiss, units, cacr
  <2>4. QuickCoherent'
    BY <2>1, <2>2, <2>3, InsertCoherent DEF IndInv, LookupInv
  <2>5. LastPCCoherent' /\ RunningIsLive'
    BY <2>1, <2>2, <2>3 DEF Run, LastPCCoherent, RunningIsLive
  <2> QED BY <2>3, <2>4, <2>5 DEF LookupInv, EmptyWhenOff
<1> QED BY <1>1, <1>2, <1>3

LEMMA LookupVerifyOK ==
    ASSUME IndInv, LookupInv, VerifyOK
    PROVE  LookupInv'
<1>1. PICK s \in At(pc) : /\ unit' = [unit EXCEPT ![s].epoch = epoch]
                         /\ QuickInsert(pc, s) /\ Run(s)
  BY DEF VerifyOK
<1>2. s \in used /\ s \in Slot /\ unit[s].addr = pc /\ pc \in Addr
  BY DEF At, IndInv, TypeOK, ListsAgree
<1>3. ie /\ lastPC' = pc /\ UNCHANGED <<used, epoch, ie, oldIE>>
  BY DEF VerifyOK, HashMiss, QuickMiss, cacr
<1>4. unit[s] \in UnitAt(pc)
  BY <1>2, AtIsUnit, TypeParts DEF IndInv
<1>5. unit'[s].addr = pc /\ unit'[s].epoch = epoch
  BY <1>1, <1>2, <1>4 DEF UnitAt, IndInv, TypeOK
<1>6. \A t \in used \ {s} : unit'[t] = unit[t]
  BY <1>1, <1>2 DEF IndInv, TypeOK
<1>7. QuickCoherent'
  BY <1>1, <1>2, <1>3, <1>5, <1>6, InsertCoherent DEF IndInv, LookupInv
<1>8. LastPCCoherent' /\ RunningIsLive'
  BY <1>1, <1>2, <1>3, <1>5 DEF Run, LastPCCoherent, RunningIsLive
<1> QED BY <1>3, <1>7, <1>8 DEF LookupInv, EmptyWhenOff

(* A unit is released only after neither shortcut led to its address.      *)
LEMMA LookupFails ==
    ASSUME IndInv, LookupInv, VerifyFails \/ UncachedFails
    PROVE  LookupInv'
<1>1. PICK s \in At(pc) : Release(s)
  BY DEF VerifyFails, UncachedFails
<1>2. /\ unit[s].addr = pc /\ pc \in Addr /\ used' = used \ {s} /\ phase' = "alloc"
      /\ UNCHANGED <<unit, epoch, quick, ie, oldIE>>
  BY <1>1 DEF At, Release, VerifyFails, UncachedFails, fast, cacr, IndInv, TypeOK
<1>3. CASE VerifyFails
  <2>1. ie /\ lastPC # pc /\ quick[pc] = NoSlot /\ UNCHANGED <<lastPC, armCode>>
    BY <1>3 DEF VerifyFails, HashMiss, QuickMiss, fast
  <2>2. QuickCoherent'
    BY <1>2, <2>1 DEF LookupInv, QuickCoherent
  <2>3. LastPCCoherent'
    BY <1>2, <2>1 DEF LookupInv, LastPCCoherent
  <2> QED BY <1>2, <2>1, <2>2, <2>3 DEF LookupInv, EmptyWhenOff, RunningIsLive
<1>4. CASE UncachedFails
  <2>1. ~ie /\ lastPC' = NoAddr
    BY <1>4 DEF UncachedFails
  <2>2. \A a \in Addr : quick[a] = NoSlot
    BY <2>1 DEF LookupInv, EmptyWhenOff, QuickEmpty
  <2> QED BY <1>2, <2>1, <2>2 DEF LookupInv, EmptyWhenOff, QuickCoherent,
          LastPCCoherent, RunningIsLive
<1> QED BY <1>3, <1>4

LEMMA LookupTranslate ==
    ASSUME IndInv, LookupInv, Translate
    PROVE  LookupInv'
<1>1. PICK s \in Slot \ used : \E c, d, e :
         /\ unit' = [unit EXCEPT ![s] = Translation(c, d, e)]
         /\ used' = used \cup {s} /\ Run(s)
         /\ IF ie THEN QuickInsert(pc, s) /\ lastPC' = pc
                  ELSE UNCHANGED <<quick, lastPC>>
  BY DEF Translate
<1>2. pc \in Addr /\ UNCHANGED <<epoch, ie, oldIE>>
  BY DEF Translate, cacr, IndInv, TypeOK
<1>3. unit'[s].addr = pc /\ unit'[s].epoch = epoch
  BY <1>1 DEF Translation, IndInv, TypeOK
<1>4. \A t \in used : unit'[t] = unit[t]
  BY <1>1 DEF IndInv, TypeOK
<1>5. s \in used' /\ used \subseteq used'
  BY <1>1
<1>6. CASE ie
  <2>1. QuickInsert(pc, s) /\ lastPC' = pc
    BY <1>1, <1>6
  <2>2. QuickCoherent'
    BY <1>2, <1>3, <1>4, <1>5, <2>1, InsertCoherent DEF IndInv, LookupInv
  <2>3. LastPCCoherent' /\ RunningIsLive'
    BY <1>1, <1>2, <1>3, <1>5, <2>1 DEF Run, LastPCCoherent, RunningIsLive
  <2> QED BY <1>2, <1>6, <2>2, <2>3 DEF LookupInv, EmptyWhenOff
<1>7. CASE ~ie
  <2>1. quick' = QuickEmpty /\ lastPC' = NoAddr
    BY <1>1, <1>7 DEF LookupInv, EmptyWhenOff
  <2>2. QuickCoherent' /\ LastPCCoherent'
    BY <2>1 DEF QuickCoherent, LastPCCoherent, QuickEmpty
  <2>3. RunningIsLive'
    BY <1>1, <1>5 DEF Run, RunningIsLive
  <2> QED BY <1>2, <2>1, <2>2, <2>3 DEF LookupInv, EmptyWhenOff
<1> QED BY <1>6, <1>7

LEMMA LookupUncachedRun ==
    ASSUME IndInv, LookupInv, UncachedRun
    PROVE  LookupInv'
<1>1. PICK s \in At(pc) : Run(s)
  BY DEF UncachedRun
<1>2. s \in used
  BY DEF At, IndInv, ListsAgree
<1>3. ~ie /\ lastPC' = NoAddr /\ UNCHANGED <<unit, used, epoch, quick, ie, oldIE>>
  BY DEF UncachedRun, units, cacr
<1>4. \A a \in Addr : quick[a] = NoSlot
  BY <1>3 DEF LookupInv, EmptyWhenOff, QuickEmpty
<1> QED BY <1>1, <1>2, <1>3, <1>4 DEF LookupInv, EmptyWhenOff, QuickCoherent,
        LastPCCoherent, RunningIsLive, Run

LEMMA LookupWriteCACR ==
    ASSUME IndInv, LookupInv, NEW on \in BOOLEAN, WriteCACR(on)
    PROVE  LookupInv'
<1>1. ie' = on /\ oldIE' = on /\ UNCHANGED <<unit, epoch, armCode, phase, running>>
      /\ phase = "run" /\ running \in used
  BY DEF WriteCACR, LookupInv, RunningIsLive
<1>2. CASE oldIE /\ ~on
  <2>1. used' = used \ (Range(lru) \ {running}) /\ lastPC' = NoAddr /\ quick' = QuickEmpty
    BY <1>2 DEF WriteCACR
  <2> QED BY <1>1, <2>1 DEF LookupInv, EmptyWhenOff, QuickCoherent, QuickEmpty,
          LastPCCoherent, RunningIsLive
<1>3. CASE ~(oldIE /\ ~on)
  <2>1. UNCHANGED <<used, lastPC, quick>> /\ (on \/ ~ie)
    BY <1>3 DEF WriteCACR, LookupInv, EmptyWhenOff
  <2> QED BY <1>1, <2>1 DEF LookupInv, EmptyWhenOff, QuickCoherent,
          LastPCCoherent, RunningIsLive
<1> QED BY <1>2, <1>3

(* What neither runs, releases nor links a unit.                           *)
LEMMA LookupSame ==
    ASSUME LookupInv, UNCHANGED <<unit, used, epoch, quick, armCode, ie, oldIE>>,
           lastPC' = lastPC \/ lastPC' = NoAddr,
           UNCHANGED <<phase, running>> \/ phase' \in {"loop", "alloc"}
    PROVE  LookupInv'
BY DEF LookupInv, EmptyWhenOff, QuickCoherent, LastPCCoherent, RunningIsLive

LEMMA LookupStep == IndInv /\ LookupInv /\ [Next]_vars /\ ~Evict => LookupInv'
<1> SUFFICES ASSUME IndInv, LookupInv, [Next]_vars, ~Evict PROVE LookupInv'
  OBVIOUS
<1>1. CASE Absent \/ UncachedAbsent
  BY <1>1, LookupSame DEF Absent, UncachedAbsent, guest, units, fast, cacr
<1>2. CASE Flush
  BY <1>2 DEF Flush, LookupInv, EmptyWhenOff, QuickCoherent, QuickEmpty,
     LastPCCoherent, RunningIsLive, cacr
<1>3. ASSUME NEW a \in Addr, NEW v \in Val, Write(a, v) PROVE LookupInv'
  BY <1>3, LookupSame DEF Write, units, fast, cacr
<1>4. ASSUME NEW c \in Ctl, WriteJITControl(c) PROVE LookupInv'
  BY <1>4, LookupSame DEF WriteJITControl, units, fast, cacr
<1>5. ASSUME NEW next \in Addr, EndUnit(next) PROVE LookupInv'
  BY <1>5, LookupSame DEF EndUnit, units, fast, cacr
<1>6. CASE UNCHANGED vars
  BY <1>6, LookupSame DEF vars, units, fast, cacr
<1> QED
  BY <1>1, <1>2, <1>3, <1>4, <1>5, <1>6, LookupFound, LookupVerifyOK, LookupFails,
     LookupTranslate, LookupUncachedRun, LookupWriteCACR
     DEF Next, MainLoop, Cached, Uncached, Guest

(* A cache with a block for every address has one left for the unit that   *)
(* is to be translated, because no address has two.                        *)
Roomy == IsFiniteSet(Addr) /\ Cardinality(Addr) <= Cardinality(Slot)

LEMMA NoEviction ==
    ASSUME Roomy, IndInv
    PROVE  ~Evict
<1> SUFFICES ASSUME Evict PROVE FALSE
  OBVIOUS
<1>1. used = Slot /\ hashed = Slot /\ At(pc) = {} /\ pc \in Addr
  BY DEF Evict, IndInv, AllocatesAbsent, ListsAgree, TypeOK
<1>2. \A s \in Slot : unit[s].addr \in Addr \ {pc}
  BY <1>1 DEF IndInv, UnitsInv, Dated, At
<1> DEFINE T == Addr \ {pc}
           f == [s \in Slot |-> unit[s].addr]
<1>3. f \in [Slot -> T]
  BY <1>2
<1>4. IsFiniteSet(T) /\ Cardinality(T) = Cardinality(Addr) - 1
  BY <1>1, FS_RemoveElement DEF Roomy
<1>5. IsFiniteSet(Slot) /\ Cardinality(Slot) \in Nat /\ Cardinality(Addr) \in Nat
  BY JITCacheAssumption, FS_CardinalityType DEF Roomy
<1>6. Cardinality(T) < Cardinality(Slot)
  BY <1>4, <1>5 DEF Roomy
<1> HIDE DEF T, f
<1>7. PICK s, t \in Slot : s # t /\ f[s] = f[t]
  BY <1>3, <1>4, <1>5, <1>6, FS_PigeonHole
<1>8. unit[s].addr = unit[t].addr
  BY <1>7 DEF f
<1> QED BY <1>1, <1>7, <1>8 DEF IndInv, UnitsInv, OneUnitPerAddress

LEMMA LookupWithoutEviction ==
    ASSUME BootIE = FALSE
    PROVE  Spec /\ [][~Evict]_vars => [](IndInv /\ LookupInv)
<1>1. Init => LookupInv
  BY LookupInit
<1>2. LookupInv /\ UNCHANGED vars => LookupInv'
  BY LookupSame DEF vars, units, fast, cacr
<1>3. IndInv /\ LookupInv /\ [Next]_vars /\ [~Evict]_vars => LookupInv'
  BY <1>2, LookupStep
<1> QED BY <1>1, <1>3, Invariance, PTL DEF Spec

LEMMA NeverEvicts ==
    ASSUME Roomy
    PROVE  Spec => [][~Evict]_vars
<1>1. IndInv => [~Evict]_vars
  BY NoEviction
<1> QED BY <1>1, Invariance, PTL

(* Whatever is evicted, old_cacr follows CACR.                             *)
LEMMA OldFollows ==
    ASSUME BootIE = FALSE
    PROVE  Spec => [](oldIE = ie)
<1>1. Init => oldIE = ie
  BY DEF Init
<1>2. oldIE = ie /\ [Next]_vars => (oldIE = ie)'
  BY DEF Next, MainLoop, Cached, Uncached, Guest, FastPath, QuickHit, HashHit,
     VerifyOK, VerifyFails, Absent, UncachedRun, UncachedFails, UncachedAbsent, Evict,
     Translate, Write, WriteJITControl, Flush, WriteCACR, EndUnit, cacr, vars
<1> QED BY <1>1, <1>2, PTL DEF Spec

(* What a jump into a unit finds there.                                    *)
Runs(s) ==
    /\ s \in used' /\ running' = s /\ unit'[s].addr = pc
    /\ IF ie THEN Fresh(unit'[s]) ELSE Unchanged(unit'[s], mem)

LEMMA RunsFound ==
    ASSUME IndInv, LookupInv, FastPath \/ QuickHit \/ HashHit
    PROVE  Runs(running')
<1>1. /\ running' \in used /\ unit[running'].addr = pc /\ unit[running'].epoch = epoch
      /\ ie /\ UNCHANGED <<unit, used>>
  <2>1. CASE FastPath
    <3>1. lastPC = pc /\ lastPC # NoAddr /\ running' = armCode /\ ie /\ UNCHANGED <<unit, used>>
      BY <2>1, JITCacheAssumption DEF FastPath, Run, IndInv, TypeOK, units
    <3> QED BY <3>1 DEF LookupInv, LastPCCoherent
  <2>2. CASE QuickHit
    <3>1. pc \in Addr /\ quick[pc] # NoSlot /\ running' = quick[pc] /\ ie /\ UNCHANGED <<unit, used>>
      BY <2>2 DEF QuickHit, Run, IndInv, TypeOK, units
    <3> QED BY <3>1 DEF LookupInv, QuickCoherent
  <2>3. CASE HashHit
    BY <2>3 DEF HashHit, QuickMiss, Run, At, units, IndInv, ListsAgree
  <2> QED BY <2>1, <2>2, <2>3
<1>2. Fresh(unit[running'])
  BY <1>1 DEF IndInv, UnitsInv, EpochMeansVerified, ListsAgree
<1> QED BY <1>1, <1>2 DEF Runs

LEMMA RunsVerified ==
    ASSUME IndInv, VerifyOK
    PROVE  Runs(running')
<1>1. PICK s \in At(pc) : unit' = [unit EXCEPT ![s].epoch = epoch] /\ Run(s)
  BY DEF VerifyOK
<1>2. s \in hashed /\ s \in used /\ s \in Slot /\ unit[s].addr = pc /\ pc \in Addr
  BY DEF At, IndInv, TypeOK, ListsAgree
<1>3. unit[s] \in UnitAt(pc)
  BY <1>2, AtIsUnit, TypeParts DEF IndInv
<1>4. unit'[s].addr = pc /\ unit'[s].epoch = epoch
  BY <1>1, <1>2, <1>3 DEF UnitAt, IndInv, TypeOK
<1>5. ie /\ UNCHANGED <<hashed, used, epoch, hist>>
  BY DEF VerifyOK, HashMiss, QuickMiss
<1>6. EpochMeansVerified'
  BY UnitsVerifyOK DEF IndInv, UnitsInv
<1>7. Fresh(unit'[s])
  BY <1>2, <1>4, <1>5, <1>6 DEF EpochMeansVerified, Fresh, Unchanged
<1> QED BY <1>1, <1>2, <1>4, <1>5, <1>7 DEF Runs, Run

LEMMA RunsTranslated ==
    ASSUME IndInv, Translate
    PROVE  Runs(running')
<1>1. PICK s \in Slot \ used : \E c, d, e : /\ From(c)
         /\ unit' = [unit EXCEPT ![s] = Translation(c, d, e)]
         /\ used' = used \cup {s} /\ Run(s)
  BY FromTranslate, TypeParts DEF Translate, IndInv
<1>2. pc \in Addr
  BY DEF IndInv, TypeOK
<1>3. /\ unit'[s].addr = pc /\ unit'[s].ctl = ctl
      /\ \E c : From(c) /\ unit'[s].code = [w \in Span[pc] |-> Read(c, w)]
  BY <1>1 DEF Translation, IndInv, TypeOK
<1>4. \A c : From(c) => \A w \in Span[pc] \ Mapped : Read(c, w) = mem[w]
  BY <1>2, JITCacheAssumption, ReadCoherent DEF IndInv
<1>5. Unchanged(unit'[s], mem)
  BY <1>3, <1>4 DEF Unchanged
<1>6. Fresh(unit'[s])
  BY <1>3, <1>5 DEF Fresh, IndInv, UnitsInv, Recorded, Snapshot
<1> QED BY <1>1, <1>3, <1>5, <1>6 DEF Runs, Run

LEMMA RunsCompared ==
    ASSUME IndInv, UncachedRun
    PROVE  Runs(running')
<1>1. PICK s \in At(pc) : \E c : From(c) /\ SumMatches(unit[s], c) /\ Run(s)
  BY FromIC, FromReplaced, TypeParts DEF UncachedRun, IndInv
<1>2. s \in hashed /\ s \in used /\ s \in Slot /\ unit[s].addr = pc /\ pc \in Addr
  BY DEF At, IndInv, TypeOK, ListsAgree
<1>3. ~ie /\ UNCHANGED <<unit, used>>
  BY DEF UncachedRun, units
<1>4. \A c : From(c) => \A w \in Span[pc] \ Mapped : Read(c, w) = mem[w]
  BY <1>2, JITCacheAssumption, ReadCoherent DEF IndInv
<1>5. Unchanged(unit[s], mem)
  BY <1>1, <1>2, <1>4 DEF SumMatches, Unchanged, IndInv, UnitsInv, SumIsOfCode
<1> QED BY <1>1, <1>2, <1>3, <1>5 DEF Runs, Run

LEMMA RunsStep ==
    ASSUME IndInv, LookupInv, Next, phase # "run", phase' = "run"
    PROVE  Runs(running')
<1>1. CASE FastPath \/ QuickHit \/ HashHit
  BY <1>1, RunsFound
<1> QED
  BY <1>1, RunsVerified, RunsTranslated, RunsCompared DEF Next, MainLoop, Cached,
     Uncached, Guest, VerifyFails, Absent, UncachedFails, UncachedAbsent, Evict, Write,
     WriteJITControl, Flush, WriteCACR, EndUnit

-----------------------------------------------------------------------------
(* An entry of the quick cache leads to the live, current unit of its      *)
(* address, as long as no unit is evicted and the cache was off at start:  *)
(* every other release, flush and switch of the cache clears or misses it. *)
THEOREM QuickSound ==
    ASSUME BootIE = FALSE
    PROVE  Spec /\ [][~Evict]_vars => []QuickCoherent
<1>1. LookupInv => QuickCoherent
  BY DEF LookupInv
<1> QED BY <1>1, LookupWithoutEviction, PTL

(* The shortcut through LAST_PC and x12 runs the live, current unit of the *)
(* guest's PC, under the same two conditions; eviction breaks it.          *)
THEOREM LastPCSound ==
    ASSUME BootIE = FALSE
    PROVE  Spec /\ [][~Evict]_vars => []LastPCCoherent
<1>1. LookupInv => LastPCCoherent
  BY DEF LookupInv
<1> QED BY <1>1, LookupWithoutEviction, PTL

(* No code is freed while it runs, not even by the unit that switches the  *)
(* cache off, under the same two conditions.                               *)
THEOREM RunningSound ==
    ASSUME BootIE = FALSE
    PROVE  Spec /\ [][~Evict]_vars => []RunningIsLive
<1>1. LookupInv => RunningIsLive
  BY DEF LookupInv
<1> QED BY <1>1, LookupWithoutEviction, PTL

(* A cache with a block for each address never evicts, so what the main    *)
(* loop looks up in it is right without a condition on the run.            *)
THEOREM RoomyLookup ==
    ASSUME BootIE = FALSE, Roomy
    PROVE  Spec => [](QuickCoherent /\ LastPCCoherent /\ RunningIsLive)
<1>1. LookupInv => QuickCoherent /\ LastPCCoherent /\ RunningIsLive
  BY DEF LookupInv
<1> QED BY <1>1, LookupWithoutEviction, NeverEvicts, PTL

(* Whichever way the main loop takes into a unit, what it jumps to is the  *)
(* translation of the guest code at PC: of memory since the last flush     *)
(* with the cache on, of memory as it is with the cache off.               *)
THEOREM GuestCodeRuns ==
    ASSUME BootIE = FALSE
    PROVE  Spec /\ [][~Evict]_vars => RunsGuestCode
<1>1. ASSUME IndInv, LookupInv, [Next]_vars
      PROVE  [phase # "run" /\ phase' = "run" =>
                LET u == unit'[running'] IN
                /\ u.addr = pc
                /\ IF ie THEN Fresh(u) ELSE Unchanged(u, mem)]_vars
  BY <1>1, RunsStep DEF Runs
<1>2. IndInv /\ LookupInv /\ [Next]_vars =>
         [phase # "run" /\ phase' = "run" =>
            LET u == unit'[running'] IN
            /\ u.addr = pc
            /\ IF ie THEN Fresh(u) ELSE Unchanged(u, mem)]_vars
  BY <1>1
<1> QED BY <1>2, LookupWithoutEviction, PTL DEF Spec, RunsGuestCode

(* When the guest switches the cache off only the unit that did it is      *)
(* kept, and the quick cache is empty: check_cacr sees the edge of IE      *)
(* because old_cacr follows every write.                                   *)
THEOREM DisablingEmpties ==
    ASSUME BootIE = FALSE
    PROVE  Spec => DisablingEmptiesCache
<1>1. oldIE = ie /\ [Next]_vars =>
         [ie /\ ~ie' => Range(lru') \subseteq {running} /\ quick' = QuickEmpty]_vars
  <2> SUFFICES ASSUME oldIE = ie, Next, ie, ~ie'
               PROVE  Range(lru') \subseteq {running} /\ quick' = QuickEmpty
    OBVIOUS
  <2>1. PICK on \in BOOLEAN : WriteCACR(on)
    BY DEF Next, MainLoop, Cached, Uncached, Guest, FastPath, QuickHit, HashHit,
       VerifyOK, VerifyFails, Absent, UncachedRun, UncachedFails, UncachedAbsent, Evict,
       Translate, Write, WriteJITControl, Flush, EndUnit, cacr
  <2>2. quick' = QuickEmpty /\ lru' \in {<<>>, <<running>>}
    BY <2>1 DEF WriteCACR
  <2> QED BY <2>2 DEF Range
<1> QED BY <1>1, OldFollows, PTL DEF Spec, DisablingEmptiesCache

=============================================================================
