-------------------------------- MODULE Tlsf --------------------------------
(***************************************************************************)
(* The two-level segregated fit allocator behind the translation units     *)
(* (jit_tlsf) and the emulator's own data (tlsf).  Memory is a chain of    *)
(* blocks, each a header with the address of the header before it, a       *)
(* length and two flags; free blocks of nonzero length hang in the list of *)
(* their class, and two bitmaps say which lists have members.              *)
(*                                                                         *)
(* heap is the pool as one record, so that a function of the source is an  *)
(* operator from heap to heap.  Only headers in use are in heap.hdr: a     *)
(* read of any other address is an error.  The lock makes every operation  *)
(* one step but tlsf_realloc, which lets go of it to move a block.         *)
(***************************************************************************)
EXTENDS Integers, FiniteSetsExt

CONSTANTS
    SIZE_ALIGN,     \* granularity of addresses, and the size of a header
    MAX_LOG2_SLI,   \* log2 of the number of second-level classes
    FLI_OFFSET,     \* first levels that the small blocks share
    REAL_FLI,       \* number of first-level classes
    PoolSize,       \* bytes given to tlsf_init_with_memory
    Request,        \* lengths that clients ask for
    Alignment,      \* alignments that clients ask for
    Thread,
    Null

MAX_SLI     == 2 ^ MAX_LOG2_SLI
SMALL_BLOCK == 2 * 2 ^ FLI_OFFSET

ASSUME TlsfAssumption ==
    /\ \E k \in 0 .. SIZE_ALIGN : SIZE_ALIGN = 2 ^ k
    /\ {SIZE_ALIGN, MAX_LOG2_SLI, FLI_OFFSET, PoolSize} \subseteq Nat /\ REAL_FLI \in Nat \ {0}
    /\ Null \notin Nat
    /\ SMALL_BLOCK \div MAX_SLI \in 1 .. SIZE_ALIGN
    /\ PoolSize % SIZE_ALIGN = 0 /\ PoolSize > 4 * SIZE_ALIGN
    /\ PoolSize < 2 ^ (REAL_FLI + FLI_OFFSET)
    /\ Request \subseteq Nat \ {0} /\ Alignment \subseteq Nat \ {0}

VARIABLES
    heap,       \* tlsf_t and the headers in the pool
    owned,      \* history: blocks handed out and the lengths asked for
    op          \* what tlsf_realloc of a thread has still to do

vars == <<heap, owned, op>>

Class == (0 .. REAL_FLI - 1) \X (0 .. MAX_SLI - 1)

ROUNDUP(n) == ((n + SIZE_ALIGN - 1) \div SIZE_ALIGN) * SIZE_ALIGN

MS(n) == CHOOSE k \in 0 .. n : 2 ^ k <= n /\ n < 2 ^ (k + 1)

MAPPING_INSERT(r) ==
    IF r < SMALL_BLOCK
    THEN <<0, r \div (SMALL_BLOCK \div MAX_SLI)>>
    ELSE <<MS(r) - FLI_OFFSET, r \div 2 ^ (MS(r) - MAX_LOG2_SLI) - MAX_SLI>>

(* The first class all of whose blocks are long enough.                    *)
MAPPING_SEARCH(r) ==
    LET step == 2 ^ (MS(r) - MAX_LOG2_SLI)
        tr   == r + step - 1
    IN  IF r < SMALL_BLOCK
        THEN [size |-> r, class |-> MAPPING_INSERT(r)]
        ELSE [size |-> tr - (tr % step), class |-> MAPPING_INSERT(tr)]

(* The head of the first list at or above a class, or Null.                *)
FIND_SUITABLE_BLOCK(h, c) ==
    LET same   == {s \in c[2] .. MAX_SLI - 1 : <<c[1], s>> \in h.slbitmap}
        above  == {f \in h.flbitmap : f > c[1]}
        First(f) == Min({s \in 0 .. MAX_SLI - 1 : <<f, s>> \in h.slbitmap})
    IN  IF same # {} THEN h.matrix[<<c[1], Min(same)>>]
        ELSE IF above # {} THEN h.matrix[<<Min(above), First(Min(above))>>]
        ELSE Null

Size(h, b)       == h.hdr[b].size
Following(h, b)  == b + SIZE_ALIGN + h.hdr[b].size

(* h with header b as given, whether b was one before or not.              *)
Put(h, b, header) ==
    [h EXCEPT !.hdr = [x \in DOMAIN @ \cup {b} |-> IF x = b THEN header ELSE @[x]]]

SetSize(h, b, n) == [h EXCEPT !.hdr[b].size = n]

(* Mutant: the node after the one removed keeps its link back.             *)
UnlinkOneWay(h, b) ==
    [x \in DOMAIN h.node \ {b} |->
        [h.node[x] EXCEPT !.next = IF @ = b THEN h.node[b].next ELSE @]]

Unlink(h, b) ==
    [x \in DOMAIN h.node \ {b} |->
        [prev |-> IF x = h.node[b].next THEN h.node[b].prev ELSE h.node[x].prev,
         next |-> IF x = h.node[b].prev THEN h.node[b].next ELSE h.node[x].next]]

(* Mutant: the bits go with the head, whatever follows it.                 *)
EmptiesByHead(h, b, c) == h.matrix[c] = b

(* b is all there is in the list of class c.                               *)
Empties(h, b, c) == h.matrix[c] = b /\ h.node[b].next = Null

REMOVE_HEADER(h, b, c) ==
    LET sl == h.slbitmap \ {c}
    IN  IF Size(h, b) = 0 THEN h
        ELSE [h EXCEPT
                !.node      = Unlink(h, b),
                !.free_size = @ - Size(h, b),
                !.matrix[c] = IF @ = b THEN h.node[b].next ELSE @,
                !.slbitmap  = IF Empties(h, b, c) THEN sl ELSE @,
                !.flbitmap  = IF Empties(h, b, c) /\ \A e \in sl : e[1] # c[1]
                              THEN @ \ {c[1]} ELSE @]

INSERT_FREE_BLOCK(h, b) ==
    LET c     == MAPPING_INSERT(Size(h, b))
        first == h.matrix[c]
    IN  IF Size(h, b) = 0 THEN h
        ELSE [h EXCEPT
                !.node      = [x \in DOMAIN @ \cup {b} |->
                                 IF x = b THEN [prev |-> Null, next |-> first]
                                 ELSE IF x = first THEN [@[x] EXCEPT !.prev = b]
                                 ELSE @[x]],
                !.free_size = @ + Size(h, b),
                !.matrix[c] = b,
                !.slbitmap  = @ \cup {c},
                !.flbitmap  = @ \cup {c[1]}]

(* Mutant: the header after b learns the flag and not the new address.     *)
TellNextFlag(h, b) == [h EXCEPT !.hdr[Following(h, b)].prevFree = TRUE]

(* The header after the free block b learns that b comes before it.        *)
TellNext(h, b) ==
    [h EXCEPT !.hdr[Following(h, b)].prevFree = TRUE, !.hdr[Following(h, b)].prev = b]

(* b2 becomes part of b1, the block before it.                             *)
MERGE(h, b1, b2) ==
    [h EXCEPT !.hdr = [x \in DOMAIN h.hdr \ {b2} |->
        IF x = b1 THEN [h.hdr[b1] EXCEPT !.size = @ + h.hdr[b2].size + SIZE_ALIGN]
        ELSE h.hdr[x]]]

(* The merge with a free neighbour: the new heap and the block.            *)
MERGE_PREV(h, b) ==
    LET p == h.hdr[b].prev
    IN  IF h.hdr[b].prevFree
        THEN [heap  |-> MERGE(REMOVE_HEADER(h, p, MAPPING_INSERT(Size(h, p))), p, b),
              block |-> p]
        ELSE [heap |-> h, block |-> b]

(* Mutant: a header without memory is not worth merging.                   *)
MERGE_NEXTNonzero(h, b) ==
    LET n == Following(h, b)
    IN  IF h.hdr[n].free /\ Size(h, n) > 0
        THEN MERGE(REMOVE_HEADER(h, n, MAPPING_INSERT(Size(h, n))), b, n)
        ELSE h

MERGE_NEXT(h, b) ==
    LET n == Following(h, b)
    IN  IF h.hdr[n].free
        THEN MERGE(REMOVE_HEADER(h, n, MAPPING_INSERT(Size(h, n))), b, n)
        ELSE h

(* A free block of n bytes after the busy block p, written over whatever   *)
(* was there; the header after it is not told yet.                         *)
FreeBlock(h, b, n, p) ==
    Put(h, b, [prev |-> p, size |-> n, free |-> TRUE, prevFree |-> FALSE])

(* tlsf_intern_malloc: the new heap and the block, or Null.                *)
tlsf_intern_malloc(h, size) ==
    LET want  == MAPPING_SEARCH(size)
        b     == FIND_SUITABLE_BLOCK(h, want.class)
        taken == REMOVE_HEADER(h, b, MAPPING_INSERT(Size(h, b)))
        busy  == [taken EXCEPT !.hdr[b].free = FALSE]
        rest  == Size(h, b) - want.size - SIZE_ALIGN
        sb    == b + SIZE_ALIGN + want.size
    IN  IF b = Null THEN [heap |-> h, block |-> Null]
        ELSE IF rest > 0
        THEN [heap  |-> INSERT_FREE_BLOCK(
                            TellNext(FreeBlock(SetSize(busy, b, want.size), sb, rest, b), sb), sb),
              block |-> b]
        ELSE [heap  |-> [busy EXCEPT !.hdr[Following(h, b)].prevFree = FALSE],
              block |-> b]

(* The space before an aligned block becomes a free block.                 *)
FreeBegin(h, b, aligned, size) ==
    LET cut    == Put(SetSize(h, b, aligned - b - SIZE_ALIGN), aligned,
                      [prev |-> b, size |-> size, free |-> FALSE, prevFree |-> TRUE])
        merged == MERGE_PREV([cut EXCEPT !.hdr[b].free = TRUE], b)
    IN  INSERT_FREE_BLOCK(merged.heap, merged.block)

(* The space behind block b, up to the header end, becomes a free block.   *)
FreeEnd(h, b, end) ==
    LET b1     == Following(h, b)
        merged == MERGE_NEXT(FreeBlock(h, b1, end - b1 - SIZE_ALIGN, b), b1)
    IN  INSERT_FREE_BLOCK(TellNext(merged, b1), b1)

(* tlsf_malloc_aligned behind its checks, with a power of two as align.    *)
AlignedMalloc(h, size, align) ==
    LET m       == tlsf_intern_malloc(h, size + align)
        b       == m.block
        end     == Following(m.heap, b)
        ptr     == b + SIZE_ALIGN
        aligned == ((ptr + align - 1) \div align) * align - SIZE_ALIGN
        placed  == IF aligned = b THEN SetSize(m.heap, b, size)
                   ELSE FreeBegin(m.heap, b, aligned, size)
    IN  IF b = Null \/ align <= SIZE_ALIGN THEN m
        ELSE [heap  |-> IF end >= Following(placed, aligned) + SIZE_ALIGN
                        THEN FreeEnd(placed, aligned, end) ELSE placed,
              block |-> aligned]

(* tlsf_free of the block at header fb.                                    *)
Release(h, fb) ==
    LET prev == MERGE_PREV([h EXCEPT !.hdr[fb].free = TRUE], fb)
        both == MERGE_NEXT(prev.heap, prev.block)
    IN  INSERT_FREE_BLOCK(TellNext(both, prev.block), prev.block)

(* The pool as init_memory_area leaves it.                                 *)
Block0 == 2 * SIZE_ALIGN
End    == PoolSize - SIZE_ALIGN

init_memory_area ==
    [hdr       |-> [b \in {0, Block0, End} |->
                       [prev     |-> IF b = 0 THEN Null ELSE IF b = Block0 THEN 0 ELSE Block0,
                        size     |-> IF b = 0 THEN SIZE_ALIGN
                                     ELSE IF b = Block0 THEN PoolSize - 4 * SIZE_ALIGN ELSE 0,
                        free     |-> FALSE,
                        prevFree |-> FALSE]],
     node      |-> [x \in {} |-> 0],
     matrix    |-> [c \in Class |-> Null],
     slbitmap  |-> {},
     flbitmap  |-> {},
     free_size |-> 0]

Idle == [old |-> Null, new |-> Null, size |-> 0]

Init ==
    /\ heap = Release(init_memory_area, Block0)
    /\ owned = [p \in {} |-> 0]
    /\ op = [t \in Thread |-> Idle]

Mem(b) == b + SIZE_ALIGN
Hdr(p) == p - SIZE_ALIGN

(* The blocks a client may pass: none that a move has in hand.             *)
Mine == DOMAIN owned \ UNION {{op[t].old, op[t].new} : t \in Thread}

Give(p, n) == owned' = [q \in DOMAIN owned \cup {p} |-> IF q = p THEN n ELSE owned[q]]

tlsf_malloc(t, n) ==
    LET m == tlsf_intern_malloc(heap, ROUNDUP(n))
    IN  /\ op[t] = Idle
        /\ heap' = m.heap
        /\ IF m.block = Null THEN UNCHANGED owned ELSE Give(Mem(m.block), n)
        /\ UNCHANGED op

tlsf_malloc_aligned(t, n, a) ==
    LET align == 2 ^ MS(IF a < SIZE_ALIGN THEN SIZE_ALIGN ELSE a)
        m     == AlignedMalloc(heap, ROUNDUP(n), align)
    IN  /\ op[t] = Idle
        /\ heap' = m.heap
        /\ IF m.block = Null THEN UNCHANGED owned ELSE Give(Mem(m.block), n)
        /\ UNCHANGED op

tlsf_free(t, p) ==
    /\ op[t] = Idle
    /\ heap' = Release(heap, Hdr(p))
    /\ owned' = [q \in DOMAIN owned \ {p} |-> owned[q]]
    /\ UNCHANGED op

(* tlsf_realloc to a length that leaves a header over.                     *)
CanShrink(b, size) == size <= Size(heap, b) - SIZE_ALIGN

Shrink(b, size) == heap' = FreeEnd(SetSize(heap, b, size), b, Following(heap, b))

(* Mutant: the header of b counts as memory, too.                          *)
CanGrowFar(b, size) ==
    /\ heap.hdr[Following(heap, b)].free
    /\ size <= Size(heap, b) + 2 * SIZE_ALIGN + Size(heap, Following(heap, b))

CanGrow(b, size) ==
    /\ heap.hdr[Following(heap, b)].free
    /\ size <= Size(heap, b) + SIZE_ALIGN + Size(heap, Following(heap, b))

(* tlsf_realloc into the free block behind b.                              *)
Grow(b, size) ==
    LET next  == Following(heap, b)
        whole == MERGE(REMOVE_HEADER(heap, next, MAPPING_INSERT(Size(heap, next))), b, next)
        rest  == Size(whole, b) - size
        b1    == Mem(b) + size
        after == Following(whole, b)
    IN  heap' = IF rest >= SIZE_ALIGN
                THEN INSERT_FREE_BLOCK(
                       TellNext(FreeBlock(SetSize(whole, b, size), b1, rest - SIZE_ALIGN, b), b1), b1)
                ELSE [whole EXCEPT !.hdr[after].prev = b, !.hdr[after].prevFree = FALSE]

(* Mutant: the length is taken as the caller gives it.                     *)
NewSizeRaw(n) == n

NewSize(n) == ROUNDUP(n)

tlsf_realloc(t, p, n) ==
    LET b    == Hdr(p)
        size == NewSize(n)
    IN  /\ op[t] = Idle
        /\ \/ /\ size = Size(heap, b)
              /\ UNCHANGED <<heap, op>> /\ Give(p, n)
           \/ /\ size # Size(heap, b) /\ CanShrink(b, size)
              /\ Shrink(b, size) /\ Give(p, n) /\ UNCHANGED op
           \/ /\ size # Size(heap, b) /\ ~CanShrink(b, size) /\ CanGrow(b, size)
              /\ Grow(b, size) /\ Give(p, n) /\ UNCHANGED op
           \/ /\ size # Size(heap, b) /\ ~CanShrink(b, size) /\ ~CanGrow(b, size)
              /\ op' = [op EXCEPT ![t] = [old |-> p, new |-> Null, size |-> n]]
              /\ UNCHANGED <<heap, owned>>

(* The rest of a tlsf_realloc that has to move the block: malloc, and if   *)
(* that succeeds memcpy and free.                                          *)
MoveMalloc(t) ==
    LET m == tlsf_intern_malloc(heap, NewSize(op[t].size))
    IN  /\ op[t].old # Null /\ op[t].new = Null
        /\ heap' = m.heap
        /\ IF m.block = Null
           THEN op' = [op EXCEPT ![t] = Idle] /\ UNCHANGED owned
           ELSE /\ op' = [op EXCEPT ![t].new = Mem(m.block)]
                /\ Give(Mem(m.block), op[t].size)

(* Mutant: the old block is not given back.                                *)
MoveFreeLeaks(t) ==
    /\ op[t].new # Null
    /\ owned' = [q \in DOMAIN owned \ {op[t].old} |-> owned[q]]
    /\ op' = [op EXCEPT ![t] = Idle]
    /\ UNCHANGED heap

MoveFree(t) ==
    /\ op[t].new # Null
    /\ heap' = Release(heap, Hdr(op[t].old))
    /\ owned' = [q \in DOMAIN owned \ {op[t].old} |-> owned[q]]
    /\ op' = [op EXCEPT ![t] = Idle]

Next ==
    \E t \in Thread :
        \/ \E n \in Request : tlsf_malloc(t, n)
        \/ \E n \in Request, a \in Alignment : tlsf_malloc_aligned(t, n, a)
        \/ \E p \in Mine : tlsf_free(t, p)
        \/ \E p \in Mine, n \in Request : tlsf_realloc(t, p, n)
        \/ MoveMalloc(t)
        \/ MoveFree(t)

Spec == Init /\ [][Next]_vars
-----------------------------------------------------------------------------
Free  == {b \in DOMAIN heap.hdr : heap.hdr[b].free}
Chain(c) ==
    LET walk[i \in 0 .. PoolSize] ==
            IF i = 0 THEN heap.matrix[c]
            ELSE IF walk[i - 1] = Null THEN Null ELSE heap.node[walk[i - 1]].next
    IN  {walk[i] : i \in 0 .. PoolSize} \ {Null}

(* Headers lie on the granularity of the pool and the lengths in them are  *)
(* multiples of it; what clients own has a header in the pool.             *)
TypeOK ==
    /\ \A b \in DOMAIN heap.hdr :
          /\ b % SIZE_ALIGN = 0 /\ heap.hdr[b].size % SIZE_ALIGN = 0
          /\ b \in 0 .. End /\ heap.hdr[b].size \in 0 .. PoolSize
    /\ heap.slbitmap \subseteq Class /\ heap.flbitmap \subseteq 0 .. REAL_FLI - 1
    /\ heap.free_size \in 0 .. PoolSize
    /\ \A p \in DOMAIN owned : owned[p] \in Request
    /\ op \in [Thread -> [old : DOMAIN owned \cup {Null}, new : DOMAIN owned \cup {Null},
                          size : Request \cup {0}]]

(* The blocks tile the pool: behind every block but the last comes another *)
(* header, and its link back and its flag say what that block is.  Splits, *)
(* merges, alignment and realloc all keep boundary tags of blocks they     *)
(* have no other business with.                                            *)
BoundaryTags ==
    \A b \in DOMAIN heap.hdr \ {End} :
        LET n == Following(heap, b)
        IN  /\ n \in DOMAIN heap.hdr
            /\ heap.hdr[n].prev = b /\ heap.hdr[n].prevFree = heap.hdr[b].free

(* Two free blocks are never neighbours, headers without memory included:  *)
(* what is freed is merged, so the pool does not fall apart and is one     *)
(* block again when everything was given back.                             *)
FullyMerged ==
    \A b \in Free : ~heap.hdr[Following(heap, b)].free

(* The lists hold the free blocks that have memory, each in the list of    *)
(* its class; the bitmaps name the lists that have members; free_size,     *)
(* which JIT_CACHE_FREE shows, is the sum of what they hold.               *)
FreeLists ==
    LET members == {b \in Free : Size(heap, b) > 0}
    IN  /\ \A c \in Class : Chain(c) = {b \in members : MAPPING_INSERT(Size(heap, b)) = c}
        /\ DOMAIN heap.node = members
        /\ \A b \in members :
              /\ heap.node[b].prev = Null <=> heap.matrix[MAPPING_INSERT(Size(heap, b))] = b
              /\ heap.node[b].prev # Null => heap.node[heap.node[b].prev].next = b
        /\ heap.slbitmap = {c \in Class : heap.matrix[c] # Null}
        /\ heap.flbitmap = {c[1] : c \in heap.slbitmap}
        /\ heap.free_size = MapThenSumSet(LAMBDA b : Size(heap, b), members)

(* A search that fails means that no free block has the rounded length; a  *)
(* search that succeeds finds a block that is long enough.                 *)
SearchIsExact ==
    \A n \in {ROUNDUP(r) : r \in Request} :
        LET want == MAPPING_SEARCH(n)
            b    == FIND_SUITABLE_BLOCK(heap, want.class)
        IN  IF b = Null THEN \A f \in Free : Size(heap, f) < want.size
            ELSE b \in Free /\ Size(heap, b) >= n

Pool == INSTANCE Heap WITH Memory <- Block0 + SIZE_ALIGN .. End - 1, Length <- Request

(* The blocks handed out never overlap, whatever the threads ask for and   *)
(* give back, also while a tlsf_realloc holds an old and a new block.      *)
ImplementsHeap == Pool!Spec

(* Nothing leaks: a busy block belongs to a client, or ends the pool.      *)
NothingLeaks ==
    DOMAIN heap.hdr \ Free = {Hdr(p) : p \in DOMAIN owned} \cup {0, End}
=============================================================================
