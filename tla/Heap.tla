-------------------------------- MODULE Heap --------------------------------
(***************************************************************************)
(* What an allocator promises its clients: the memory it hands out is      *)
(* theirs alone until they give it back.  owned maps the address of every  *)
(* block handed out to the length its owner may use.  A request that fails *)
(* changes nothing.                                                        *)
(***************************************************************************)
EXTENDS Naturals

CONSTANTS
    Memory,     \* the addresses of the pool
    Length      \* the lengths a client may be given

VARIABLE owned

vars == <<owned>>

Bytes(p, n) == p .. p + n - 1

(* The bytes at p are in the pool and no owner but that of self has any.   *)
Spare(p, n, self) ==
    /\ Bytes(p, n) \subseteq Memory
    /\ \A q \in DOMAIN owned \ {self} : Bytes(q, owned[q]) \cap Bytes(p, n) = {}

Init == owned = [p \in {} |-> 0]

Allocate(p, n) ==
    /\ p \notin DOMAIN owned /\ Spare(p, n, p)
    /\ owned' = [q \in DOMAIN owned \cup {p} |-> IF q = p THEN n ELSE owned[q]]

Free(p) == owned' = [q \in DOMAIN owned \ {p} |-> owned[q]]

Resize(p, n) ==
    /\ Spare(p, n, p)
    /\ owned' = [owned EXCEPT ![p] = n]

Next ==
    \/ \E p \in Memory, n \in Length : Allocate(p, n)
    \/ \E p \in DOMAIN owned :
          \/ Free(p)
          \/ \E n \in Length : Resize(p, n)

Spec == Init /\ [][Next]_vars
=============================================================================
