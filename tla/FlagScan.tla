------------------------------ MODULE FlagScan ------------------------------
(***************************************************************************)
(* Condition codes on demand.  The code emitted for an instruction         *)
(* computes only the flags M68K_GetSRMask asks for: it scans ahead in the  *)
(* guest program, along branches, and drops a flag that is overwritten     *)
(* before any instruction needs it.  A flag that was dropped is stale: the *)
(* register CC holds an older value.  The program runs on; whenever an     *)
(* instruction looks at a flag, the flag must not be stale.                *)
(*                                                                         *)
(* The program is a ring of Length instructions and does not change.       *)
(***************************************************************************)
EXTENDS FlagTable, Sequences

CONSTANTS Length,    \* instructions of the program
          Insns,     \* the instructions it may consist of
          Depths,    \* values of JIT_CONTROL2's CCR_SCAN_DEPTH
          Fusions    \* runs of instructions one emitter may translate as one

ASSUME FlagScanAssumption ==
    /\ Length \in Nat \ {0} /\ Depths \subseteq Nat /\ Insns \subseteq InsnTable
    /\ \A f \in Fusions : f \in Seq(STRING)

VARIABLES prog,     \* address -> [insn, target]: where a branch leads to
          pc,       \* the instruction to run
          stale     \* flags whose value in CC is out of date

vars == <<prog, pc, stale>>

Addresses == 1..Length
After(a) == (a % Length) + 1

IsBranch(a) == prog[a].insn.flow # "next"

-----------------------------------------------------------------------------
(***************************************************************************)
(* M68K_GetSRMask.  A scan has come to an instruction, with the flags      *)
(* nothing has overwritten or needed yet and those somebody needs; it is a *)
(* function of the depth that is left.                                     *)
(***************************************************************************)
Scanning == [at : Addresses, mask : SUBSET CCR, needed : SUBSET CCR]

\* The scan after a look at the instruction at b.
Look(q, b) ==
    [at |-> b, mask |-> q.mask \ prog[b].insn.sets,
     needed |-> q.needed \cup (q.mask \cap prog[b].insn.needs)]

\* The scan on one of the paths behind the conditional branch it has come to.
Fork(q, b) ==
    [at |-> b, mask |-> q.mask,
     needed |-> q.needed \cup (q.mask \cap prog[q.at].insn.needs)]

MoveTo(q, b) == [q EXCEPT !.at = b]

\* The instruction just looked at needs all that is left.
Settled(q) == q.mask \subseteq prog[q.at].insn.needs

Result(q) == q.mask \cup q.needed

\* One of the two paths behind a conditional branch: up to the next branch.
\* The instruction at q.at is the next to look at.
Path[left \in Nat] ==
    [q \in Scanning |->
        IF q.mask = {} \/ left = 0 \/ IsBranch(q.at) THEN Result(q)
        ELSE LET r == Look(q, q.at)
             IN  IF Settled(r) THEN Result(r)
                 ELSE Path[left - 1][MoveTo(r, After(q.at))]]

\* From the instruction at q.at, already looked at, to the one the scan moves
\* on to; at a conditional branch to both, and the results are joined.
Scan[left \in Nat] ==
    [q \in Scanning |->
        LET flow    == prog[q.at].insn.flow
            Goto(b) == LET r == Look(q, b)
                       IN  IF Settled(r) THEN Result(r) ELSE Scan[left - 1][r]
            Go(b)   == Path[left - 1][Fork(q, b)]
        IN  IF q.mask = {} \/ left = 0 THEN Result(q)
            ELSE CASE flow = "break"  -> Result(q)
                   [] flow = "next"   -> Goto(After(q.at))
                   [] flow = "follow" -> Goto(prog[q.at].target)
                   [] flow = "split"  -> Go(prog[q.at].target) \cup Go(After(q.at))]

M68K_GetSRMask(a, depth) ==
    Scan[depth][[at |-> a, mask |-> prog[a].insn.sets, needed |-> {}]]

-----------------------------------------------------------------------------
\* The k-th instruction from a on.
Ahead(a, k) == ((a + k - 1) % Length) + 1

\* Where the instruction at a may lead.  One that needs all flags may trap,
\* and the handler may return anywhere.
Successors(a) ==
    CASE prog[a].insn.flow = "follow" -> {prog[a].target}
      [] prog[a].insn.flow = "split"  -> {prog[a].target, After(a)}
      [] prog[a].insn.flow = "break"  -> Addresses
      [] prog[a].insn.flow = "next"   ->
             IF prog[a].insn.needs = CCR THEN Addresses ELSE {After(a)}

\* What is stale when instruction i has computed what u asks for, and left
\* alone the flags kept.
StaleAfter(i, u, kept) ==
    LET done == Done(i.by, u \cap i.writes) \cap i.writes
    IN  (stale \ (done \ kept)) \cup (i.writes \ done)

Init ==
    /\ prog \in [Addresses -> [insn : Insns, target : Addresses]]
    /\ \A a \in Addresses :
          prog[a].insn.flow \notin {"follow", "split"} => prog[a].target = a
    /\ pc = 1 /\ stale = {}

\* An instruction with an emitter call of its own.
Single ==
    \E depth \in Depths, kept \in SUBSET prog[pc].insn.maybe :
        /\ stale' = StaleAfter(prog[pc].insn, M68K_GetSRMask(pc, depth), kept)
        /\ pc' \in Successors(pc)
        /\ UNCHANGED prog

\* Instructions translated as one: two moves to or from memory, a move and
\* the sign extensions of its target, EXT.W and EXT.L; the flags are those of
\* the last one, with the mask taken there.  ROL.W #8, SWAP, ROL.W #8 on one
\* register become a REV, with the mask taken at the first of them.
Fused ==
    \E f \in Fusions, depth \in Depths :
        /\ \A k \in 1..Len(f) : prog[Ahead(pc, k - 1)].insn.fuse = f[k]
        /\ LET last == Ahead(pc, Len(f) - 1)
               i == IF f[1] = "rol8" THEN EMIT_lineE ELSE prog[last].insn
               mask == M68K_GetSRMask(IF f[1] = "rol8" THEN pc ELSE last, depth)
           IN  /\ stale' = StaleAfter(i, mask, {})
               /\ pc' = After(last)
        /\ UNCHANGED prog

Next == Single \/ Fused

Spec == Init /\ [][Next]_vars

-----------------------------------------------------------------------------
\* The variables stay in their ranges; only condition codes are ever stale.
TypeOK ==
    /\ prog \in [Addresses -> [insn : Insns, target : Addresses]]
    /\ pc \in Addresses /\ stale \subseteq CCR

\* No instruction looks at a flag that the code of an earlier instruction left
\* uncomputed because the scan took it for dead (M68K_GetSRMask against the
\* emitters).
NoStaleRead == prog[pc].insn.reads \cap stale = {}
=============================================================================
